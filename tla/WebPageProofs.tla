----------------------------- MODULE WebPageProofs -----------------------------
(***************************************************************************)
(* What the page shows, for any numbers of cases, events, files, slots and *)
(* datasets and whatever a person does.  Every step is one of the console  *)
(* or of the gateway, which leaves the panel alone, or one of the panel,   *)
(* which leaves the console alone; each half has an invariant of its own.  *)
(***************************************************************************)
EXTENDS WebPage, SequenceTheorems, TLAPS

CaseOrNone == Cases \cup {NoCase}
Event == [case : Cases, n : Nat]
CallStates == {"none", "posting", "answered", "refused"}
CaseStates == {"none", "running"} \cup Final
Settling ==
  [at : {"off", "asked", "done"}, trail : Nat, state : {"unread"} \cup CaseStates]
Page ==
  [case : CaseOrNone, status : {"draft", "queued", "running"} \cup CaseStates,
   events : Seq(Event), report : CaseOrNone, source : BOOLEAN]

ConsoleTypes ==
  /\ page \in Page
  /\ call \in [Cases -> CallStates]
  /\ outcome \in [Cases -> CaseStates]
  /\ followed \in CaseOrNone
  /\ read \in Nat
  /\ settling \in [Cases -> Settling]
  /\ {cooldown, limited, late, broken, ended} \subseteq BOOLEAN
  /\ awaited \in CaseOrNone
  /\ log \in Nat /\ taken \in Nat
  /\ at \in [Readers -> Points]
  /\ upto \in [Readers -> Nat]
  /\ frames \in [Readers -> Seq(Nat)]

\* The gateway knows the followed case, and a stream that is closed has ended.
CasesKnown ==
  /\ followed # NoCase =>
       /\ call[followed] = "answered"
       /\ outcome[followed] # "none"
       /\ ended <=> outcome[followed] \in Final
  /\ \A c \in Cases :
       /\ call[c] # "answered" => settling[c] = NotSettling
       /\ settling[c].state = "completed" => outcome[c] = "completed"

\* Each frame is the first event or the successor of one sent before it.
Chained(s) ==
  \A i \in 1..Len(s) : s[i] = 1 \/ \E h \in 1..(i - 1) : s[i] = s[h] + 1

StreamInOrder ==
  /\ Chained(frames[Tab])
  /\ read <= Len(frames[Tab])
  /\ taken <= log \/ ended
  /\ at[Tab] = "replay" =>
       /\ \A i \in 1..Len(frames[Tab]) : frames[Tab][i] = i
       /\ Len(frames[Tab]) <= upto[Tab]
       /\ taken <= upto[Tab] \/ ended
  /\ at[Tab] = "follow" => taken = 0 \/ \E h \in 1..Len(frames[Tab]) : frames[Tab][h] = taken
  /\ at[Tab] = "closed" => ended
  /\ page.source /\ at[Tab] = "off" => frames[Tab] = <<>> /\ read = 0

\* The stream is that of the case the page shows and its reader waits for.
SourceIsOfPage ==
  page.source =>
    /\ Busy
    /\ followed # NoCase /\ page.case = followed /\ awaited = followed
    /\ \A i \in 1..read : frames[Tab][i] <= Len(page.events)

\* A page that has submitted is blank, and the gateway does not refuse for ever.
SubmittedIsBlank ==
  awaited # NoCase /\ call[awaited] = "posting" =>
    /\ ~page.source /\ page.events = <<>> /\ page.report = NoCase /\ page.status = "queued"
    /\ ~limited

\* A case that is being settled is the one that is shown; unless it was cut, its run is over.
SettlesWhatIsShown ==
  awaited # NoCase /\ settling[awaited].at = "asked" =>
    /\ ~page.source /\ Busy /\ page.case = awaited /\ followed = awaited
    /\ ~broken => ended /\ settling[awaited].trail \in {0, log}

\* A completed case is settled, and nothing changes it any more.
CompletedIsSettled ==
  page.status = "completed" =>
    /\ ~page.source /\ page.case # NoCase /\ page.case = followed /\ page.report = page.case
    /\ settling[page.case].at = "done"
    /\ ~broken => ended /\ (settling[page.case].trail # 0 => Len(page.events) = log)

ConsoleInv ==
  /\ ConsoleTypes
  /\ CasesKnown
  /\ StreamInOrder
  /\ ~late =>
       /\ SourceIsOfPage
       /\ SubmittedIsBlank
       /\ SettlesWhatIsShown
       /\ CompletedIsSettled
  /\ ShowsOneCase
  /\ CooldownCoversRetryAfter

DatasetOrNone == Datasets \cup {NoDataset}
SlotStates == {"empty", "uploading", "accepted", "rejected"}
FileStates == {"unused", "waiting", "sent", "stored", "refused", "over"}
DatasetStates == {"none", "open", "sealed", "gone"}

PanelTypes ==
  /\ panel \in [dataset : DatasetOrNone, slots : [Slots -> SlotStates],
                sealed : DatasetOrNone, working : BOOLEAN, creating : BOOLEAN]
  /\ upload \in [Uploads -> [at : FileStates, slot : Slots, target : DatasetOrNone]]
  /\ {sealing, brief} \subseteq DatasetOrNone
  /\ server \in [Datasets -> [status : DatasetStates, sources : SUBSET Slots]]
  /\ orphans \subseteq Datasets
  /\ strayed \in BOOLEAN

DeletesCounted == deleting \in [Datasets -> Nat]

\* The dataset of the panel is at the gateway until its delete gets there.
PanelDatasetExists ==
  /\ panel.creating => panel.dataset = NoDataset
  /\ panel.dataset # NoDataset /\ ~BeingDeleted(panel.dataset) =>
       server[panel.dataset].status \in {"open", "sealed"}
  /\ panel.dataset # NoDataset => server[panel.dataset].status # "none"
  /\ sealing # NoDataset => server[sealing].status # "none"

\* A file on its way has a dataset, and one that was taken is in it as long as it exists.
UploadHasTarget(u) ==
  /\ upload[u].at \in {"sent", "stored", "refused"} => upload[u].target # NoDataset
  /\ upload[u].at = "stored" =>
       \/ upload[u].slot \in server[upload[u].target].sources
       \/ server[upload[u].target].status = "gone"

UploadsHaveTargets == \A u \in Uploads : UploadHasTarget(u)

PanelInv ==
  /\ PanelTypes /\ DeletesCounted
  /\ PanelDatasetExists /\ UploadsHaveTargets /\ PanelMatchesStore

IInv == ConsoleInv /\ PanelInv /\ session \in Sessions
-----------------------------------------------------------------------------
LEMMA PanelInit_PanelInv == PanelInit => PanelInv
<1>1. (CHOOSE s \in Slots : TRUE) \in Slots
  BY SlotsOfPanel
<1> SUFFICES ASSUME PanelInit PROVE PanelInv
  OBVIOUS
<1>2. PanelTypes
  BY <1>1, SlotsOfPanel, PanelBounds
    DEF PanelInit, PanelTypes, EmptyPanel, Upload, DatasetOrNone, Datasets, NoDataset, SlotStates,
        FileStates, DatasetStates
<1>3. PanelDatasetExists /\ UploadsHaveTargets
  BY <1>1
    DEF PanelInit, PanelDatasetExists, BeingDeleted, UploadsHaveTargets, UploadHasTarget,
        EmptyPanel, Upload
<1>4. PanelMatchesStore
  BY
    DEF PanelInit, PanelMatchesStore, AcceptedIsStored, NoUnknownDataset, BriefIsOverSealedData,
        BeingDeleted, EmptyPanel
<1>5. DeletesCounted
  BY DEF PanelInit, DeletesCounted
<1> QED BY <1>2, <1>3, <1>4, <1>5 DEF PanelInv

LEMMA UploadsUsed ==
  ASSUME session \in Sessions PROVE 1..session.uploads \subseteq Uploads
<1> QED BY UploadsInBounds, PanelBounds DEF Uploads

LEMMA DeletesCountedStep ==
  ASSUME DeletesCounted, PanelUsed \/ PanelAnswered PROVE DeletesCounted'
<1> USE DEF DeletesCounted
<1>1. CASE Discard
  <2>1. \A e \in Datasets : deleting'[e] \in Nat
    BY <1>1 DEF Discard
  <2> QED BY <1>1, <2>1 DEF Discard
<1>2. ASSUME NEW d \in Datasets, NEW failed \in BOOLEAN, Discarded(d, failed)
      PROVE  DeletesCounted'
  BY <1>2 DEF Discarded, Forget
<1>3. CASE UNCHANGED deleting
  BY <1>3
<1>4. \/ Discard \/ UNCHANGED deleting
      \/ \E d \in Datasets, failed \in BOOLEAN : Discarded(d, failed)
  BY DEF PanelUsed, PanelAnswered, PickFile, Seal, Created, CreateFails, Store, Stored,
         SealReachesGateway, Sealed, SealFails, DeleteReachesGateway
<1> QED BY <1>1, <1>2, <1>3, <1>4

LEMMA PanelTypesStep ==
  ASSUME PanelTypes, session \in Sessions, PanelUsed \/ PanelAnswered PROVE PanelTypes'
<1> USE DEF PanelTypes, DatasetOrNone, NoDataset, SlotStates, FileStates, DatasetStates
<1>0. Over \in [at : {"over"}, slot : Slots, target : {NoDataset}]
  BY SlotsOfPanel DEF Over, Upload
<1>1. ASSUME NEW u \in Uploads, NEW s \in Slots, PickFile(u, s) PROVE PanelTypes'
  BY <1>1 DEF PickFile, Upload
<1>2. CASE Seal
  BY <1>2 DEF Seal
<1>3. CASE Discard
  BY <1>3 DEF Discard
<1>4. ASSUME NEW d \in Datasets, Created(d) PROVE PanelTypes'
  <2>1. panel' \in [dataset : DatasetOrNone, slots : [Slots -> SlotStates],
                    sealed : DatasetOrNone, working : BOOLEAN, creating : BOOLEAN]
    BY <1>4 DEF Created
  <2>2. upload' \in [Uploads -> [at : FileStates, slot : Slots, target : DatasetOrNone]]
    <3>1. ASSUME NEW u \in Uploads
          PROVE  [upload[u] EXCEPT !.at = "sent", !.target = d]
                   \in [at : FileStates, slot : Slots, target : DatasetOrNone]
      <4>1. upload[u] \in [at : FileStates, slot : Slots, target : DatasetOrNone]
        BY <3>1
      <4> QED BY <1>4, <4>1
    <3> QED BY <1>4, <3>1 DEF Created
  <2>3. server' \in [Datasets -> [status : DatasetStates, sources : SUBSET Slots]]
    BY <1>4 DEF Created
  <2> QED BY <1>4, <2>1, <2>2, <2>3 DEF Created
<1>5. CASE CreateFails
  <2>1. panel' \in [dataset : DatasetOrNone, slots : [Slots -> SlotStates],
                    sealed : DatasetOrNone, working : BOOLEAN, creating : BOOLEAN]
    BY <1>5 DEF CreateFails, Rejects
  <2>2. upload' \in [Uploads -> [at : FileStates, slot : Slots, target : DatasetOrNone]]
    BY <1>0, <1>5 DEF CreateFails
  <2>3. server' \in [Datasets -> [status : DatasetStates, sources : SUBSET Slots]]
    <3>1. CASE UNCHANGED server
      BY <3>1
    <3>2. ASSUME NEW d \in Datasets, server' = [server EXCEPT ![d].status = "open"]
          PROVE  server' \in [Datasets -> [status : DatasetStates, sources : SUBSET Slots]]
      BY <3>2
    <3> QED BY <1>5, <3>1, <3>2 DEF CreateFails, Unused
  <2>4. orphans' \subseteq Datasets
    BY <1>5 DEF CreateFails, Unused
  <2> QED BY <1>5, <2>1, <2>2, <2>3, <2>4 DEF CreateFails
<1>6. ASSUME NEW u \in Uploads, Store(u) PROVE PanelTypes'
  <2>1. server' \in [Datasets -> [status : DatasetStates, sources : SUBSET Slots]]
    BY <1>6 DEF Store
  <2>2. upload' \in [Uploads -> [at : FileStates, slot : Slots, target : DatasetOrNone]]
    <3>1. \A answer \in {"stored", "refused"} :
            [upload EXCEPT ![u].at = answer]
              \in [Uploads -> [at : FileStates, slot : Slots, target : DatasetOrNone]]
      OBVIOUS
    <3> QED BY <1>6, <3>1 DEF Store
  <2> QED BY <1>6, <2>1, <2>2 DEF Store
<1>7. ASSUME NEW u \in Uploads, Stored(u) PROVE PanelTypes'
  BY <1>0, <1>7 DEF Stored
<1>8. CASE SealReachesGateway
  BY <1>8 DEF SealReachesGateway
<1>13. CASE Sealed
  BY <1>13 DEF Sealed
<1>12. CASE SealFails
  BY <1>12 DEF SealFails
<1>9. ASSUME NEW d \in Datasets, DeleteReachesGateway(d) PROVE PanelTypes'
  BY <1>9 DEF DeleteReachesGateway
<1>10. ASSUME NEW d \in Datasets, NEW failed \in BOOLEAN, Discarded(d, failed) PROVE PanelTypes'
  BY <1>10 DEF Discarded, Forget, EmptyPanel
<1>14. CASE PanelUsed
  BY UploadsUsed, <1>1, <1>2, <1>3, <1>14 DEF PanelUsed
<1>15. CASE PanelAnswered
  <2>1. CASE \E d \in Datasets :
               DeleteReachesGateway(d) \/ \E failed \in BOOLEAN : Discarded(d, failed)
    BY <1>9, <1>10, <2>1
  <2> QED BY <1>4, <1>5, <1>6, <1>7, <1>8, <1>12, <1>13, <1>15, <2>1 DEF PanelAnswered
<1> QED BY <1>14, <1>15

\* A click on "Delete now" starts a delete, and an answer ends one of its dataset.
LEMMA DiscardStartsOne ==
  ASSUME PanelInv, Discard
  PROVE  /\ BeingDeleted(panel.dataset)'
         /\ \A e \in Datasets : BeingDeleted(e) => BeingDeleted(e)'
<1>1. panel.dataset \in Datasets /\ panel' = panel
  BY DEF PanelInv, PanelTypes, DatasetOrNone, Discard
<1>2. \A e \in Datasets : deleting[e] \in Nat
  BY DEF PanelInv, DeletesCounted
<1>3. deleting'[panel.dataset] = deleting[panel.dataset] + 1
  BY <1>1 DEF PanelInv, DeletesCounted, Discard
<1>4. \A e \in Datasets \ {panel.dataset} : deleting'[e] = deleting[e]
  BY DEF PanelInv, DeletesCounted, Discard
<1> QED BY <1>1, <1>2, <1>3, <1>4 DEF BeingDeleted, Discard

LEMMA DiscardedEndsOne ==
  ASSUME PanelInv, NEW d \in Datasets, NEW failed \in BOOLEAN, Discarded(d, failed)
  PROVE  \A e \in Datasets \ {d} : BeingDeleted(e) <=> BeingDeleted(e)'
<1>1. \A e \in Datasets \ {d} : deleting'[e] = deleting[e]
  BY DEF PanelInv, DeletesCounted, Discarded, Forget
<1> QED BY <1>1 DEF BeingDeleted

\* The gateway keeps what it was given while datasets are made and filled.
OnlyGrows ==
  \A e \in Datasets :
    /\ server[e].sources \subseteq server'[e].sources
    /\ server'[e].status = server[e].status
         \/ (server[e].status = "none" /\ server'[e].status = "open" /\ e # panel.dataset)

LEMMA ServerGrows ==
  ASSUME PanelInv,
         CreateFails \/ (\E d \in Datasets : Created(d)) \/ (\E u \in Uploads : Store(u))
  PROVE  OnlyGrows
<1> USE DEF PanelInv, PanelTypes, DatasetOrNone, NoDataset, PanelDatasetExists, OnlyGrows
<1>0. Datasets \subseteq Nat \ {0}
  BY PanelBounds DEF Datasets
<1>1. CASE CreateFails
  <2>1. CASE UNCHANGED server
    BY <2>1
  <2>2. ASSUME NEW d \in Unused, server' = [server EXCEPT ![d].status = "open"] PROVE OnlyGrows
    BY <1>0, <2>2 DEF Unused
  <2> QED BY <1>1, <2>1, <2>2 DEF CreateFails
<1>2. ASSUME NEW d \in Datasets, Created(d) PROVE OnlyGrows
  BY <1>0, <1>2 DEF Created, Unused
<1>3. ASSUME NEW u \in Uploads, Store(u) PROVE OnlyGrows
  <2>1. CASE UNCHANGED server
    BY <2>1
  <2>2. CASE server' = [server EXCEPT ![upload[u].target].sources = @ \union {upload[u].slot}]
    BY <2>2
  <2> QED BY <1>3, <2>1, <2>2 DEF Store
<1> QED BY <1>1, <1>2, <1>3

LEMMA PanelDatasetExistsStep ==
  ASSUME PanelInv, PanelTypes', ~strayed, session \in Sessions, PanelUsed \/ PanelAnswered
  PROVE  PanelDatasetExists'
<1> USE DEF PanelInv, PanelTypes, DatasetOrNone, NoDataset, SlotStates, FileStates, DatasetStates
<1>0. Datasets \subseteq Nat \ {0}
  BY PanelBounds DEF Datasets
<1>1. ASSUME NEW u \in Uploads, NEW s \in Slots, PickFile(u, s) PROVE PanelDatasetExists'
  BY <1>0, <1>1 DEF PanelDatasetExists, BeingDeleted, PickFile
<1>2. CASE Seal
  BY <1>0, <1>2 DEF PanelDatasetExists, BeingDeleted, Seal
<1>3. CASE Discard
  <2>1. UNCHANGED <<panel, server, sealing>>
    BY <1>3 DEF Discard
  <2>2. BeingDeleted(panel.dataset)'
    BY <1>3, DiscardStartsOne
  <2> QED BY <2>1, <2>2 DEF PanelDatasetExists
<1>4. ASSUME NEW d \in Datasets, Created(d) PROVE PanelDatasetExists'
  BY <1>0, <1>4 DEF PanelDatasetExists, BeingDeleted, Created
<1>5. CASE CreateFails
  BY <1>0, <1>5 DEF PanelDatasetExists, BeingDeleted, CreateFails, Rejects, Over, Upload, Unused
<1>6. ASSUME NEW u \in Uploads, Store(u) PROVE PanelDatasetExists'
  <2>1. OnlyGrows
    BY <1>6, ServerGrows
  <2> QED BY <1>0, <1>6, <2>1 DEF PanelDatasetExists, BeingDeleted, Store, OnlyGrows
<1>7. ASSUME NEW u \in Uploads, Stored(u) PROVE PanelDatasetExists'
  BY <1>0, <1>7 DEF PanelDatasetExists, BeingDeleted, Stored, Over
<1>8. CASE SealReachesGateway
  BY <1>0, <1>8 DEF PanelDatasetExists, BeingDeleted, SealReachesGateway
<1>9. CASE Sealed
  BY <1>0, <1>9 DEF PanelDatasetExists, BeingDeleted, Sealed
<1>10. CASE SealFails
  BY <1>0, <1>10 DEF PanelDatasetExists, BeingDeleted, SealFails
<1>11. ASSUME NEW d \in Datasets, DeleteReachesGateway(d) PROVE PanelDatasetExists'
  BY <1>0, <1>11 DEF PanelDatasetExists, BeingDeleted, DeleteReachesGateway
<1>12. ASSUME NEW d \in Datasets, NEW failed \in BOOLEAN, Discarded(d, failed)
       PROVE  PanelDatasetExists'
  BY <1>0, <1>12 DEF PanelDatasetExists, BeingDeleted, Discarded, Forget, EmptyPanel
<1>14. CASE PanelUsed
  BY UploadsUsed, <1>1, <1>2, <1>3, <1>14 DEF PanelUsed
<1>15. CASE PanelAnswered
  <2>1. CASE \E d \in Datasets :
               DeleteReachesGateway(d) \/ \E failed \in BOOLEAN : Discarded(d, failed)
    BY <1>11, <1>12, <2>1
  <2> QED BY <1>4, <1>5, <1>6, <1>7, <1>8, <1>9, <1>10, <1>15, <2>1 DEF PanelAnswered
<1> QED BY <1>14, <1>15

LEMMA FileOnItsWay ==
  ASSUME PanelInv, OnlyGrows, NEW v \in Uploads, upload'[v] = upload[v]
  PROVE  UploadHasTarget(v)'
<1>1. upload[v].target \in Datasets \cup {NoDataset}
  BY DEF PanelInv, PanelTypes, DatasetOrNone
<1>2. UploadHasTarget(v)
  BY DEF PanelInv, UploadsHaveTargets
<1> QED BY <1>1, <1>2 DEF UploadHasTarget, OnlyGrows

LEMMA UploadsHaveTargetsStep ==
  ASSUME PanelInv, PanelTypes', ~strayed, session \in Sessions, PanelUsed \/ PanelAnswered
  PROVE  UploadsHaveTargets'
<1> USE DEF PanelInv, PanelTypes, DatasetOrNone, NoDataset, SlotStates, FileStates, DatasetStates
<1>0. Datasets \subseteq Nat \ {0}
  BY PanelBounds DEF Datasets
<1>1. ASSUME NEW u \in Uploads, NEW s \in Slots, PickFile(u, s) PROVE UploadsHaveTargets'
  BY <1>0, <1>1 DEF UploadsHaveTargets, UploadHasTarget, PickFile, Upload
<1>2. CASE Seal
  BY <1>0, <1>2 DEF UploadsHaveTargets, UploadHasTarget, Seal
<1>3. CASE Discard
  BY <1>0, <1>3 DEF UploadsHaveTargets, UploadHasTarget, Discard
<1>4. ASSUME NEW d \in Datasets, Created(d) PROVE UploadsHaveTargets'
  <2>1. OnlyGrows
    BY <1>4, ServerGrows
  <2>2. ASSUME NEW v \in Uploads, upload[v].at = "waiting" PROVE UploadHasTarget(v)'
    <3>1. upload[v] \in [at : FileStates, slot : Slots, target : DatasetOrNone]
      OBVIOUS
    <3>2. upload'[v] = [upload[v] EXCEPT !.at = "sent", !.target = d]
      BY <1>4, <2>2 DEF Created
    <3>3. upload'[v].at = "sent" /\ upload'[v].target = d
      BY <3>1, <3>2
    <3> QED BY <1>0, <1>4, <3>3 DEF UploadHasTarget
  <2>3. ASSUME NEW v \in Uploads, upload[v].at # "waiting" PROVE UploadHasTarget(v)'
    <3>1. upload'[v] = upload[v]
      BY <1>4, <2>3 DEF Created
    <3> QED BY <2>1, <3>1, FileOnItsWay
  <2> QED BY <2>2, <2>3 DEF UploadsHaveTargets
<1>5. CASE CreateFails
  <2>1. OnlyGrows
    BY <1>5, ServerGrows
  <2>2. ASSUME NEW v \in Uploads PROVE upload'[v] = upload[v] \/ upload'[v].at = "over"
    BY <1>5, <2>2 DEF CreateFails, Over, Upload
  <2>3. ASSUME NEW v \in Uploads PROVE UploadHasTarget(v)'
    <3>1. CASE upload'[v] = upload[v]
      BY <2>1, <3>1, FileOnItsWay
    <3>2. CASE upload'[v].at = "over"
      BY <3>2 DEF UploadHasTarget
    <3> QED BY <2>2, <3>1, <3>2
  <2> QED BY <2>3 DEF UploadsHaveTargets
<1>6. ASSUME NEW u \in Uploads, Store(u) PROVE UploadsHaveTargets'
  <2>1. OnlyGrows
    BY <1>6, ServerGrows
  <2>2. ASSUME NEW v \in Uploads, v # u PROVE upload'[v] = upload[v]
    BY <1>6, <2>2 DEF Store
  <2>3. /\ upload'[u].slot = upload[u].slot /\ upload'[u].target = upload[u].target
        /\ upload[u].target # NoDataset
        /\ upload'[u].at = "stored" => upload[u].slot \in server'[upload[u].target].sources
    BY <1>6 DEF Store, UploadsHaveTargets, UploadHasTarget
  <2>4. UploadHasTarget(u)'
    BY <2>3 DEF UploadHasTarget
  <2>5. \A v \in Uploads \ {u} : UploadHasTarget(v)'
    BY <2>1, <2>2, FileOnItsWay
  <2> QED BY <2>4, <2>5 DEF UploadsHaveTargets
<1>7. ASSUME NEW u \in Uploads, Stored(u) PROVE UploadsHaveTargets'
  BY <1>0, <1>7 DEF UploadsHaveTargets, UploadHasTarget, Stored, Over, Upload
<1>8. CASE SealReachesGateway
  BY <1>0, <1>8 DEF UploadsHaveTargets, UploadHasTarget, SealReachesGateway
<1>9. CASE Sealed
  BY <1>0, <1>9 DEF UploadsHaveTargets, UploadHasTarget, Sealed
<1>10. CASE SealFails
  BY <1>0, <1>10 DEF UploadsHaveTargets, UploadHasTarget, SealFails
<1>11. ASSUME NEW d \in Datasets, DeleteReachesGateway(d) PROVE UploadsHaveTargets'
  BY <1>0, <1>11 DEF UploadsHaveTargets, UploadHasTarget, DeleteReachesGateway
<1>12. ASSUME NEW d \in Datasets, NEW failed \in BOOLEAN, Discarded(d, failed)
       PROVE  UploadsHaveTargets'
  BY <1>0, <1>12 DEF UploadsHaveTargets, UploadHasTarget, Discarded
<1>14. CASE PanelUsed
  BY UploadsUsed, <1>1, <1>2, <1>3, <1>14 DEF PanelUsed
<1>15. CASE PanelAnswered
  <2>1. CASE \E d \in Datasets :
               DeleteReachesGateway(d) \/ \E failed \in BOOLEAN : Discarded(d, failed)
    BY <1>11, <1>12, <2>1
  <2> QED BY <1>4, <1>5, <1>6, <1>7, <1>8, <1>9, <1>10, <1>15, <2>1 DEF PanelAnswered
<1> QED BY <1>14, <1>15

LEMMA PanelMatchesStoreStep ==
  ASSUME PanelInv, PanelTypes', ~strayed, session \in Sessions, PanelUsed \/ PanelAnswered
  PROVE  PanelMatchesStore'
<1> USE DEF PanelInv, PanelTypes, DatasetOrNone, NoDataset, SlotStates, FileStates, DatasetStates
<1>0. Datasets \subseteq Nat \ {0}
  BY PanelBounds DEF Datasets
<1>1. ASSUME NEW u \in Uploads, NEW s \in Slots, PickFile(u, s) PROVE PanelMatchesStore'
  BY <1>0, <1>1
    DEF PanelMatchesStore, BeingDeleted, AcceptedIsStored, NoUnknownDataset,
        BriefIsOverSealedData, PickFile
<1>2. CASE Seal
  BY <1>0, <1>2
    DEF PanelMatchesStore, BeingDeleted, AcceptedIsStored, NoUnknownDataset,
        BriefIsOverSealedData, Seal
<1>3. CASE Discard
  <2>1. UNCHANGED <<panel, server, brief, orphans, strayed>>
    BY <1>3 DEF Discard
  <2>2. BeingDeleted(panel.dataset)' /\ \A e \in Datasets : BeingDeleted(e) => BeingDeleted(e)'
    BY <1>3, DiscardStartsOne
  <2>3. AcceptedIsStored'
    BY <2>1, <2>2 DEF AcceptedIsStored
  <2>4. NoUnknownDataset'
    BY <2>1, <2>2 DEF PanelMatchesStore, NoUnknownDataset
  <2>5. BriefIsOverSealedData'
    BY <2>1, <2>2 DEF PanelMatchesStore, BriefIsOverSealedData
  <2> QED BY <2>3, <2>4, <2>5 DEF PanelMatchesStore
<1>4. ASSUME NEW d \in Datasets, Created(d) PROVE PanelMatchesStore'
  <2>1. OnlyGrows
    BY <1>4, ServerGrows
  <2>2. /\ panel.dataset = NoDataset /\ deleting' = deleting /\ brief = NoDataset
        /\ panel'.slots = panel.slots /\ panel'.dataset = d
    BY <1>0, <1>4
      DEF Created, BeingDeleted, PanelMatchesStore, AcceptedIsStored, NoUnknownDataset,
          BriefIsOverSealedData, PanelDatasetExists, UploadsHaveTargets
  <2>3. \A e \in Datasets \ {d} : server'[e] = server[e]
    BY <1>4 DEF Created
  <2>4. \A s \in Slots : panel.slots[s] # "accepted"
    BY <2>2 DEF BeingDeleted, PanelMatchesStore, AcceptedIsStored
  <2>5. AcceptedIsStored'
    BY <2>2, <2>4 DEF AcceptedIsStored
  <2>6. NoUnknownDataset'
    <3>1. UNCHANGED <<orphans, deleting>> /\ panel'.dataset = d
      BY <1>4, <2>2 DEF Created
    <3>2. \A e \in Datasets \ {d} : server[e].status \in {"open", "sealed"} =>
            BeingDeleted(e) \/ e \in orphans
      BY <1>0, <2>2 DEF PanelMatchesStore, NoUnknownDataset
    <3>3. \A e \in Datasets : BeingDeleted(e)' <=> BeingDeleted(e)
      BY <3>1 DEF BeingDeleted
    <3> QED BY <2>3, <3>1, <3>2, <3>3 DEF NoUnknownDataset
  <2>7. BriefIsOverSealedData'
    BY <1>4, <2>2 DEF Created, BriefIsOverSealedData
  <2> QED BY <2>5, <2>6, <2>7 DEF PanelMatchesStore
<1>5. CASE CreateFails
  <2>1. OnlyGrows
    BY <1>5, ServerGrows
  <2>2. /\ panel'.dataset = panel.dataset /\ panel'.sealed = panel.sealed
        /\ \A s \in Slots : panel'.slots[s] = "accepted" => panel.slots[s] = "accepted"
    BY <1>5 DEF CreateFails, Rejects
  <2>3. \A e \in Datasets : server'[e].status # server[e].status => e \in orphans'
    BY <1>5 DEF CreateFails
  <2>4. orphans \subseteq orphans'
    BY <1>5 DEF CreateFails
  <2> QED BY <1>0, <1>5, <2>1, <2>2, <2>3, <2>4
            DEF CreateFails, OnlyGrows, BeingDeleted, PanelMatchesStore, AcceptedIsStored,
                NoUnknownDataset, BriefIsOverSealedData
<1>6. ASSUME NEW u \in Uploads, Store(u) PROVE PanelMatchesStore'
  <2>1. OnlyGrows
    BY <1>6, ServerGrows
  <2>2. \A e \in Datasets : server'[e].status = server[e].status
    <3>1. CASE UNCHANGED server
      BY <3>1
    <3>2. CASE server' = [server EXCEPT ![upload[u].target].sources = @ \union {upload[u].slot}]
      BY <3>2
    <3> QED BY <1>6, <3>1, <3>2 DEF Store
  <2> QED BY <1>0, <1>6, <2>1, <2>2
            DEF Store, OnlyGrows, BeingDeleted, PanelMatchesStore, AcceptedIsStored,
                NoUnknownDataset, BriefIsOverSealedData
<1>7. ASSUME NEW u \in Uploads, Stored(u) PROVE PanelMatchesStore'
  <2>1. /\ panel'.dataset = panel.dataset /\ panel'.sealed = panel.sealed
        /\ \A s \in Slots : panel'.slots[s] = "accepted" =>
             panel.slots[s] = "accepted" \/ (s = upload[u].slot /\ upload[u].at = "stored")
    BY <1>7 DEF Stored
  <2>2. ~strayed' => upload[u].target = panel.dataset /\ upload[u].target # NoDataset
    BY <1>7 DEF Stored, UploadsHaveTargets, UploadHasTarget
  <2>3. ~strayed' => AcceptedIsStored'
    BY <1>0, <1>7, <2>1, <2>2
      DEF Stored, BeingDeleted, PanelMatchesStore, AcceptedIsStored, PanelDatasetExists,
          UploadsHaveTargets, UploadHasTarget
  <2> QED BY <1>7, <2>1, <2>3
            DEF Stored, BeingDeleted, PanelMatchesStore, NoUnknownDataset, BriefIsOverSealedData
<1>8. CASE SealReachesGateway
  BY <1>0, <1>8
    DEF PanelMatchesStore, BeingDeleted, AcceptedIsStored, NoUnknownDataset, BriefIsOverSealedData,
        SealReachesGateway
<1>9. CASE Sealed
  BY <1>0, <1>9
    DEF PanelMatchesStore, BeingDeleted, AcceptedIsStored, NoUnknownDataset, BriefIsOverSealedData,
        PanelDatasetExists, UploadsHaveTargets, UploadHasTarget, Sealed
<1>10. CASE SealFails
  BY <1>0, <1>10
    DEF PanelMatchesStore, BeingDeleted, AcceptedIsStored, NoUnknownDataset,
        BriefIsOverSealedData, SealFails
<1>11. ASSUME NEW d \in Datasets, DeleteReachesGateway(d) PROVE PanelMatchesStore'
  BY <1>0, <1>11
    DEF PanelMatchesStore, BeingDeleted, AcceptedIsStored, NoUnknownDataset, BriefIsOverSealedData,
        DeleteReachesGateway
<1>12. ASSUME NEW d \in Datasets, NEW failed \in BOOLEAN, Discarded(d, failed)
       PROVE  PanelMatchesStore'
  <2>1. CASE panel.dataset \notin {d, NoDataset}
    BY <1>12, <2>1 DEF Discarded, PanelMatchesStore
  <2>2. CASE panel.dataset \in {d, NoDataset}
    <3>1. /\ panel'.dataset = NoDataset /\ brief' = NoDataset /\ server' = server
          /\ \A s \in Slots : panel'.slots[s] = "empty"
      BY <1>12 DEF Discarded, Forget, EmptyPanel
    <3>2. orphans \subseteq orphans' /\ (server[d].status = "gone" \/ d \in orphans')
      BY <1>12 DEF Discarded, Forget
    <3>3. \A e \in Datasets \ {d} : BeingDeleted(e) <=> BeingDeleted(e)'
      BY <1>12, DiscardedEndsOne
    <3>4. AcceptedIsStored'
      BY <3>1 DEF AcceptedIsStored
    <3>5. NoUnknownDataset'
      BY <1>12, <2>2, <3>1, <3>2, <3>3 DEF Discarded, PanelMatchesStore, NoUnknownDataset
    <3>6. BriefIsOverSealedData'
      BY <3>1 DEF BriefIsOverSealedData
    <3> QED BY <3>4, <3>5, <3>6 DEF PanelMatchesStore
  <2> QED BY <2>1, <2>2
<1>14. CASE PanelUsed
  BY UploadsUsed, <1>1, <1>2, <1>3, <1>14 DEF PanelUsed
<1>15. CASE PanelAnswered
  <2>1. CASE \E d \in Datasets :
               DeleteReachesGateway(d) \/ \E failed \in BOOLEAN : Discarded(d, failed)
    BY <1>11, <1>12, <2>1
  <2> QED BY <1>4, <1>5, <1>6, <1>7, <1>8, <1>9, <1>10, <1>15, <2>1 DEF PanelAnswered
<1> QED BY <1>14, <1>15
-----------------------------------------------------------------------------
ConsoleSteps(c) == Submit(c) \/ Answer(c) \/ Refuse(c) \/ Reconcile(c)
PageSteps == CooldownOver \/ Reset \/ Open \/ Message \/ StreamEnds \/ StreamBreaks
GatewaySteps ==
  \/ RunEmits \/ GatewayServes
  \/ \E status \in Final : RunEnds(status) \/ \E c \in Cases : EndsOutOfSight(c, status)

ConsoleStep == (~late /\ ((\E c \in Cases : ConsoleSteps(c)) \/ PageSteps)) \/ GatewaySteps

LEMMA ConsoleInit_ConsoleInv == ConsoleInit => ConsoleInv
<1> SUFFICES ASSUME ConsoleInit PROVE ConsoleInv
  OBVIOUS
<1>0. Tab \in Readers
  BY TabOpen DEF Tab
<1>1. page = Blank /\ page.events = <<>> /\ Len(<<>>) = 0 /\ <<>> \in Seq(Event) /\ <<>> \in Seq(Nat)
  BY DEF ConsoleInit, Blank
<1>2. ConsoleTypes
  <2>1. page \in Page
    BY <1>1 DEF Page, Blank, CaseOrNone
  <2>2. NotSettling \in Settling
    BY DEF NotSettling, Settling
  <2> QED BY <1>1, <2>1, <2>2
            DEF ConsoleInit, Init, ConsoleTypes, CaseOrNone, NoCase, CallStates, CaseStates,
                Points
<1>3. CasesKnown
  BY DEF ConsoleInit, CasesKnown, NotSettling
<1>4. StreamInOrder
  BY <1>0, <1>1 DEF ConsoleInit, Init, StreamInOrder, Chained
<1>5. SourceIsOfPage /\ SubmittedIsBlank /\ SettlesWhatIsShown /\ CompletedIsSettled
  BY <1>1
    DEF ConsoleInit, Blank, SourceIsOfPage, SubmittedIsBlank, SettlesWhatIsShown,
        CompletedIsSettled
<1>6. ShowsOneCase /\ CooldownCoversRetryAfter
  BY <1>1 DEF ConsoleInit, Blank, ShowsOneCase, CooldownCoversRetryAfter
<1> QED BY <1>2, <1>3, <1>4, <1>5, <1>6 DEF ConsoleInv

LEMMA ConsoleTypesStep ==
  ASSUME ConsoleInv, ConsoleStep PROVE ConsoleTypes'
<1> USE DEF ConsoleInv, ConsoleTypes, CaseOrNone, NoCase, CallStates, CaseStates, Final, Points
<1>0. Tab \in Readers /\ Blank \in Page /\ <<>> \in Seq(Event) /\ <<>> \in Seq(Nat)
  BY TabOpen DEF Tab, Blank, Page
<1>1. ASSUME NEW c \in Cases, Submit(c) PROVE ConsoleTypes'
  <2>1. page' \in Page
    BY <1>0, <1>1 DEF Submit, Page
  <2> QED BY <1>1, <2>1 DEF Submit, vars
<1>2. ASSUME NEW c \in Cases, Answer(c) PROVE ConsoleTypes'
  <2>1. page' \in Page
    BY <1>2 DEF Answer, Page
  <2>2. log' \in Nat /\ taken' \in Nat
    BY <1>2, MaxEventsNatural DEF Answer
  <2>3. ended' \in BOOLEAN /\ outcome' \in [Cases -> CaseStates]
    BY <1>2 DEF Answer
  <2>4. frames' \in [Readers -> Seq(Nat)] /\ at' \in [Readers -> Points] /\ upto' \in [Readers -> Nat]
    BY <1>2 DEF Answer
  <2> QED BY <1>2, <2>1, <2>2, <2>3, <2>4 DEF Answer
<1>3. ASSUME NEW c \in Cases, Refuse(c) PROVE ConsoleTypes'
  <2>1. page' \in Page
    BY <1>3 DEF Refuse, Page
  <2> QED BY <1>3, <2>1 DEF Refuse, vars
<1>4. ASSUME NEW c \in Cases, TrailArrives(c) \/ StateArrives(c) PROVE ConsoleTypes'
  <2>1. TrailOf(c) \in Nat
    BY MaxEventsNatural DEF TrailOf
  <2>2. settling' \in [Cases -> Settling]
    <3>1. [settling[c] EXCEPT !.trail = TrailOf(c)] \in Settling
      BY <2>1 DEF Settling
    <3>2. [settling[c] EXCEPT !.state = outcome[c]] \in Settling
      BY DEF Settling
    <3> QED BY <1>4, <3>1, <3>2 DEF TrailArrives, StateArrives, Told
  <2> QED BY <1>4, <2>2 DEF TrailArrives, StateArrives, Told, vars
<1>5. ASSUME NEW c \in Cases, Settled(c) PROVE ConsoleTypes'
  <2>1. settling[c].trail \in Nat /\ settling[c].state \in {"unread"} \cup CaseStates
    BY DEF Settling
  <2>2. [n \in 1..settling[c].trail |-> [case |-> c, n |-> n]] \in Seq(Event)
    <3> DEFINE trail == [n \in 1..settling[c].trail |-> [case |-> c, n |-> n]]
    <3>1. \A n \in 1..settling[c].trail : [case |-> c, n |-> n] \in Event
      BY <2>1 DEF Event
    <3>2. trail \in [1..settling[c].trail -> Event]
      BY <3>1
    <3>3. trail \in UNION {[1..n -> Event] : n \in Nat}
      BY <2>1, <3>2
    <3> HIDE DEF trail
    <3>4. trail \in Seq(Event)
      BY <3>3, SeqDef
    <3> QED BY <3>4 DEF trail
  <2>3. page' \in Page
    BY <1>5, <2>1, <2>2 DEF Settled, Page
  <2>4. settling' \in [Cases -> Settling]
    BY <1>5 DEF Settled, Settling
  <2> QED BY <1>5, <2>3, <2>4 DEF Settled, vars
<1>6. ASSUME NEW c \in Cases, SettleFails(c) PROVE ConsoleTypes'
  <2>1. page' \in Page
    BY <1>6 DEF SettleFails, Page
  <2>2. settling' \in [Cases -> Settling]
    BY <1>6 DEF SettleFails, Settling
  <2> QED BY <1>6, <2>1, <2>2 DEF SettleFails, vars
<1>7. CASE CooldownOver
  BY <1>7 DEF CooldownOver, vars
<1>8. CASE Reset
  <2>1. at' \in [Readers -> Points]
    BY <1>8 DEF Reset, CloseSource
  <2> QED BY <1>0, <1>8, <2>1 DEF Reset
<1>9. CASE Open
  <2>1. at' \in [Readers -> Points]
    BY <1>9 DEF Open, Connect, AfterReplay
  <2>2. frames' \in [Readers -> Seq(Nat)] /\ upto' \in [Readers -> Nat]
    BY <1>0, <1>9 DEF Open, Connect
  <2> QED BY <1>9, <2>1, <2>2 DEF Open, Connect, consoleVars
<1>10. CASE Message /\ ~late
  <2>1. frames[Tab] \in Seq(Nat) /\ read' \in Nat /\ read' \in 1..Len(frames[Tab])
    BY <1>0, <1>10 DEF Message
  <2>2. frames[Tab][read'] \in Nat /\ followed \in Cases
    BY <1>10, <2>1 DEF Message, SourceIsOfPage
  <2>3. Append(page.events, [case |-> followed, n |-> frames[Tab][read']]) \in Seq(Event)
    BY <2>2 DEF Page, Event
  <2>4. page' \in Page
    BY <1>10, <2>3 DEF Message, Page
  <2> QED BY <1>10, <2>1, <2>4 DEF Message, vars
<1>11. CASE (StreamEnds \/ StreamBreaks) /\ ~late
  <2>1. page' \in Page
    BY <1>11 DEF StreamEnds, StreamBreaks, Page
  <2>2. settling' \in [Cases -> Settling]
    <3>1. [NotSettling EXCEPT !.at = "asked"] \in Settling
      BY DEF NotSettling, Settling
    <3> QED BY <1>11, <3>1 DEF StreamEnds, StreamBreaks, Settle
  <2>3. at' \in [Readers -> Points]
    BY <1>11 DEF StreamEnds, StreamBreaks, CloseSource, vars
  <2> QED BY <1>11, <2>1, <2>2, <2>3 DEF StreamEnds, StreamBreaks, vars
<1>12. CASE RunEmits
  BY <1>12 DEF RunEmits, Emit, consoleVars
<1>13. CASE GatewayServes
  <2>1. UNCHANGED consoleVars
    BY <1>13 DEF GatewayServes
  <2>2. CASE Replay(Tab)
    <3>1. Append(frames[Tab], Len(frames[Tab]) + 1) \in Seq(Nat)
      BY <1>0
    <3> QED BY <2>1, <2>2, <3>1 DEF Replay, Send, consoleVars
  <2>3. CASE ReplayDone(Tab)
    <3>1. at' \in [Readers -> Points]
      BY <2>3 DEF ReplayDone, AfterReplay
    <3> QED BY <2>1, <2>3, <3>1 DEF ReplayDone, consoleVars
  <2>4. CASE TakeEvent(Tab)
    <3>1. Append(frames[Tab], taken + 1) \in Seq(Nat)
      BY <1>0
    <3>2. frames' \in [Readers -> Seq(Nat)]
      BY <2>4, <3>1 DEF TakeEvent, Send
    <3>3. taken' \in Nat
      BY <2>4 DEF TakeEvent
    <3> QED BY <2>1, <2>4, <3>2, <3>3 DEF TakeEvent, consoleVars
  <2>5. CASE TakeEnd(Tab)
    <3>1. at' \in [Readers -> Points]
      BY <2>5 DEF TakeEnd
    <3>2. taken' \in Nat
      BY <2>5 DEF TakeEnd
    <3> QED BY <2>1, <2>5, <3>1, <3>2 DEF TakeEnd, consoleVars
  <2> QED BY <1>13, <2>2, <2>3, <2>4, <2>5 DEF GatewayServes, Serve
<1>14. ASSUME NEW status \in Final, RunEnds(status) PROVE ConsoleTypes'
  <2>1. outcome' \in [Cases -> CaseStates]
    BY <1>14 DEF RunEnds
  <2> QED BY <1>14, <2>1 DEF RunEnds, Finish
<1>15. ASSUME NEW status \in Final, NEW c \in Cases, EndsOutOfSight(c, status) PROVE ConsoleTypes'
  <2>1. outcome' \in [Cases -> CaseStates]
    BY <1>15 DEF EndsOutOfSight
  <2> QED BY <1>15, <2>1 DEF EndsOutOfSight, vars
<1> QED BY <1>1, <1>2, <1>3, <1>4, <1>5, <1>6, <1>7, <1>8, <1>9, <1>10, <1>11, <1>12, <1>13,
           <1>14, <1>15
          DEF ConsoleStep, ConsoleSteps, PageSteps, GatewaySteps, Reconcile

LEMMA CasesKnownStep ==
  ASSUME ConsoleInv, ConsoleTypes', ConsoleStep
  PROVE  CasesKnown'
<1> USE DEF ConsoleInv, ConsoleTypes, CaseOrNone, NoCase, CaseStates, Final
<1>1. ASSUME NEW c \in Cases, Submit(c), ~late PROVE CasesKnown'
  BY <1>1 DEF CasesKnown, Submit, vars
<1>2. ASSUME NEW c \in Cases, Answer(c), ~late PROVE CasesKnown'
  <2>1. /\ followed' = c /\ call'[c] = "answered" /\ settling' = settling
        /\ \A b \in Cases \ {c} : call'[b] = call[b] /\ outcome'[b] = outcome[b]
    BY <1>2 DEF Answer
  <2>2. outcome'[c] \in {"running", "completed", "failed"} /\ (ended' <=> outcome'[c] \in Final)
    BY <1>2 DEF Answer
  <2>3. settling[c].state = "unread"
    BY <1>2 DEF Answer, CasesKnown, NotSettling
  <2> QED BY <2>1, <2>2, <2>3 DEF CasesKnown
<1>3. ASSUME NEW c \in Cases, Refuse(c), ~late PROVE CasesKnown'
  BY <1>3 DEF CasesKnown, Refuse, vars
<1>4. ASSUME NEW c \in Cases, TrailArrives(c), ~late PROVE CasesKnown'
  BY <1>4 DEF CasesKnown, NotSettling, TrailArrives, Told, vars
<1>5. ASSUME NEW c \in Cases, StateArrives(c), ~late PROVE CasesKnown'
  BY <1>5 DEF CasesKnown, NotSettling, StateArrives, Told, vars
<1>6. ASSUME NEW c \in Cases, Settled(c), ~late PROVE CasesKnown'
  BY <1>6 DEF CasesKnown, NotSettling, Settled, vars
<1>7. ASSUME NEW c \in Cases, SettleFails(c), ~late PROVE CasesKnown'
  BY <1>7 DEF CasesKnown, NotSettling, SettleFails, vars
<1>8. CASE ~late /\ CooldownOver
  BY <1>8 DEF CasesKnown, CooldownOver, vars
<1>9. CASE ~late /\ Reset
  BY <1>9 DEF CasesKnown, Reset
<1>10. CASE ~late /\ Open
  BY <1>10 DEF CasesKnown, Open, Connect, consoleVars
<1>11. CASE ~late /\ Message
  BY <1>11 DEF CasesKnown, Message, vars
<1>12. CASE ~late /\ StreamEnds
  BY <1>12 DEF CasesKnown, SourceIsOfPage, NotSettling, StreamEnds, Settle, vars
<1>13. CASE ~late /\ StreamBreaks
  BY <1>13 DEF CasesKnown, SourceIsOfPage, NotSettling, StreamBreaks, Settle
<1>14. CASE RunEmits
  BY <1>14 DEF CasesKnown, RunEmits, Emit, consoleVars
<1>15. CASE GatewayServes
  BY <1>15
    DEF CasesKnown, GatewayServes, Serve, Replay, ReplayDone, TakeEvent, TakeEnd, consoleVars
<1>16. ASSUME NEW status \in Final, RunEnds(status) PROVE CasesKnown'
  BY <1>16 DEF CasesKnown, RunEnds, Finish
<1>17. ASSUME NEW status \in Final, NEW c \in Cases, EndsOutOfSight(c, status) PROVE CasesKnown'
  BY <1>17 DEF CasesKnown, EndsOutOfSight, vars
<1> QED BY <1>1, <1>2, <1>3, <1>4, <1>5, <1>6, <1>7, <1>8, <1>9, <1>10, <1>11, <1>12, <1>13,
           <1>14, <1>15, <1>16, <1>17
          DEF ConsoleStep, ConsoleSteps, PageSteps, GatewaySteps, Reconcile

LEMMA ChainGrows ==
  ASSUME NEW f \in Seq(Nat), Chained(f), NEW n \in Nat,
         n = 1 \/ \E h \in 1..Len(f) : n = f[h] + 1
  PROVE  Chained(Append(f, n))
<1>1. /\ Len(Append(f, n)) = Len(f) + 1 /\ Append(f, n)[Len(f) + 1] = n
      /\ \A i \in 1..Len(f) : Append(f, n)[i] = f[i]
  OBVIOUS
<1>2. ASSUME NEW i \in 1..Len(f) + 1
      PROVE  Append(f, n)[i] = 1 \/ \E h \in 1..(i - 1) : Append(f, n)[i] = Append(f, n)[h] + 1
  <2>1. CASE i = Len(f) + 1
    BY <1>1, <2>1
  <2>2. CASE i # Len(f) + 1
    <3>1. i \in 1..Len(f) /\ \A h \in 1..(i - 1) : h \in 1..Len(f)
      BY <2>2
    <3> QED BY <1>1, <3>1 DEF Chained
  <2> QED BY <2>1, <2>2
<1> QED BY <1>1, <1>2 DEF Chained

LEMMA StreamInOrderStep ==
  ASSUME ConsoleInv, ConsoleTypes', ConsoleStep
  PROVE  StreamInOrder'
<1> USE DEF ConsoleInv, ConsoleTypes, Points
<1>0. Tab \in Readers /\ frames[Tab] \in Seq(Nat) /\ Len(frames[Tab]) \in Nat
  BY TabOpen DEF Tab
<1>1. ASSUME UNCHANGED <<ended, taken, upto, frames, read>>,
             log' \in {log, log + 1},
             \/ at' = at /\ page'.source = page.source
             \/ at'[Tab] \in {at[Tab], "off"} /\ ~page'.source
      PROVE  StreamInOrder'
  BY <1>0, <1>1 DEF StreamInOrder
<1>2. ASSUME NEW c \in Cases, Submit(c) \/ Refuse(c) \/ Reconcile(c) PROVE StreamInOrder'
  <2>1. UNCHANGED <<vars, read>> /\ page'.source = page.source
    BY <1>2
      DEF Submit, Refuse, Reconcile, TrailArrives, StateArrives, Told, Settled, SettleFails, Page
  <2> QED BY <1>1, <2>1 DEF vars
<1>3. ASSUME NEW c \in Cases, Answer(c) PROVE StreamInOrder'
  <2>1. /\ frames'[Tab] = <<>> /\ at'[Tab] = "off" /\ read' = 0
        /\ taken' \in {0, IF ended' THEN log' + 1 ELSE log'} /\ Len(<<>>) = 0
    BY <1>0, <1>3 DEF Answer
  <2>2. taken' <= log' \/ ended'
    <3>1. CASE ~ended'
      BY <2>1, <3>1
    <3> QED BY <3>1
  <2> QED BY <2>1, <2>2 DEF StreamInOrder, Chained
<1>4. CASE CooldownOver \/ StreamEnds
  <2>1. UNCHANGED <<vars, read>> /\ (page'.source = page.source \/ ~page'.source)
    BY <1>4 DEF CooldownOver, StreamEnds
  <2> QED BY <1>1, <2>1 DEF vars
<1>5. CASE Reset \/ StreamBreaks
  <2>1. at'[Tab] \in {at[Tab], "off"} /\ ~page'.source
    BY <1>0, <1>5 DEF Reset, StreamBreaks, CloseSource, Blank, Page
  <2>2. UNCHANGED <<log, ended, taken, upto, frames, read>>
    BY <1>5 DEF Reset, StreamBreaks
  <2> QED BY <1>1, <2>1, <2>2
<1>6. CASE Open
  <2>1. /\ frames'[Tab] = <<>> /\ upto'[Tab] = log /\ Len(<<>>) = 0 /\ read = 0
        /\ at'[Tab] = IF log > 0 THEN "replay" ELSE IF ended THEN "closed" ELSE "follow"
        /\ UNCHANGED <<log, ended, taken, read, page>>
    BY <1>0, <1>6 DEF Open, Connect, AfterReplay, consoleVars, StreamInOrder
  <2> QED BY <2>1 DEF StreamInOrder, Chained
<1>7. CASE Message
  <2>1. UNCHANGED vars /\ page'.source = page.source /\ read' = read + 1 /\ read < Len(frames[Tab])
    BY <1>7 DEF Message, Page
  <2>2. at[Tab] # "off"
    BY <1>0, <1>7, <2>1 DEF Message, StreamInOrder
  <2> QED BY <1>0, <2>1, <2>2 DEF StreamInOrder, vars
<1>8. CASE RunEmits \/ \E status \in Final, c \in Cases : EndsOutOfSight(c, status)
  <2>1. UNCHANGED <<ended, taken, at, upto, frames, read, page>> /\ log' \in {log, log + 1}
    BY <1>8 DEF RunEmits, Emit, EndsOutOfSight, vars, consoleVars
  <2> QED BY <1>1, <2>1
<1>9. CASE \E status \in Final : RunEnds(status)
  <2>1. UNCHANGED <<log, taken, at, upto, frames, read, page>> /\ ended'
    BY <1>9 DEF RunEnds, Finish
  <2> QED BY <1>0, <2>1 DEF StreamInOrder
<1>10. CASE GatewayServes
  <2>0. UNCHANGED <<log, ended, upto, read, page>>
    BY <1>10 DEF GatewayServes, Serve, Replay, ReplayDone, TakeEvent, TakeEnd, consoleVars
  <2>1. CASE Replay(Tab)
    <3>1. /\ frames'[Tab] = Append(frames[Tab], Len(frames[Tab]) + 1) /\ at' = at /\ taken' = taken
          /\ at[Tab] = "replay" /\ Len(frames[Tab]) < upto[Tab]
      BY <1>0, <2>1 DEF Replay, Send
    <3>2. Chained(frames'[Tab])
      <4>1. \A i \in 1..Len(frames[Tab]) : frames[Tab][i] = i
        BY <3>1 DEF StreamInOrder
      <4>2. Len(frames[Tab]) + 1 = 1
              \/ \E h \in 1..Len(frames[Tab]) : Len(frames[Tab]) + 1 = frames[Tab][h] + 1
        <5>1. CASE Len(frames[Tab]) # 0
          <6>1. Len(frames[Tab]) \in 1..Len(frames[Tab])
            BY <1>0, <5>1
          <6> QED BY <4>1, <6>1
        <5> QED BY <5>1
      <4> QED BY <1>0, <3>1, <4>2, ChainGrows DEF StreamInOrder
    <3>3. /\ Len(frames'[Tab]) = Len(frames[Tab]) + 1
          /\ \A i \in 1..Len(frames[Tab]) + 1 : frames'[Tab][i] = i
      BY <1>0, <3>1 DEF StreamInOrder
    <3>4. read' <= Len(frames'[Tab]) /\ Len(frames'[Tab]) <= upto'[Tab]
      BY <1>0, <2>0, <3>1, <3>3 DEF StreamInOrder
    <3> QED BY <1>0, <2>0, <3>1, <3>2, <3>3, <3>4 DEF StreamInOrder
  <2>2. CASE ReplayDone(Tab)
    <3>1. /\ UNCHANGED <<taken, frames>> /\ at'[Tab] = AfterReplay
          /\ at[Tab] = "replay" /\ Len(frames[Tab]) = upto[Tab]
      BY <1>0, <2>2 DEF ReplayDone
    <3>2. ~ended => taken = 0 \/ (taken \in 1..Len(frames[Tab]) /\ frames[Tab][taken] = taken)
      BY <1>0, <3>1 DEF StreamInOrder
    <3> QED BY <1>0, <2>0, <3>1, <3>2 DEF StreamInOrder, AfterReplay
  <2>3. CASE TakeEvent(Tab)
    <3>1. /\ frames'[Tab] = Append(frames[Tab], taken + 1) /\ at' = at /\ taken' = taken + 1
          /\ at[Tab] = "follow" /\ taken < log
      BY <1>0, <2>3 DEF TakeEvent, Send
    <3>2. Chained(frames'[Tab])
      <4>1. taken + 1 = 1 \/ \E h \in 1..Len(frames[Tab]) : taken + 1 = frames[Tab][h] + 1
        <5>1. taken = 0 \/ \E h \in 1..Len(frames[Tab]) : frames[Tab][h] = taken
          BY <3>1 DEF StreamInOrder
        <5>2. CASE taken = 0
          BY <5>2
        <5>3. ASSUME NEW h \in 1..Len(frames[Tab]), frames[Tab][h] = taken
              PROVE  \E i \in 1..Len(frames[Tab]) : taken + 1 = frames[Tab][i] + 1
          BY <5>3
        <5> QED BY <5>1, <5>2, <5>3
      <4>2. Chained(frames[Tab])
        BY DEF StreamInOrder
      <4>3. taken + 1 \in Nat
        OBVIOUS
      <4> QED BY <1>0, <3>1, <4>1, <4>2, <4>3, ChainGrows
    <3>3. /\ Len(frames'[Tab]) = Len(frames[Tab]) + 1
          /\ frames'[Tab][Len(frames[Tab]) + 1] = taken'
      BY <1>0, <3>1
    <3>4. \E h \in 1..Len(frames'[Tab]) : frames'[Tab][h] = taken'
      <4>1. Len(frames[Tab]) + 1 \in 1..Len(frames'[Tab])
        BY <1>0, <3>3
      <4> QED BY <3>3, <4>1
    <3>5. read' <= Len(frames'[Tab]) /\ taken' <= log'
      BY <1>0, <2>0, <3>1, <3>3 DEF StreamInOrder
    <3> QED BY <2>0, <3>1, <3>2, <3>4, <3>5 DEF StreamInOrder
  <2>4. CASE TakeEnd(Tab)
    <3>1. UNCHANGED frames /\ at'[Tab] = "closed" /\ ended
      BY <1>0, <2>4 DEF TakeEnd
    <3> QED BY <2>0, <3>1 DEF StreamInOrder
  <2> QED BY <1>10, <2>1, <2>2, <2>3, <2>4 DEF GatewayServes, Serve
<1> QED BY <1>2, <1>3, <1>4, <1>5, <1>6, <1>7, <1>8, <1>9, <1>10
          DEF ConsoleStep, ConsoleSteps, PageSteps, GatewaySteps

\* The answer to the case that is awaited comes to a blank page.
LEMMA AnswerInTime ==
  ASSUME ConsoleInv, NEW c \in Cases, Answer(c), ~late, ~late'
  PROVE  /\ page'.case = c /\ page'.status = "queued" /\ page'.events = <<>>
         /\ page'.report = NoCase /\ page'.source = TRUE /\ c # NoCase
         /\ awaited' = c /\ followed' = c /\ read' = 0 /\ ~limited'
         /\ call'[c] = "answered" /\ settling'[c] = NotSettling
         /\ page.report = NoCase
<1>0. c # NoCase
  BY MaxCasesNatural DEF Cases, NoCase
<1>1. c = awaited /\ call[c] = "posting"
  BY DEF Answer
<1>2. page.events = <<>> /\ page.report = NoCase /\ page.status = "queued" /\ ~limited
  BY <1>0, <1>1 DEF ConsoleInv, SubmittedIsBlank
<1>3. page' = [page EXCEPT !.case = c, !.source = TRUE] /\ page \in Page
  BY DEF Answer, ConsoleInv, ConsoleTypes
<1>4. /\ page'.case = c /\ page'.status = "queued" /\ page'.events = <<>>
      /\ page'.report = NoCase /\ page'.source = TRUE
  BY <1>2, <1>3
<1>5. settling[c] = NotSettling
  BY <1>1 DEF ConsoleInv, CasesKnown
<1> QED BY <1>0, <1>1, <1>2, <1>4, <1>5 DEF Answer, ConsoleInv, ConsoleTypes

\* What settle is told of the awaited case comes to the page of that case.
LEMMA SettledInTime ==
  ASSUME ConsoleInv, NEW c \in Cases, Settled(c) \/ SettleFails(c), ~late, ~late'
  PROVE  /\ c = awaited /\ c # NoCase
         /\ settling[c].at = "asked" /\ call[c] = "answered"
         /\ page.source = FALSE /\ page.case = c /\ followed = c
         /\ page'.source = FALSE /\ page'.case = c
         /\ ~broken => ended /\ settling[c].trail \in {0, log}
         /\ settling'[c].at = "done" /\ settling'[c].trail = settling[c].trail
         /\ UNCHANGED <<call, awaited, followed, broken, ended, log>>
<1>0. c # NoCase
  BY MaxCasesNatural DEF Cases, NoCase
<1>1. c = awaited /\ settling[c].at = "asked"
  BY DEF Settled, SettleFails
<1>2. call[c] = "answered"
  BY <1>1 DEF ConsoleInv, CasesKnown, NotSettling
<1>3. /\ ~page.source /\ page.case = c /\ followed = c
      /\ ~broken => ended /\ settling[c].trail \in {0, log}
  BY <1>0, <1>1 DEF ConsoleInv, SettlesWhatIsShown
<1>4. page \in Page /\ settling \in [Cases -> Settling]
  BY DEF ConsoleInv, ConsoleTypes
<1>5. page'.source = page.source /\ page'.case = page.case
  BY <1>4 DEF Settled, SettleFails, Page
<1>6. settling'[c].at = "done" /\ settling'[c].trail = settling[c].trail
  BY <1>4 DEF Settled, SettleFails, Settling
<1>7. page.source = FALSE
  BY <1>3, <1>4
<1>8. UNCHANGED <<call, awaited, followed, broken, ended, log>>
  BY DEF Settled, SettleFails, vars
<1> QED BY <1>0, <1>1, <1>2, <1>3, <1>5, <1>6, <1>7, <1>8

\* A frame that reaches the page is one it has, or the next one.
LEMMA MessageInTime ==
  ASSUME ConsoleInv, Message, ~late,
         \A i \in 1..Len(page.events) : page.events[i] = [case |-> page.case, n |-> i]
  PROVE  LET n == frames[Tab][read + 1]
         IN  /\ n \in Nat /\ n <= Len(page'.events) /\ Len(page.events) <= Len(page'.events)
             /\ \/ page'.events = page.events
                \/ n = Len(page.events) + 1 /\ page'.events = Append(page.events, [case |-> page.case, n |-> n])
<1> DEFINE n == frames[Tab][read + 1]
<1>0. /\ Tab \in Readers /\ frames[Tab] \in Seq(Nat) /\ Len(frames[Tab]) \in Nat
      /\ page \in Page /\ page.events \in Seq(Event) /\ Len(page.events) \in Nat /\ read \in Nat
  BY TabOpen DEF Tab, ConsoleInv, ConsoleTypes, Page
<1>1. read + 1 \in 1..Len(frames[Tab]) /\ n \in Nat
  BY <1>0 DEF Message
<1>2. \A i \in 1..read : frames[Tab][i] <= Len(page.events) /\ frames[Tab][i] \in Nat
  BY <1>0, <1>1 DEF Message, ConsoleInv, SourceIsOfPage
<1>3. page.case = followed
  BY DEF Message, ConsoleInv, SourceIsOfPage
<1>4. n = 1 \/ \E h \in 1..read : n = frames[Tab][h] + 1
  BY <1>0, <1>1 DEF ConsoleInv, StreamInOrder, Chained
<1>5. n >= 1 /\ n <= Len(page.events) + 1
  BY <1>0, <1>2, <1>4
<1>6. (\E i \in DOMAIN page.events : page.events[i].n = n) <=> n <= Len(page.events)
  <2>1. DOMAIN page.events = 1..Len(page.events)
    BY <1>0
  <2>2. \A i \in 1..Len(page.events) : page.events[i].n = i
    <3>1. ASSUME NEW i \in 1..Len(page.events) PROVE page.events[i].n = i
      <4>1. page.events[i] = [case |-> page.case, n |-> i]
        OBVIOUS
      <4> QED BY <4>1
    <3> QED BY <3>1
  <2>3. ASSUME NEW i \in 1..Len(page.events), page.events[i].n = n PROVE n <= Len(page.events)
    BY <1>0, <2>2, <2>3
  <2>4. n <= Len(page.events) => n \in 1..Len(page.events)
    BY <1>0, <1>1, <1>5
  <2>5. n <= Len(page.events) => \E i \in 1..Len(page.events) : page.events[i].n = n
    BY <2>2, <2>4
  <2> QED BY <2>1, <2>3, <2>5
<1>7. page'.events = IF \E i \in DOMAIN page.events : page.events[i].n = n THEN page.events
                     ELSE Append(page.events, [case |-> followed, n |-> n])
  BY <1>0 DEF Message
<1>8. CASE n <= Len(page.events)
  BY <1>1, <1>6, <1>7, <1>8
<1>9. CASE ~(n <= Len(page.events))
  <2>1. n = Len(page.events) + 1 /\ page'.events = Append(page.events, [case |-> page.case, n |-> n])
    BY <1>0, <1>1, <1>3, <1>5, <1>6, <1>7, <1>9
  <2>2. Len(page'.events) = Len(page.events) + 1
    BY <1>0, <2>1
  <2> QED BY <1>0, <1>1, <2>1, <2>2
<1> QED BY <1>8, <1>9

LEMMA SourceIsOfPageStep ==
  ASSUME ConsoleInv, ConsoleTypes', ~late, ~late', ConsoleStep
  PROVE  SourceIsOfPage'
<1> USE DEF ConsoleInv, ConsoleTypes, CaseOrNone, NoCase, Busy, Final
<1>0. Tab \in Readers
  BY TabOpen DEF Tab
<1>1. ASSUME NEW c \in Cases, Submit(c) PROVE SourceIsOfPage'
  BY <1>0, <1>1 DEF SourceIsOfPage, Submit
<1>2. ASSUME NEW c \in Cases, Answer(c) PROVE SourceIsOfPage'
  BY <1>2, AnswerInTime DEF SourceIsOfPage
<1>3. ASSUME NEW c \in Cases, Refuse(c) PROVE SourceIsOfPage'
  BY <1>0, <1>3 DEF SourceIsOfPage, SubmittedIsBlank, Refuse, Page
<1>4. ASSUME NEW c \in Cases, TrailArrives(c) PROVE SourceIsOfPage'
  BY <1>0, <1>4 DEF SourceIsOfPage, TrailArrives, Told, vars
<1>5. ASSUME NEW c \in Cases, StateArrives(c) PROVE SourceIsOfPage'
  BY <1>0, <1>5 DEF SourceIsOfPage, StateArrives, Told, vars
<1>6. ASSUME NEW c \in Cases, Settled(c) PROVE SourceIsOfPage'
  BY <1>0, <1>6 DEF SourceIsOfPage, SettlesWhatIsShown, Settled, Page
<1>7. ASSUME NEW c \in Cases, SettleFails(c) PROVE SourceIsOfPage'
  BY <1>0, <1>7 DEF SourceIsOfPage, SettlesWhatIsShown, SettleFails, Page
<1>8. CASE CooldownOver
  BY <1>0, <1>8 DEF SourceIsOfPage, CooldownOver, vars
<1>9. CASE Reset
  BY <1>0, <1>9 DEF SourceIsOfPage, Reset, Blank
<1>10. CASE Open
  BY <1>0, <1>10 DEF SourceIsOfPage, StreamInOrder, Open, consoleVars
<1>11. CASE Message
  <2>1. \A i \in 1..Len(page.events) : page.events[i] = [case |-> page.case, n |-> i]
    BY DEF ShowsOneCase
  <2>2. /\ UNCHANGED <<followed, awaited, frames>> /\ read' = read + 1
        /\ page'.case = page.case /\ page.source
    BY <1>11 DEF Message, vars
  <2>3. page'.status = "running"
    BY <1>11 DEF Message, Page, SourceIsOfPage
  <2>4. frames[Tab][read + 1] <= Len(page'.events)
    BY <1>11, <2>1, MessageInTime
  <2>5. \A i \in 1..read : frames[Tab][i] <= Len(page'.events)
    <3>1. Len(page'.events) >= Len(page.events) /\ Len(page'.events) \in Nat /\ Len(page.events) \in Nat
      BY <1>11, <2>1, MessageInTime DEF Page
    <3>2. \A i \in 1..read : frames[Tab][i] <= Len(page.events) /\ frames[Tab][i] \in Nat
      BY <1>0, <1>11, <2>2 DEF SourceIsOfPage, StreamInOrder
    <3> QED BY <3>1, <3>2
  <2> QED BY <2>2, <2>3, <2>4, <2>5 DEF SourceIsOfPage
<1>12. CASE StreamEnds
  BY <1>0, <1>12 DEF SourceIsOfPage, StreamEnds
<1>13. CASE StreamBreaks
  BY <1>0, <1>13 DEF SourceIsOfPage, StreamBreaks
<1>14. CASE RunEmits
  BY <1>0, <1>14 DEF SourceIsOfPage, RunEmits, Emit, consoleVars
<1>15. CASE GatewayServes
  <2>1. UNCHANGED <<page, followed, awaited, read>>
    BY <1>15 DEF GatewayServes, consoleVars
  <2>2. \A i \in 1..read : frames'[Tab][i] = frames[Tab][i]
    <3>1. \A n \in Nat : Send(Tab, n) => \A i \in 1..read : frames'[Tab][i] = frames[Tab][i]
      BY <1>0 DEF Send, StreamInOrder
    <3>2. Len(frames[Tab]) + 1 \in Nat /\ taken + 1 \in Nat
      BY <1>0
    <3> QED BY <1>15, <3>1, <3>2 DEF GatewayServes, Serve, Replay, ReplayDone, TakeEvent, TakeEnd
  <2> QED BY <2>1, <2>2 DEF SourceIsOfPage
<1>16. ASSUME NEW status \in Final, RunEnds(status) PROVE SourceIsOfPage'
  BY <1>0, <1>16 DEF SourceIsOfPage, RunEnds, Finish
<1>17. ASSUME NEW status \in Final, NEW c \in Cases, EndsOutOfSight(c, status) PROVE SourceIsOfPage'
  BY <1>0, <1>17 DEF SourceIsOfPage, EndsOutOfSight, vars
<1> QED BY <1>1, <1>2, <1>3, <1>4, <1>5, <1>6, <1>7, <1>8, <1>9, <1>10, <1>11, <1>12, <1>13,
           <1>14, <1>15, <1>16, <1>17
          DEF ConsoleStep, ConsoleSteps, PageSteps, GatewaySteps, Reconcile

LEMMA SubmittedIsBlankStep ==
  ASSUME ConsoleInv, ConsoleTypes', ~late, ~late', ConsoleStep
  PROVE  SubmittedIsBlank'
<1> USE DEF ConsoleInv, ConsoleTypes, CaseOrNone, NoCase, Busy, Final
<1>1. ASSUME NEW c \in Cases, Submit(c) PROVE SubmittedIsBlank'
  BY <1>1 DEF SubmittedIsBlank, SourceIsOfPage, CooldownCoversRetryAfter, Submit
<1>2. ASSUME NEW c \in Cases, Answer(c) PROVE SubmittedIsBlank'
  BY <1>2
    DEF SubmittedIsBlank, SourceIsOfPage, CasesKnown, CooldownCoversRetryAfter, Answer, vars,
        consoleVars
<1>3. ASSUME NEW c \in Cases, Refuse(c) PROVE SubmittedIsBlank'
  BY <1>3
    DEF SubmittedIsBlank, SourceIsOfPage, CasesKnown, CooldownCoversRetryAfter, Refuse, vars,
        consoleVars
<1>4. ASSUME NEW c \in Cases, TrailArrives(c) PROVE SubmittedIsBlank'
  BY <1>4 DEF SubmittedIsBlank, TrailArrives, Told
<1>5. ASSUME NEW c \in Cases, StateArrives(c) PROVE SubmittedIsBlank'
  BY <1>5 DEF SubmittedIsBlank, StateArrives, Told
<1>6. ASSUME NEW c \in Cases, Settled(c) PROVE SubmittedIsBlank'
  BY <1>6, SettledInTime DEF SubmittedIsBlank
<1>7. ASSUME NEW c \in Cases, SettleFails(c) PROVE SubmittedIsBlank'
  BY <1>7, SettledInTime DEF SubmittedIsBlank
<1>8. CASE CooldownOver
  BY <1>8 DEF SubmittedIsBlank, CooldownOver
<1>9. CASE Reset
  BY <1>9 DEF SubmittedIsBlank, Reset
<1>10. CASE Open
  BY <1>10 DEF SubmittedIsBlank, Open, consoleVars
<1>11. CASE Message
  BY <1>11 DEF SubmittedIsBlank, Message
<1>12. CASE StreamEnds
  BY <1>12 DEF SubmittedIsBlank, StreamEnds
<1>13. CASE StreamBreaks
  BY <1>13 DEF SubmittedIsBlank, StreamBreaks
<1>14. CASE RunEmits
  BY <1>14 DEF SubmittedIsBlank, RunEmits, consoleVars
<1>15. CASE GatewayServes
  BY <1>15 DEF SubmittedIsBlank, GatewayServes, consoleVars
<1>16. ASSUME NEW status \in Final, RunEnds(status) PROVE SubmittedIsBlank'
  BY <1>16 DEF SubmittedIsBlank, RunEnds
<1>17. ASSUME NEW status \in Final, NEW c \in Cases, EndsOutOfSight(c, status) PROVE SubmittedIsBlank'
  BY <1>17 DEF SubmittedIsBlank, EndsOutOfSight
<1> QED BY <1>1, <1>2, <1>3, <1>4, <1>5, <1>6, <1>7, <1>8, <1>9, <1>10, <1>11, <1>12, <1>13,
           <1>14, <1>15, <1>16, <1>17
          DEF ConsoleStep, ConsoleSteps, PageSteps, GatewaySteps, Reconcile

LEMMA SettlesWhatIsShownStep ==
  ASSUME ConsoleInv, ConsoleTypes', ~late, ~late', ConsoleStep
  PROVE  SettlesWhatIsShown'
<1> USE DEF ConsoleInv, ConsoleTypes, CaseOrNone, NoCase, Busy, Final
<1>1. ASSUME NEW c \in Cases, Submit(c) PROVE SettlesWhatIsShown'
  <2>1. awaited' = c /\ settling' = settling /\ call[c] = "none"
    BY <1>1 DEF Submit
  <2> QED BY <2>1 DEF SettlesWhatIsShown, CasesKnown, NotSettling
<1>2. ASSUME NEW c \in Cases, Answer(c) PROVE SettlesWhatIsShown'
  BY <1>2 DEF SettlesWhatIsShown, CasesKnown, Answer
<1>3. ASSUME NEW c \in Cases, Refuse(c) PROVE SettlesWhatIsShown'
  BY <1>3 DEF SettlesWhatIsShown, CasesKnown, Refuse
<1>4. ASSUME NEW c \in Cases, TrailArrives(c) PROVE SettlesWhatIsShown'
  BY <1>4 DEF SettlesWhatIsShown, TrailArrives, Told, TrailOf, vars
<1>5. ASSUME NEW c \in Cases, StateArrives(c) PROVE SettlesWhatIsShown'
  BY <1>5 DEF SettlesWhatIsShown, StateArrives, Told, vars
<1>6. ASSUME NEW c \in Cases, Settled(c) PROVE SettlesWhatIsShown'
  BY <1>6 DEF SettlesWhatIsShown, Settled
<1>7. ASSUME NEW c \in Cases, SettleFails(c) PROVE SettlesWhatIsShown'
  BY <1>7 DEF SettlesWhatIsShown, SettleFails
<1>8. CASE CooldownOver
  BY <1>8 DEF SettlesWhatIsShown, CooldownOver, vars
<1>9. CASE Reset
  BY <1>9 DEF SettlesWhatIsShown, Reset
<1>10. CASE Open
  BY <1>10 DEF SettlesWhatIsShown, Open, consoleVars
<1>11. CASE Message
  BY <1>11 DEF SettlesWhatIsShown, Message
<1>12. CASE StreamEnds
  BY <1>12
    DEF SettlesWhatIsShown, SourceIsOfPage, StreamInOrder, NotSettling, StreamEnds, Settle, vars
<1>13. CASE StreamBreaks
  BY <1>13 DEF SettlesWhatIsShown, SourceIsOfPage, StreamBreaks
<1>14. CASE RunEmits
  BY <1>14 DEF SettlesWhatIsShown, RunEmits, Emit, consoleVars
<1>15. CASE GatewayServes
  BY <1>15
    DEF SettlesWhatIsShown, GatewayServes, Serve, Replay, ReplayDone, TakeEvent, TakeEnd,
        consoleVars
<1>16. ASSUME NEW status \in Final, RunEnds(status) PROVE SettlesWhatIsShown'
  BY <1>16 DEF SettlesWhatIsShown, RunEnds, Finish
<1>17. ASSUME NEW status \in Final, NEW c \in Cases, EndsOutOfSight(c, status) PROVE SettlesWhatIsShown'
  BY <1>17 DEF SettlesWhatIsShown, EndsOutOfSight, vars
<1> QED BY <1>1, <1>2, <1>3, <1>4, <1>5, <1>6, <1>7, <1>8, <1>9, <1>10, <1>11, <1>12, <1>13,
           <1>14, <1>15, <1>16, <1>17
          DEF ConsoleStep, ConsoleSteps, PageSteps, GatewaySteps, Reconcile

LEMMA CompletedIsSettledStep ==
  ASSUME ConsoleInv, ConsoleTypes', ~late, ~late', ConsoleStep
  PROVE  CompletedIsSettled'
<1> USE DEF ConsoleInv, ConsoleTypes, CaseOrNone, NoCase, Busy, Final
<1>1. ASSUME NEW c \in Cases, Submit(c) PROVE CompletedIsSettled'
  BY <1>1 DEF CompletedIsSettled, Submit
<1>2. ASSUME NEW c \in Cases, Answer(c) PROVE CompletedIsSettled'
  BY <1>2, AnswerInTime DEF CompletedIsSettled
<1>3. ASSUME NEW c \in Cases, Refuse(c) PROVE CompletedIsSettled'
  BY <1>3 DEF CompletedIsSettled, Refuse
<1>4. ASSUME NEW c \in Cases, TrailArrives(c) PROVE CompletedIsSettled'
  BY <1>4 DEF CompletedIsSettled, TrailArrives, Told, vars
<1>5. ASSUME NEW c \in Cases, StateArrives(c) PROVE CompletedIsSettled'
  BY <1>5 DEF CompletedIsSettled, StateArrives, Told, vars
<1>6. ASSUME NEW c \in Cases, Settled(c) PROVE CompletedIsSettled'
  <2>1. page'.events = IF settling[c].trail = 0 THEN page.events
                       ELSE [n \in 1..settling[c].trail |-> [case |-> c, n |-> n]]
    BY <1>6 DEF Settled
  <2>2. page'.status = settling[c].state
    BY <1>6 DEF Settled
  <2>3. page'.report = IF settling[c].state = "completed" THEN c ELSE page.report
    BY <1>6 DEF Settled
  <2>4. settling[c].trail \in Nat
    BY DEF Settling
  <2>5. settling[c].trail # 0 => Len(page'.events) = settling[c].trail
    BY <2>1, <2>4
  <2>6. /\ c # NoCase /\ page'.source = FALSE /\ page'.case = c /\ followed' = c
        /\ settling'[c].at = "done" /\ settling'[c].trail = settling[c].trail
        /\ broken' = broken /\ ended' = ended /\ log' = log
        /\ ~broken => ended /\ settling[c].trail \in {0, log}
    BY <1>6, SettledInTime
  <2>7. page'.status = "completed" => page'.report = c
    BY <2>2, <2>3
  <2>8. ~broken' => ended' /\ (settling'[c].trail # 0 => Len(page'.events) = log')
    BY <2>5, <2>6
  <2> QED BY <2>6, <2>7, <2>8 DEF CompletedIsSettled
<1>7. ASSUME NEW c \in Cases, SettleFails(c) PROVE CompletedIsSettled'
  BY <1>7 DEF CompletedIsSettled, SettleFails
<1>8. CASE CooldownOver
  BY <1>8 DEF CompletedIsSettled, CooldownOver, vars
<1>9. CASE Reset
  BY <1>9 DEF CompletedIsSettled, Reset, Blank
<1>10. CASE Open
  BY <1>10 DEF CompletedIsSettled, Open, consoleVars
<1>11. CASE Message
  BY <1>11 DEF CompletedIsSettled, Message
<1>12. CASE StreamEnds
  BY <1>12 DEF CompletedIsSettled, StreamEnds
<1>13. CASE StreamBreaks
  BY <1>13 DEF CompletedIsSettled, StreamBreaks
<1>14. CASE RunEmits
  BY <1>14 DEF CompletedIsSettled, RunEmits, Emit, consoleVars
<1>15. CASE GatewayServes
  BY <1>15
    DEF CompletedIsSettled, GatewayServes, Serve, Replay, ReplayDone, TakeEvent, TakeEnd,
        consoleVars
<1>16. ASSUME NEW status \in Final, RunEnds(status) PROVE CompletedIsSettled'
  BY <1>16 DEF CompletedIsSettled, RunEnds, Finish
<1>17. ASSUME NEW status \in Final, NEW c \in Cases, EndsOutOfSight(c, status) PROVE CompletedIsSettled'
  BY <1>17 DEF CompletedIsSettled, EndsOutOfSight, vars
<1> QED BY <1>1, <1>2, <1>3, <1>4, <1>5, <1>6, <1>7, <1>8, <1>9, <1>10, <1>11, <1>12, <1>13,
           <1>14, <1>15, <1>16, <1>17
          DEF ConsoleStep, ConsoleSteps, PageSteps, GatewaySteps, Reconcile

LEMMA ShowsOneCaseStep ==
  ASSUME ConsoleInv, ConsoleTypes', ~late, ~late', ConsoleStep
  PROVE  ShowsOneCase'
<1> USE DEF ConsoleInv, ConsoleTypes, CaseOrNone, NoCase, Busy, Final
<1>1. ASSUME NEW c \in Cases, Submit(c) PROVE ShowsOneCase'
  BY <1>1 DEF ShowsOneCase, Submit
<1>2. ASSUME NEW c \in Cases, Answer(c) PROVE ShowsOneCase'
  <2>1. page'.events = <<>> /\ page'.report = NoCase
    BY <1>2, AnswerInTime
  <2>2. DOMAIN page'.events = {}
    BY <2>1
  <2> QED BY <2>1, <2>2 DEF ShowsOneCase
<1>3. ASSUME NEW c \in Cases, Refuse(c) PROVE ShowsOneCase'
  BY <1>3 DEF ShowsOneCase, Refuse
<1>4. ASSUME NEW c \in Cases, TrailArrives(c) PROVE ShowsOneCase'
  BY <1>4 DEF ShowsOneCase, TrailArrives, Told
<1>5. ASSUME NEW c \in Cases, StateArrives(c) PROVE ShowsOneCase'
  BY <1>5 DEF ShowsOneCase, StateArrives, Told
<1>6. ASSUME NEW c \in Cases, Settled(c) PROVE ShowsOneCase'
  <2>1. page'.events = IF settling[c].trail = 0 THEN page.events
                       ELSE [n \in 1..settling[c].trail |-> [case |-> c, n |-> n]]
    BY <1>6 DEF Settled
  <2>2. page'.status = settling[c].state
    BY <1>6 DEF Settled
  <2>3. page'.report = IF settling[c].state = "completed" THEN c ELSE page.report
    BY <1>6 DEF Settled
  <2>4. page.case = c /\ page'.case = c
    BY <1>6, SettledInTime
  <2>5. \A i \in DOMAIN page'.events : page'.events[i] = [case |-> c, n |-> i]
    <3>1. CASE settling[c].trail = 0
      BY <2>1, <2>4, <3>1 DEF ShowsOneCase
    <3>2. CASE settling[c].trail # 0
      BY <2>1, <3>2
    <3> QED BY <3>1, <3>2
  <2>6. outcome' = outcome /\ (settling[c].state = "completed" => outcome[c] = "completed")
    BY <1>6 DEF Settled, CasesKnown
  <2> QED BY <2>2, <2>3, <2>4, <2>5, <2>6 DEF ShowsOneCase
<1>7. ASSUME NEW c \in Cases, SettleFails(c) PROVE ShowsOneCase'
  BY <1>7 DEF ShowsOneCase, SettleFails
<1>8. CASE CooldownOver
  BY <1>8 DEF ShowsOneCase, CooldownOver
<1>9. CASE Reset
  BY <1>9 DEF ShowsOneCase, Reset, Blank
<1>10. CASE Open
  BY <1>10 DEF ShowsOneCase, Open, consoleVars
<1>11. CASE Message
  <2>1. page.events \in Seq(Event) /\ DOMAIN page.events = 1..Len(page.events)
    BY DEF Page
  <2>2. \A i \in 1..Len(page.events) : page.events[i] = [case |-> page.case, n |-> i]
    BY <2>1 DEF ShowsOneCase
  <2>3. page'.case = page.case /\ page'.report = page.report /\ outcome' = outcome
    BY <1>11 DEF Message
  <2>4. \/ page'.events = page.events
        \/ \E n \in Nat : /\ n = Len(page.events) + 1
                          /\ page'.events = Append(page.events, [case |-> page.case, n |-> n])
    BY <1>11, <2>2, MessageInTime
  <2>5. \A i \in DOMAIN page'.events : page'.events[i] = [case |-> page.case, n |-> i]
    <3>1. CASE page'.events = page.events
      BY <2>1, <2>2, <3>1
    <3>2. ASSUME NEW n \in Nat, n = Len(page.events) + 1,
                 page'.events = Append(page.events, [case |-> page.case, n |-> n])
          PROVE  \A i \in DOMAIN page'.events : page'.events[i] = [case |-> page.case, n |-> i]
      <4>1. /\ DOMAIN page'.events = 1..n /\ page'.events[n] = [case |-> page.case, n |-> n]
            /\ \A i \in 1..Len(page.events) : page'.events[i] = page.events[i]
        BY <2>1, <3>2
      <4>2. \A i \in 1..n : i = n \/ i \in 1..Len(page.events)
        BY <3>2
      <4> QED BY <2>2, <4>1, <4>2
    <3> QED BY <2>4, <3>1, <3>2
  <2> QED BY <2>3, <2>5 DEF ShowsOneCase
<1>12. CASE StreamEnds
  BY <1>12 DEF ShowsOneCase, StreamEnds
<1>13. CASE StreamBreaks
  BY <1>13 DEF ShowsOneCase, StreamBreaks
<1>14. CASE RunEmits
  BY <1>14 DEF ShowsOneCase, RunEmits, consoleVars
<1>15. CASE GatewayServes
  BY <1>15 DEF ShowsOneCase, GatewayServes, consoleVars
<1>16. ASSUME NEW status \in Final, RunEnds(status) PROVE ShowsOneCase'
  BY <1>16 DEF ShowsOneCase, CasesKnown, RunEnds, Finish
<1>17. ASSUME NEW status \in Final, NEW c \in Cases, EndsOutOfSight(c, status) PROVE ShowsOneCase'
  BY <1>17 DEF ShowsOneCase, EndsOutOfSight
<1> QED BY <1>1, <1>2, <1>3, <1>4, <1>5, <1>6, <1>7, <1>8, <1>9, <1>10, <1>11, <1>12, <1>13,
           <1>14, <1>15, <1>16, <1>17
          DEF ConsoleStep, ConsoleSteps, PageSteps, GatewaySteps, Reconcile

LEMMA CooldownStep ==
  ASSUME ConsoleInv, ConsoleTypes', ~late, ~late', ConsoleStep
  PROVE  CooldownCoversRetryAfter'
<1> USE DEF ConsoleInv, ConsoleTypes, CaseOrNone, NoCase, Busy, Final
<1>1. ASSUME NEW c \in Cases, Submit(c) PROVE CooldownCoversRetryAfter'
  BY <1>1 DEF CooldownCoversRetryAfter, Submit
<1>2. ASSUME NEW c \in Cases, Answer(c) PROVE CooldownCoversRetryAfter'
  BY <1>2, AnswerInTime DEF CooldownCoversRetryAfter
<1>3. ASSUME NEW c \in Cases, Refuse(c) PROVE CooldownCoversRetryAfter'
  BY <1>3 DEF CooldownCoversRetryAfter, Refuse
<1>4. ASSUME NEW c \in Cases, TrailArrives(c) PROVE CooldownCoversRetryAfter'
  BY <1>4 DEF CooldownCoversRetryAfter, TrailArrives, Told
<1>5. ASSUME NEW c \in Cases, StateArrives(c) PROVE CooldownCoversRetryAfter'
  BY <1>5 DEF CooldownCoversRetryAfter, StateArrives, Told
<1>6. ASSUME NEW c \in Cases, Settled(c) PROVE CooldownCoversRetryAfter'
  BY <1>6 DEF CooldownCoversRetryAfter, Settled
<1>7. ASSUME NEW c \in Cases, SettleFails(c) PROVE CooldownCoversRetryAfter'
  BY <1>7 DEF CooldownCoversRetryAfter, SettleFails
<1>8. CASE CooldownOver
  BY <1>8 DEF CooldownCoversRetryAfter, CooldownOver
<1>9. CASE Reset
  BY <1>9 DEF CooldownCoversRetryAfter, Reset
<1>10. CASE Open
  BY <1>10 DEF CooldownCoversRetryAfter, Open, consoleVars
<1>11. CASE Message
  BY <1>11 DEF CooldownCoversRetryAfter, Message
<1>12. CASE StreamEnds
  BY <1>12 DEF CooldownCoversRetryAfter, StreamEnds
<1>13. CASE StreamBreaks
  BY <1>13 DEF CooldownCoversRetryAfter, StreamBreaks
<1>14. CASE RunEmits
  BY <1>14 DEF CooldownCoversRetryAfter, RunEmits, consoleVars
<1>15. CASE GatewayServes
  BY <1>15 DEF CooldownCoversRetryAfter, GatewayServes, consoleVars
<1>16. ASSUME NEW status \in Final, RunEnds(status) PROVE CooldownCoversRetryAfter'
  BY <1>16 DEF CooldownCoversRetryAfter, RunEnds
<1>17. ASSUME NEW status \in Final, NEW c \in Cases, EndsOutOfSight(c, status) PROVE CooldownCoversRetryAfter'
  BY <1>17 DEF CooldownCoversRetryAfter, EndsOutOfSight
<1> QED BY <1>1, <1>2, <1>3, <1>4, <1>5, <1>6, <1>7, <1>8, <1>9, <1>10, <1>11, <1>12, <1>13,
           <1>14, <1>15, <1>16, <1>17
          DEF ConsoleStep, ConsoleSteps, PageSteps, GatewaySteps, Reconcile

LEMMA LateStaysLate ==
  ASSUME ConsoleTypes, ConsoleStep, ~late' PROVE ~late
<1>1. CASE GatewaySteps
  BY <1>1 DEF GatewaySteps, RunEmits, GatewayServes, RunEnds, EndsOutOfSight, consoleVars
<1> QED BY <1>1 DEF ConsoleStep

LEMMA ConsoleInvStep ==
  ASSUME ConsoleInv, ConsoleStep PROVE ConsoleInv'
<1>1. ConsoleTypes' /\ CasesKnown' /\ StreamInOrder'
  BY ConsoleTypesStep, CasesKnownStep, StreamInOrderStep
<1>2. CASE ~late'
  <2>1. ~late
    BY <1>2, LateStaysLate DEF ConsoleInv
  <2>2. SourceIsOfPage' /\ SubmittedIsBlank' /\ SettlesWhatIsShown' /\ CompletedIsSettled'
    BY <1>1, <1>2, <2>1, SourceIsOfPageStep, SubmittedIsBlankStep, SettlesWhatIsShownStep,
       CompletedIsSettledStep
  <2>3. ShowsOneCase' /\ CooldownCoversRetryAfter'
    BY <1>1, <1>2, <2>1, ShowsOneCaseStep, CooldownStep
  <2> QED BY <1>1, <2>2, <2>3 DEF ConsoleInv
<1>3. CASE late'
  BY <1>1, <1>3 DEF ConsoleInv, ShowsOneCase, CooldownCoversRetryAfter
<1> QED BY <1>2, <1>3

LEMMA ConsoleIdle ==
  ASSUME ConsoleInv, UNCHANGED <<vars, consoleVars>> PROVE ConsoleInv'
<1> USE DEF vars, consoleVars
<1>1. ConsoleTypes' /\ CasesKnown' /\ StreamInOrder'
  BY DEF ConsoleInv, ConsoleTypes, CasesKnown, StreamInOrder
<1>2. UNCHANGED <<SourceIsOfPage, SubmittedIsBlank, SettlesWhatIsShown, CompletedIsSettled, late>>
  BY DEF SourceIsOfPage, SubmittedIsBlank, SettlesWhatIsShown, CompletedIsSettled, Busy
<1>3. ShowsOneCase' /\ CooldownCoversRetryAfter'
  BY DEF ConsoleInv, ShowsOneCase, CooldownCoversRetryAfter
<1> QED BY <1>1, <1>2, <1>3 DEF ConsoleInv

LEMMA PanelInvStep ==
  ASSUME PanelInv, session \in Sessions, ~strayed, PanelUsed \/ PanelAnswered PROVE PanelInv'
<1>1. PanelTypes' /\ DeletesCounted'
  BY PanelTypesStep, DeletesCountedStep DEF PanelInv
<1>2. PanelDatasetExists' /\ UploadsHaveTargets' /\ PanelMatchesStore'
  BY <1>1, PanelDatasetExistsStep, UploadsHaveTargetsStep, PanelMatchesStoreStep
<1> QED BY <1>1, <1>2 DEF PanelInv

LEMMA PanelIdle ==
  ASSUME PanelInv, UNCHANGED panelVars PROVE PanelInv'
BY
  DEF PanelInv, PanelTypes, DeletesCounted, PanelDatasetExists, UploadsHaveTargets,
      UploadHasTarget, BeingDeleted, PanelMatchesStore, AcceptedIsStored, NoUnknownDataset, BriefIsOverSealedData, panelVars

\* Every step is one of the console or the gateway, or one of the panel.
LEMMA OneHalfAtATime ==
  ASSUME PageNext
  PROVE  \/ ConsoleStep /\ UNCHANGED <<panelVars, session>>
         \/ (PanelUsed \/ PanelAnswered) /\ ~strayed /\ UNCHANGED <<vars, consoleVars, session>>
<1> USE DEF InConsole, AtGateway, ConsoleStep
<1>1. ASSUME NEW c \in Cases, SubmitBrief(c) PROVE ConsoleStep /\ UNCHANGED <<panelVars, session>>
  BY <1>1 DEF SubmitBrief, ConsoleSteps
<1>2. ASSUME NEW c \in Cases, InConsole(Answered(c)) \/ InConsole(Reconcile(c))
      PROVE  ConsoleStep /\ UNCHANGED <<panelVars, session>>
  BY <1>2 DEF Answered, ConsoleSteps
<1>3. CASE \/ InConsole(CooldownOver) \/ InConsole(Reset) \/ InConsole(Open) \/ InConsole(Message)
           \/ InConsole(StreamEnds) \/ InConsole(StreamBreaks)
  BY <1>3 DEF PageSteps
<1>4. CASE AtGateway(RunEmits) \/ AtGateway(GatewayServes)
  BY <1>4 DEF GatewaySteps
<1>5. ASSUME NEW status \in Final,
             AtGateway(RunEnds(status)) \/ \E c \in Cases : AtGateway(EndsOutOfSight(c, status))
      PROVE  ConsoleStep /\ UNCHANGED <<panelVars, session>>
  BY <1>5 DEF GatewaySteps
<1>6. CASE InPanel(PanelUsed) \/ InPanel(PanelAnswered)
  BY <1>6 DEF InPanel
<1> QED BY <1>1, <1>2, <1>3, <1>4, <1>5, <1>6 DEF PageNext

LEMMA IInvStep == IInv /\ [PageNext]_pageVars => IInv'
<1>1. ASSUME IInv, PageNext PROVE IInv'
  BY <1>1, OneHalfAtATime, ConsoleInvStep, ConsoleIdle, PanelInvStep, PanelIdle DEF IInv
<1>2. ASSUME IInv, UNCHANGED pageVars PROVE IInv'
  BY <1>2, ConsoleIdle, PanelIdle DEF IInv, pageVars
<1> QED BY <1>1, <1>2

LEMMA IInvHolds == PageSpec => []IInv
<1>1. PageInit => IInv
  BY ConsoleInit_ConsoleInv, PanelInit_PanelInv DEF PageInit, IInv
<1> QED BY <1>1, IInvStep, PTL DEF PageSpec

\* Whatever is answered, cut off, cleared or refused and in which order, the page shows the
\* events and the report of one case until something of a case its reader left arrives.
THEOREM PageShowsOneCase == PageSpec => []ShowsOneCase
<1>1. IInv => ShowsOneCase
  BY DEF IInv, ConsoleInv
<1> QED BY <1>1, IInvHolds, PTL

\* A case the page calls completed is there with its report and all the events of its run.
THEOREM CompletedCasesAreWhole == PageSpec => []CompletedCaseIsWhole
<1>1. IInv => CompletedCaseIsWhole
  BY DEF IInv, ConsoleInv, CompletedIsSettled, CompletedCaseIsWhole
<1> QED BY <1>1, IInvHolds, PTL

\* A page the gateway would refuse is cooling down, whatever its reader clears.
THEOREM RefusedPagesCoolDown == PageSpec => []CooldownCoversRetryAfter
<1>1. IInv => CooldownCoversRetryAfter
  BY DEF IInv, ConsoleInv
<1> QED BY <1>1, IInvHolds, PTL

\* For any number of files dropped at once and any order of their answers, the panel and
\* the gateway's store agree until an answer is for a dataset the panel has given up.
THEOREM PanelAgreesWithStore == PageSpec => []PanelMatchesStore
<1>1. IInv => PanelMatchesStore
  BY DEF IInv, PanelInv
<1> QED BY <1>1, IInvHolds, PTL
=============================================================================
