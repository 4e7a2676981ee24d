--------------------------- MODULE HubJobs_proofs ---------------------------
(***************************************************************************)
(* Proofs about the scheduler of HubJobs, for every set of titles,         *)
(* platforms and roots and every number of clicks.                         *)
(***************************************************************************)
EXTENDS HubJobs, SequenceTheorems, TLAPS

(* What start_job passes on is an item; its fields are those of a tag. *)
LEMMA TitleItemIsItem ==
  ASSUME NEW j \in Jobs, NEW t \in Titles \cup {NoTitle}
  PROVE  /\ TitleItem(j, t) \in Items
         /\ [TitleItem(j, t) EXCEPT !.romm = TRUE] \in Items
  BY DEF TitleItem, Items, Filters, Apps

(* What the scan buttons and Import ROM pass to start_job is an item.      *)
LEMMA ScanItemIsItem ==
  ASSUME NEW j \in ScanJobs, NEW f \in Filters
  PROVE  ScanItem(j, f) \in Items
  BY DEF ScanItem, Items, Filters, Apps, Jobs

(* An item's fields have their types; giving it another apps root leaves   *)
(* it an item.                                                             *)
LEMMA ItemFields ==
  ASSUME NEW it \in Items
  PROVE  /\ it.job \in Jobs /\ it.title \in Titles \cup {NoTitle}
         /\ it.filter \in Filters /\ it.apps \in Apps
         /\ \A r \in Apps : [it EXCEPT !.apps = r] \in Items
  BY DEF Items

(* The dialogs are well formed, and an open one is about a title.          *)
LEMMA ModalFields ==
  /\ NoModal \in Modals
  /\ \A t \in Titles, k \in {"root", "move", "rom"} : Modal(k, t) \in Modals
  /\ \A m \in Modals : m.title \in Titles \cup {NoTitle}
  /\ \A m \in Modals : m.kind # "none" => m.title \in Titles
  BY DEF Modals, NoModal, Modal

(* Moving the worker on, and storing what it has read, keeps its type. *)
LEMMA WorkerFields ==
  ASSUME NEW w \in Workers
  PROVE  /\ w.item \in Items /\ w.scope \in Filters /\ w.apps \in Apps
         /\ \A pc \in Busy \cup {"none"} :
              /\ [w EXCEPT !.pc = pc] \in Workers
              /\ \A r \in Apps : [w EXCEPT !.pc = pc, !.apps = r] \in Workers
              /\ \A f \in Filters : [w EXCEPT !.pc = pc, !.scope = f] \in Workers
  BY DEF Workers

(* What the assumptions say of the constants, in the form the steps use.   *)
LEMMA Constants ==
  /\ PlatformOf \in [Titles -> Platforms]
  /\ \A t \in Titles : PlatformOf[t] \in Filters
  /\ AllPlatforms \in Filters
  /\ NoRoot \in Apps /\ DefaultRoot \in Apps /\ \A r \in Roots : r \in Apps
  /\ MaxRequests \in Nat
  /\ TitleJobs \subseteq Jobs /\ ScanJobs \subseteq Jobs /\ ExclusiveJobs \subseteq Jobs
  BY HubAssumption DEF Filters, Apps, Jobs

(* start_job leaves a queue of items, and the item it is about to run. *)
LEMMA StartJobTyped ==
  ASSUME TypeOK, NEW it \in Items, NEW r \in Apps, StartJob(it, r)
  PROVE  /\ ui' \in {ui, "enqueue", "join"}
         /\ starting' \in Items
         /\ jobRunning' \in BOOLEAN
         /\ jobAppsDir' \in Apps
         /\ jobQueue' = jobQueue
  BY ItemFields DEF StartJob, TypeOK

(* enqueue_hub_job leaves a queue of items. *)
LEMMA AddToQueueTyped ==
  ASSUME TypeOK, NEW it \in Items, AddToQueue(it)
  PROVE  /\ jobQueue' \in Seq(Items)
         /\ jobAppsDir' \in Apps
<1> DEFINE item == IF it.job \notin ScanJobs /\ it.apps = NoRoot
                   THEN [it EXCEPT !.apps = jobAppsDir] ELSE it
<1>1. item \in Items
  BY ItemFields DEF TypeOK
<1>2. jobQueue' \in {jobQueue, Append(jobQueue, item)}
  BY DEF AddToQueue, Covered
<1>3. jobQueue' \in Seq(Items)
  BY <1>1, <1>2 DEF TypeOK
<1>4. jobAppsDir' \in Apps
  BY Constants DEF AddToQueue, TypeOK
<1> QED
  BY <1>3, <1>4

(* Every reachable state is well typed, whatever the user clicks. *)
LEMMA InitTyped == Init => TypeOK
<1> SUFFICES ASSUME Init PROVE TypeOK
  OBVIOUS
<1>1. SomeItem \in Items
  BY TitleItemIsItem DEF SomeItem, Jobs, ExclusiveJobs
<1>2. NoTag \in JobTags /\ NoFollowUp \in FollowUps
  BY Constants DEF NoTag, NoFollowUp, JobTags, FollowUps
<1>3. worker \in Workers
  BY <1>1, Constants DEF Init, Workers
<1>4. chosen \in [Titles -> Apps] /\ installRoots \in (SUBSET Roots) \ {{}}
  BY Constants, HubAssumption DEF Init
<1>5. jobQueue \in Seq(Items) /\ requests \in 0..MaxRequests
  BY HubAssumption DEF Init
<1> QED
  BY <1>1, <1>2, <1>3, <1>4, <1>5, Constants, ModalFields DEF Init, TypeOK

(* A step of the main loop keeps the types.                                *)
LEMMA UiTyped == TypeOK /\ UiStep => TypeOK'
<1> SUFFICES ASSUME TypeOK, UiStep PROVE TypeOK'
  OBVIOUS
<1> USE DEF TypeOK, sharedVars
<1>1. CASE Poll
  BY <1>1 DEF Poll, KeepRunning
<1>2. CASE EndFrame
  BY <1>2 DEF EndFrame
<1>3. CASE Leave
  BY <1>3 DEF Leave
<1>4. CASE StartNext
  <2>1. Head(jobQueue) \in Items /\ Tail(jobQueue) \in Seq(Items)
    BY <1>4 DEF StartNext, CanStart
  <2> QED
    BY <1>4, <2>1, ItemFields DEF StartNext, CanStart
<1>5. CASE NothingToStart
  BY <1>5 DEF NothingToStart
<1>6. CASE Spawn
  <2>1. job' \in JobTags
    BY <1>6, ItemFields, Constants DEF Spawn, Joined, JobTags
  <2>2. worker' \in Workers
    BY <1>6, Constants DEF Spawn, Joined, Workers, Busy
  <2> QED
    BY <1>6, <2>1, <2>2 DEF Spawn, Joined
<1>7. CASE Enqueue
  BY <1>7, AddToQueueTyped DEF Enqueue
<1>8. CASE ShowMissingRom
  BY <1>8, ModalFields DEF ShowMissingRom
<1>9. ASSUME NEW t \in Titles, QueueOneUpdate(t) PROVE TypeOK'
  <2>1. TitleItem("Update", t) \in Items
    BY TitleItemIsItem DEF Jobs, TitleJobs
  <2> QED
    BY <1>9, <2>1, AddToQueueTyped DEF QueueOneUpdate
<1> QED
  BY <1>1, <1>2, <1>3, <1>4, <1>5, <1>6, <1>7, <1>8, <1>9 DEF UiStep

(* A click keeps the types.                                                *)
LEMMA UserTyped == TypeOK /\ UserStep => TypeOK'
<1> SUFFICES ASSUME TypeOK, UserStep PROVE TypeOK'
  OBVIOUS
<1> USE Constants DEF TypeOK, sharedVars, Click, OnPage
<1>0. /\ \A j \in TitleJobs \cup ExclusiveJobs, t \in Titles :
           TitleItem(j, t) \in Items
      /\ \A t \in Titles : [TitleItem("Install", t) EXCEPT !.romm = TRUE] \in Items
      /\ \A t \in Titles : TitleItem("Install", t) \in Items
      /\ \A t \in Titles : TitleItem("Update", t) \in Items
      /\ \A t \in Titles : TitleItem("MoveInstall", t) \in Items
      /\ \A j \in ScanJobs, f \in Filters : ScanItem(j, f) \in Items
      /\ \A f \in Filters : ScanItem("ScanRoms", f) \in Items
  BY TitleItemIsItem, ScanItemIsItem DEF Jobs, TitleJobs, ScanJobs
<1>1. CASE CloseWindow
  BY <1>1 DEF CloseWindow
<1>2. CASE CancelRoot
  BY <1>2, ModalFields DEF CancelRoot
<1>3. CASE Dismiss
  BY <1>3, ModalFields DEF Dismiss
<1>4. CASE RescanForTitle
  <2>1. modal.title \in Titles
    BY <1>4, ModalFields DEF RescanForTitle
  <2> QED
    BY <1>0, <1>4, <2>1, ModalFields, StartJobTyped DEF RescanForTitle
<1>5. CASE DownloadFromRomm
  <2>1. modal.title \in Titles
    BY <1>5, ModalFields DEF DownloadFromRomm
  <2> QED
    BY <1>0, <1>5, <2>1, ModalFields, StartJobTyped DEF DownloadFromRomm
<1>6. ASSUME NEW f \in Filters, SetScanFilter(f) PROVE TypeOK'
  BY <1>6 DEF SetScanFilter
<1>7. ASSUME NEW j \in ScanJobs, ClickScan(j) PROVE TypeOK'
  BY <1>0, <1>7, StartJobTyped DEF ClickScan
<1>8. ASSUME NEW t \in Titles, ImportRom(t) PROVE TypeOK'
  BY <1>0, <1>8, StartJobTyped DEF ImportRom
<1>9. ASSUME NEW t \in Titles, ClickUpdate(t) PROVE TypeOK'
  BY <1>0, <1>9, StartJobTyped DEF ClickUpdate
<1>10. ASSUME NEW t \in Titles, BeginInstall(t) PROVE TypeOK'
  BY <1>10, ModalFields DEF BeginInstall
<1>11. ASSUME NEW t \in Titles, NEW r \in Apps, InstallOrPrompt(t, r)
       PROVE  /\ ui' \in {ui, "enqueue", "join"}
              /\ starting' \in Items
              /\ jobRunning' \in BOOLEAN
              /\ jobAppsDir' \in Apps
              /\ jobQueue' = jobQueue
              /\ missingRom' \in Titles \cup {NoTitle}
  BY <1>0, <1>11, StartJobTyped DEF InstallOrPrompt
<1>12. ASSUME NEW t \in Titles, BeginInstallOneRoot(t) PROVE TypeOK'
  BY <1>11, <1>12 DEF BeginInstallOneRoot
<1>13. ASSUME NEW t \in Titles, BeginMove(t) PROVE TypeOK'
  BY <1>13, ModalFields DEF BeginMove
<1>14. ASSUME NEW t \in Titles, NEW j \in ExclusiveJobs, ClickExclusive(j, t) PROVE TypeOK'
  BY <1>0, <1>14, StartJobTyped DEF ClickExclusive
<1>15. ASSUME NEW ts \in SUBSET Titles, QueueAllUpdates(ts) PROVE TypeOK'
  BY <1>15 DEF QueueAllUpdates
<1>16. ASSUME NEW r \in Roots, ConfirmInstallRoot(r) PROVE TypeOK'
  <2>1. modal.title \in Titles
    BY <1>16, ModalFields DEF ConfirmInstallRoot
  <2>2. chosen' \in [Titles -> Apps]
    BY <1>16, <2>1 DEF ConfirmInstallRoot
  <2> QED
    BY <1>11, <1>16, <2>1, <2>2, ModalFields DEF ConfirmInstallRoot
<1>17. ASSUME NEW r \in Roots, ConfirmMoveRoot(r) PROVE TypeOK'
  <2>1. modal.title \in Titles
    BY <1>17, ModalFields DEF ConfirmMoveRoot
  <2> QED
    BY <1>0, <1>17, <2>1, ModalFields, StartJobTyped DEF ConfirmMoveRoot
<1> QED
  BY <1>1, <1>2, <1>3, <1>4, <1>5, <1>6, <1>7, <1>8, <1>9, <1>10, <1>12, <1>13,
     <1>14, <1>15, <1>16, <1>17 DEF UserStep

(* What a step makes of the worker is a worker.                            *)
LEMMA WorkerMade ==
  ASSUME worker \in Workers, jobAppsDir \in Apps, scansFilter \in Filters, WorkerStep
  PROVE  worker' \in Workers
<1>1. \A pc \in Busy \cup {"none"} : GoTo(pc) => worker' \in Workers
  BY DEF GoTo, Workers
<1>2. CASE TakeInstallRoot
  BY <1>2, WorkerFields, Constants DEF TakeInstallRoot, Busy
<1>3. CASE TakeMoveRoot
  BY <1>3, WorkerFields DEF TakeMoveRoot, Busy
<1>4. CASE ReadScanScope
  BY <1>4, WorkerFields DEF ReadScanScope, Busy
<1>5. CASE ClearTag
  BY <1>5 DEF ClearTag
<1>6. CASE \/ RomReady \/ RomMissing \/ StartOther \/ BodyDone \/ ScanDone \/ BuildLostRom
           \/ JobThrows \/ ScheduleRestart \/ ClearRunning
  <2>1. \E pc \in Busy \cup {"none"} : GoTo(pc)
    BY <1>6 DEF RomReady, RomMissing, StartOther, BodyDone, ScanDone, BuildLostRom, JobThrows,
                ScheduleRestart, ClearRunning, Busy
  <2> QED
    BY <1>1, <2>1
<1> QED
  BY <1>2, <1>3, <1>4, <1>5, <1>6 DEF WorkerStep

(* A step of the worker thread keeps the types.                            *)
LEMMA WorkerTyped == TypeOK /\ WorkerStep => TypeOK'
<1> SUFFICES ASSUME TypeOK, WorkerStep PROVE TypeOK'
  OBVIOUS
<1>0. worker' \in Workers
  BY WorkerMade DEF TypeOK
<1>1. worker.item.title \in Titles \cup {NoTitle} /\ worker.scope \in Filters
  BY WorkerFields, ItemFields DEF TypeOK
<1> USE <1>0 DEF TypeOK, WorkerVars, Rest, uiVars
<1>2. CASE \/ RomReady \/ StartOther \/ BodyDone \/ JobThrows \/ ReadScanScope
  BY <1>2 DEF RomReady, StartOther, BodyDone, JobThrows, ReadScanScope
<1>3. CASE RomMissing \/ BuildLostRom
  BY <1>1, <1>3 DEF RomMissing, BuildLostRom
<1>4. CASE TakeInstallRoot \/ TakeMoveRoot
  BY <1>4, Constants DEF TakeInstallRoot, TakeMoveRoot
<1>5. CASE ScanDone
  <2>1. FollowUpOf \in FollowUps
    BY <1>1 DEF FollowUps, FollowUpOf
  <2> QED
    BY <1>5, <2>1 DEF ScanDone
<1>6. CASE ScheduleRestart
  BY <1>6 DEF ScheduleRestart
<1>7. CASE ClearRunning
  BY <1>7 DEF ClearRunning
<1>8. CASE ClearTag
  <2>1. job' \in JobTags
    BY <1>8 DEF ClearTag, JobTags
  <2> QED
    BY <1>8, <2>1 DEF ClearTag
<1> QED
  BY <1>2, <1>3, <1>4, <1>5, <1>6, <1>7, <1>8 DEF WorkerStep

(* Every step, and a stutter, keeps the types.                             *)
LEMMA NextTyped == TypeOK /\ [Next]_vars => TypeOK'
<1>1. TypeOK /\ UNCHANGED vars => TypeOK'
  BY DEF vars, uiVars, sharedVars, TypeOK
<1> QED
  BY <1>1, UiTyped, UserTyped, WorkerTyped DEF Next

(* Every reachable state is well typed, whatever the user clicks and       *)
(* however the two threads interleave.                                     *)
THEOREM TypeCorrect == Spec => []TypeOK
  BY InitTyped, NextTyped, PTL DEF Spec
-----------------------------------------------------------------------------
(* The scheduler's inductive invariant.                                    *)

(* What a click asks for has the shape of its job: a title or a platform   *)
(* filter.                                                                 *)
LEMMA ItemShapesOfClicks ==
  /\ \A j \in TitleJobs \cup ExclusiveJobs, t \in Titles \cup {NoTitle} :
       ItemShape(TitleItem(j, t)) /\ TitleItem(j, t).job = j
  /\ \A t \in Titles : ItemShape([TitleItem("Install", t) EXCEPT !.romm = TRUE])
  /\ \A j, f : ScanItem(j, f).job = j /\ ScanItem(j, f).filter = f
  /\ \A j \in ScanJobs, f \in Filters : ItemShape(ScanItem(j, f))
  BY DEF ItemShape, TitleItem, ScanItem

(* The inductive invariant holds when the hub starts.                      *)
LEMMA InitInvariant == Init => IInv
<1> SUFFICES ASSUME Init PROVE IInv
  OBVIOUS
<1>1. TypeOK
  BY InitTyped
<1>2. DOMAIN jobQueue = {}
  BY DEF Init
<1>3. worker.pc = "none" /\ worker.pc \notin Busy
  BY DEF Init, Busy
<1>4. ItemShape(starting)
  BY ItemShapesOfClicks DEF Init, SomeItem, ExclusiveJobs
<1>5. ui = "poll" /\ ~jobRunning /\ ~leaving
  BY DEF Init
<1> QED
  BY <1>1, <1>2, <1>3, <1>4, <1>5
     DEF IInv, QueueDistinct, TagNamesWorker, SlotIsHeld, ItemShapes, JoinFilter, LeavingIsIdle

(* Frames, dialogs and the history touch nothing the invariant reads. *)
LEMMA FrameKeeps ==
  ASSUME IInv, TypeOK',
         UNCHANGED <<jobRunning, job, jobQueue, starting, worker, leaving>>,
         ui' = ui \/ (ui # "join" /\ ui' # "join"),
         ui = "join" => UNCHANGED scansFilter
  PROVE  IInv'
  BY DEF IInv, QueueDistinct, TagNamesWorker, SlotIsHeld, ItemShapes, ItemShape, JoinFilter,
         LeavingIsIdle

(* A thread that goes on with its job disturbs nothing either. *)
LEMMA WorkerGoesOn ==
  ASSUME IInv, TypeOK', worker.pc \in Busy, worker'.pc \in Busy, worker'.item = worker.item,
         UNCHANGED <<ui, jobRunning, job, jobQueue, starting, scansFilter, leaving>>
  PROVE  IInv'
<1>1. worker.pc # "none" /\ worker'.pc # "none"
  BY DEF Busy
<1> QED
  BY <1>1 DEF IInv, QueueDistinct, TagNamesWorker, SlotIsHeld, ItemShapes, ItemShape,
              JoinFilter, LeavingIsIdle

(* start_job claims the slot only when no thread works.  The filter in     *)
(* force is the one its scan was asked for.                                *)
LEMMA StartJobKeeps ==
  ASSUME IInv, TypeOK', ui = "draw", NEW it \in Items, NEW r, StartJob(it, r),
         ItemShape(it), it.job \in ScanJobs => it.filter = scansFilter',
         UNCHANGED <<job, worker, leaving>>
  PROVE  IInv'
<1>1. jobQueue' = jobQueue /\ starting' \in {starting, it, [it EXCEPT !.apps = r]}
  BY DEF StartJob
<1>2. ItemShape(starting)'
  BY <1>1 DEF ItemShape, Items, IInv, ItemShapes
<1>3. ItemShapes' /\ QueueDistinct'
  BY <1>1, <1>2 DEF IInv, ItemShapes, QueueDistinct, ItemShape
<1>4. CASE jobRunning
  BY <1>3, <1>4 DEF StartJob, IInv, TagNamesWorker, SlotIsHeld, JoinFilter, LeavingIsIdle
<1>5. CASE ~jobRunning
  <2>1. worker.pc = "none" /\ worker.pc \notin Busy
    BY <1>5 DEF IInv, SlotIsHeld, TypeOK, Workers, Busy
  <2> QED
    BY <1>3, <1>5, <2>1
       DEF StartJob, IInv, TagNamesWorker, SlotIsHeld, JoinFilter, LeavingIsIdle
<1> QED
  BY <1>4, <1>5 DEF IInv, TypeOK

(* enqueue_hub_job adds a second scan never, and a title job only when no  *)
(* item has its job and its title.                                         *)
LEMMA AddToQueueKeeps ==
  ASSUME TypeOK, QueueDistinct, ItemShapes, NEW it \in Items, ItemShape(it), AddToQueue(it)
  PROVE  /\ QueueDistinct'
         /\ \A i \in DOMAIN jobQueue' : ItemShape(jobQueue'[i])
<1> DEFINE item == IF it.job \notin ScanJobs /\ it.apps = NoRoot
                   THEN [it EXCEPT !.apps = jobAppsDir] ELSE it
<1>1. /\ item \in Items /\ ItemShape(item) /\ Tag(item) = Tag(it) /\ item.job = it.job
      /\ item.title = it.title
  BY ItemFields DEF TypeOK, ItemShape, Tag, Items
<1>2. CASE jobQueue' = jobQueue
  BY <1>2 DEF QueueDistinct, ItemShapes
<1>3. CASE /\ jobQueue' = Append(jobQueue, item)
           /\ it.job \in ScanJobs => ~ScanQueued
           /\ it.job \notin ScanJobs => ~IsQueued(it.job, it.title, it.filter)
  <2>1. /\ jobQueue \in Seq(Items)
        /\ DOMAIN jobQueue = 1..Len(jobQueue) /\ Len(jobQueue) \in Nat
        /\ DOMAIN jobQueue' = 1..(Len(jobQueue) + 1)
        /\ \A i \in DOMAIN jobQueue : jobQueue'[i] = jobQueue[i]
        /\ jobQueue'[Len(jobQueue) + 1] = item
    BY <1>1, <1>3 DEF TypeOK
  <2>2. \A i \in DOMAIN jobQueue :
           /\ Tag(jobQueue[i]) # Tag(item)
           /\ ~(jobQueue[i].job \in ScanJobs /\ item.job \in ScanJobs)
    BY <1>1, <1>3 DEF ScanQueued, IsQueued, Tag
  <2>3. \A i \in DOMAIN jobQueue' : i \in DOMAIN jobQueue \/ i = Len(jobQueue) + 1
    BY <2>1
  <2> QED
    BY <1>1, <2>1, <2>2, <2>3 DEF QueueDistinct, ItemShapes
<1> QED
  BY <1>2, <1>3 DEF AddToQueue, Covered

(* A step of the main loop keeps the inductive invariant.                  *)
LEMMA UiInvariant == IInv /\ TypeOK' /\ UiStep => IInv'
<1> SUFFICES ASSUME IInv, TypeOK', UiStep PROVE IInv'
  OBVIOUS
<1> USE DEF sharedVars
<1>0. TypeOK
  BY DEF IInv
<1>1. CASE Poll
  BY <1>1, FrameKeeps DEF Poll
<1>2. CASE EndFrame
  BY <1>2, FrameKeeps DEF EndFrame
<1>3. CASE Leave
  BY <1>3, FrameKeeps DEF Leave
<1>4. CASE StartNext
  <2>1. /\ jobQueue \in Seq(Items) /\ jobQueue # <<>> /\ Len(jobQueue) \in Nat \ {0}
        /\ starting' = jobQueue[1] /\ 1 \in DOMAIN jobQueue
        /\ DOMAIN jobQueue = 1..Len(jobQueue)
        /\ DOMAIN jobQueue' = 1..(Len(jobQueue) - 1)
        /\ \A i \in DOMAIN jobQueue' : i + 1 \in DOMAIN jobQueue /\ jobQueue'[i] = jobQueue[i + 1]
    BY <1>0, <1>4 DEF StartNext, CanStart, TypeOK
  <2>2. \A i, k \in DOMAIN jobQueue' : i # k => i + 1 # k + 1
    BY <2>1
  <2>3. QueueDistinct'
    BY <2>1, <2>2 DEF IInv, QueueDistinct
  <2>4. ItemShapes'
    BY <2>1 DEF IInv, ItemShapes, ItemShape
  <2>5. JoinFilter'
    BY <1>4 DEF StartNext, CanStart, JoinFilter
  <2>6. worker.pc = "none" /\ worker.pc \notin Busy
    BY <1>0, <1>4 DEF StartNext, CanStart, IInv, SlotIsHeld, TypeOK, Workers, Busy
  <2> QED
    BY <1>4, <2>3, <2>4, <2>5, <2>6
       DEF StartNext, CanStart, IInv, TagNamesWorker, SlotIsHeld, LeavingIsIdle
<1>5. CASE NothingToStart
  BY <1>5, FrameKeeps DEF NothingToStart
<1>6. CASE Spawn
  <2>1. worker'.pc = "start" /\ worker'.item = starting /\ worker'.pc \in Busy /\ ~leaving'
    BY <1>6 DEF Spawn, Joined, Busy
  <2>2. Tag(starting) = job'
    BY <1>6 DEF Spawn, Joined, IInv, Tag, JoinFilter, ItemShapes, ItemShape
  <2>3. jobRunning'
    BY <1>6 DEF Spawn, Joined, IInv, SlotIsHeld
  <2>4. QueueDistinct' /\ ItemShapes' /\ JoinFilter' /\ LeavingIsIdle'
    BY <1>6, <2>1
       DEF Spawn, Joined, IInv, QueueDistinct, ItemShapes, ItemShape, JoinFilter, LeavingIsIdle
  <2> QED
    BY <2>1, <2>2, <2>3, <2>4 DEF IInv, TagNamesWorker, SlotIsHeld, Tag
<1>7. CASE Enqueue
  <2>1. QueueDistinct' /\ \A i \in DOMAIN jobQueue' : ItemShape(jobQueue'[i])
    BY <1>0, <1>7, AddToQueueKeeps DEF Enqueue, IInv, TypeOK, ItemShapes
  <2>2. ItemShapes'
    BY <1>7, <2>1 DEF Enqueue, IInv, ItemShapes, ItemShape
  <2> QED
    BY <1>7, <2>1, <2>2 DEF Enqueue, IInv, TagNamesWorker, SlotIsHeld, JoinFilter, LeavingIsIdle
<1>8. CASE ShowMissingRom
  BY <1>8, FrameKeeps DEF ShowMissingRom
<1>9. ASSUME NEW t \in Titles, QueueOneUpdate(t) PROVE IInv'
  <2>1. TitleItem("Update", t) \in Items /\ ItemShape(TitleItem("Update", t))
    BY TitleItemIsItem, ItemShapesOfClicks DEF Jobs, TitleJobs
  <2>2. QueueDistinct' /\ \A i \in DOMAIN jobQueue' : ItemShape(jobQueue'[i])
    BY <1>0, <1>9, <2>1, AddToQueueKeeps DEF QueueOneUpdate, IInv
  <2>3. ItemShapes'
    BY <1>9, <2>2 DEF QueueOneUpdate, IInv, ItemShapes, ItemShape
  <2> QED
    BY <1>9, <2>2, <2>3
       DEF QueueOneUpdate, IInv, TagNamesWorker, SlotIsHeld, JoinFilter, LeavingIsIdle
<1> QED
  BY <1>1, <1>2, <1>3, <1>4, <1>5, <1>6, <1>7, <1>8, <1>9 DEF UiStep

(* A click keeps the inductive invariant.                                  *)
LEMMA UserInvariant == IInv /\ TypeOK' /\ UserStep => IInv'
<1> SUFFICES ASSUME IInv, TypeOK', UserStep PROVE IInv'
  OBVIOUS
<1> USE Constants DEF sharedVars, Click, OnPage
<1>0. TypeOK
  BY DEF IInv
<1>1. CASE CloseWindow
  BY <1>1, FrameKeeps DEF CloseWindow
<1>2. CASE CancelRoot
  BY <1>2, FrameKeeps DEF CancelRoot
<1>3. CASE Dismiss
  BY <1>3, FrameKeeps DEF Dismiss
<1>4. ASSUME NEW t \in Titles \cup {NoTitle}, NEW j \in TitleJobs \cup ExclusiveJobs
      PROVE  /\ TitleItem(j, t) \in Items /\ ItemShape(TitleItem(j, t))
             /\ TitleItem(j, t).job \notin ScanJobs
  BY TitleItemIsItem, ItemShapesOfClicks DEF TitleJobs, ExclusiveJobs, ScanJobs
<1>5. ASSUME NEW f \in Filters, NEW j \in ScanJobs
      PROVE  /\ ScanItem(j, f) \in Items /\ ItemShape(ScanItem(j, f))
             /\ ScanItem(j, f).filter = f
  BY ScanItemIsItem, ItemShapesOfClicks
<1>6. CASE RescanForTitle
  <2>1. PlatformOf[modal.title] \in Filters /\ "ScanRoms" \in ScanJobs
    BY <1>0, <1>6, ModalFields DEF RescanForTitle, TypeOK, ScanJobs
  <2> QED
    BY <1>5, <1>6, <2>1, StartJobKeeps DEF RescanForTitle
<1>7. CASE DownloadFromRomm
  <2>1. modal.title \in Titles
    BY <1>0, <1>7, ModalFields DEF DownloadFromRomm, TypeOK
  <2> DEFINE it == [TitleItem("Install", modal.title) EXCEPT !.romm = TRUE]
  <2>2. it \in Items /\ ItemShape(it) /\ it.job \notin ScanJobs
    BY <2>1, TitleItemIsItem, ItemShapesOfClicks DEF TitleItem, TitleJobs, Jobs, ScanJobs
  <2> QED
    BY <1>7, <2>2, StartJobKeeps DEF DownloadFromRomm
<1>8. ASSUME NEW f \in Filters, SetScanFilter(f) PROVE IInv'
  BY <1>8, FrameKeeps DEF SetScanFilter
<1>9. ASSUME NEW j \in ScanJobs, ClickScan(j) PROVE IInv'
  <2>1. scansFilter \in Filters
    BY <1>0 DEF TypeOK
  <2> QED
    BY <1>5, <1>9, <2>1, StartJobKeeps DEF ClickScan
<1>10. ASSUME NEW t \in Titles, ImportRom(t) PROVE IInv'
  <2>1. PlatformOf[t] \in Filters /\ "ScanRoms" \in ScanJobs
    BY DEF ScanJobs
  <2> QED
    BY <1>5, <1>10, <2>1, StartJobKeeps DEF ImportRom
<1>11. ASSUME NEW t \in Titles, ClickUpdate(t) PROVE IInv'
  <2>1. "Update" \in TitleJobs
    BY DEF TitleJobs
  <2> QED
    BY <1>4, <1>11, <2>1, StartJobKeeps DEF ClickUpdate
<1>12. ASSUME NEW t \in Titles, BeginInstall(t) PROVE IInv'
  BY <1>12, FrameKeeps DEF BeginInstall
<1>13. ASSUME NEW t \in Titles, NEW r, InstallOrPrompt(t, r), ui = "draw",
              UNCHANGED <<job, scansFilter, worker, leaving>>
       PROVE  IInv'
  <2>1. "Install" \in TitleJobs
    BY DEF TitleJobs
  <2>2. CASE StartJob(TitleItem("Install", t), r)
    BY <1>4, <1>13, <2>1, <2>2, StartJobKeeps
  <2>3. CASE UNCHANGED <<ui, starting, jobRunning, jobQueue>>
    BY <1>13, <2>3, FrameKeeps
  <2> QED
    BY <1>13, <2>2, <2>3 DEF InstallOrPrompt
<1>14. ASSUME NEW t \in Titles, BeginInstallOneRoot(t) PROVE IInv'
  BY <1>13, <1>14 DEF BeginInstallOneRoot
<1>15. ASSUME NEW t \in Titles, BeginMove(t) PROVE IInv'
  BY <1>15, FrameKeeps DEF BeginMove
<1>16. ASSUME NEW t \in Titles, NEW j \in ExclusiveJobs, ClickExclusive(j, t) PROVE IInv'
  BY <1>4, <1>16, StartJobKeeps DEF ClickExclusive
<1>17. ASSUME NEW ts \in SUBSET Titles, QueueAllUpdates(ts) PROVE IInv'
  BY <1>17, FrameKeeps DEF QueueAllUpdates
<1>18. ASSUME NEW r \in Roots, ConfirmInstallRoot(r) PROVE IInv'
  <2>1. modal.title \in Titles
    BY <1>0, <1>18, ModalFields DEF ConfirmInstallRoot, TypeOK
  <2> QED
    BY <1>13, <1>18, <2>1 DEF ConfirmInstallRoot
<1>19. ASSUME NEW r \in Roots, ConfirmMoveRoot(r) PROVE IInv'
  <2>1. modal.title \in Titles /\ "MoveInstall" \in TitleJobs
    BY <1>0, <1>19, ModalFields DEF ConfirmMoveRoot, TypeOK, TitleJobs
  <2> QED
    BY <1>4, <1>19, <2>1, StartJobKeeps DEF ConfirmMoveRoot
<1> QED
  BY <1>0, <1>1, <1>2, <1>3, <1>6, <1>7, <1>8, <1>9, <1>10, <1>11, <1>12, <1>14, <1>15,
     <1>16, <1>17, <1>18, <1>19 DEF UserStep, TypeOK

(* A step of the worker thread keeps the inductive invariant.              *)
LEMMA WorkerInvariant == IInv /\ TypeOK' /\ WorkerStep => IInv'
<1> SUFFICES ASSUME IInv, TypeOK', WorkerStep PROVE IInv'
  OBVIOUS
<1>0. worker \in Workers
  BY DEF IInv, TypeOK
<1>1. ASSUME /\ \/ RomReady \/ RomMissing \/ TakeInstallRoot \/ TakeMoveRoot \/ ReadScanScope
                \/ StartOther \/ BodyDone \/ ScanDone \/ BuildLostRom \/ JobThrows
                \/ ScheduleRestart
      PROVE  IInv'
  <2>1. UNCHANGED <<ui, jobRunning, job, jobQueue, starting, scansFilter, leaving>>
    BY <1>1 DEF RomReady, RomMissing, TakeInstallRoot, TakeMoveRoot, ReadScanScope, StartOther,
       BodyDone, ScanDone, BuildLostRom, JobThrows, ScheduleRestart, WorkerVars, Rest, uiVars
  <2>2. worker.pc \in Busy /\ worker'.pc \in Busy /\ worker'.item = worker.item
    BY <1>0, <1>1 DEF RomReady, RomMissing, TakeInstallRoot, TakeMoveRoot, ReadScanScope,
       StartOther, BodyDone, ScanDone, BuildLostRom, JobThrows, ScheduleRestart, At, GoTo,
       Workers, Busy
  <2> QED
    BY <2>1, <2>2, WorkerGoesOn
<1>2. CASE ClearRunning
  <2>1. worker'.pc = "none" /\ worker'.pc \notin Busy /\ worker.pc # "none" /\ worker.pc \in Busy
    BY <1>0, <1>2 DEF ClearRunning, At, GoTo, Workers, Busy
  <2>2. UNCHANGED <<ui, jobQueue, starting, scansFilter>>
    BY <1>2 DEF ClearRunning, Rest, uiVars
  <2> QED
    BY <1>2, <2>1, <2>2 DEF ClearRunning, IInv, QueueDistinct, TagNamesWorker, SlotIsHeld,
       ItemShapes, ItemShape, JoinFilter, LeavingIsIdle
<1>3. CASE ClearTag
  <2>1. UNCHANGED <<ui, jobQueue, starting, scansFilter, worker, jobRunning>> /\ leaving /\ ~leaving'
    BY <1>3 DEF ClearTag, Rest, uiVars
  <2>2. worker.pc = "none" /\ worker.pc \notin Busy
    BY <2>1 DEF IInv, LeavingIsIdle, Busy
  <2> QED
    BY <2>1, <2>2 DEF IInv, QueueDistinct, TagNamesWorker, SlotIsHeld,
       ItemShapes, ItemShape, JoinFilter, LeavingIsIdle
<1> QED
  BY <1>1, <1>2, <1>3 DEF WorkerStep

(* Every step, and a stutter, keeps the inductive invariant.               *)
LEMMA NextInvariant == IInv /\ [Next]_vars => IInv'
<1>1. IInv => TypeOK
  BY DEF IInv
<1>2. IInv /\ UNCHANGED vars => IInv'
  BY <1>1, NextTyped, FrameKeeps DEF vars, uiVars, sharedVars
<1> QED
  BY <1>1, <1>2, NextTyped, UiInvariant, UserInvariant, WorkerInvariant DEF Next

(* Every reachable state satisfies the inductive invariant: the queue's    *)
(* shape, the slot, the tag and the thread that is leaving fit together,   *)
(* however UI and worker thread interleave.                                *)
THEOREM Invariant == Spec => []IInv
  BY InitInvariant, NextInvariant, PTL DEF Spec

(* No request is queued twice and at most one scan waits. *)
THEOREM QueueCorrect == Spec => []QueueDistinct
<1>1. IInv => QueueDistinct
  BY DEF IInv
<1> QED
  BY Invariant, <1>1, PTL

(* The tag that the UI and the dedupe read names the job being worked on. *)
THEOREM TagCorrect == Spec => []TagNamesWorker
<1>1. IInv => TagNamesWorker
  BY DEF IInv
<1> QED
  BY Invariant, <1>1, PTL

(* job_running is neither leaked nor cleared under a working thread. *)
THEOREM SlotCorrect == Spec => []SlotIsHeld
<1>1. IInv => SlotIsHeld
  BY DEF IInv
<1> QED
  BY Invariant, <1>1, PTL
-----------------------------------------------------------------------------
(* The scheduler implements the service of JobService.                     *)

(* The tag of an item is one of the requests of the service.               *)
LEMMA TagsOfItems ==
  ASSUME NEW it \in Items
  PROVE  /\ Tag(it) \in Tags /\ Tag(it) # NoTag
         /\ Tag(it) \in ScanTags <=> it.job \in ScanJobs
<1>1. it.job # NoJob
  BY ItemFields, NoJobAssumption
<1> QED
  BY <1>1 DEF Tags, ScanTags, Tag, NoTag

(* The service sees nothing of a step that leaves the queue, the slot and  *)
(* the item that holds it alone.                                           *)
LEMMA StepIsHidden ==
  ASSUME UNCHANGED <<jobRunning, jobQueue>>,
         jobRunning => \/ ui = "join" /\ ui' = "join" /\ starting' = starting
                       \/ ui # "join" /\ ui' # "join" /\ worker'.item = worker.item
                       \/ ui = "join" /\ ui' # "join" /\ worker'.item = starting
  PROVE  UNCHANGED Service!svcVars
  BY DEF Service!svcVars, Waiting, Current

(* start_job begins a request when the slot is free. *)
LEMMA StartJobServes ==
  ASSUME ui = "draw", NEW it \in Items, NEW r, StartJob(it, r), UNCHANGED worker
  PROVE  [Service!Next]_(Service!svcVars)
<1>1. CASE jobRunning
  BY <1>1, StepIsHidden DEF StartJob
<1>2. CASE ~jobRunning
  <2>1. Current = NoTag /\ Current' = Tag(it) /\ UNCHANGED Waiting
    BY <1>2 DEF StartJob, Current, Waiting
  <2>2. Service!BeginNow(Tag(it))
    BY <2>1 DEF Service!BeginNow
  <2> QED
    BY <2>2, TagsOfItems DEF Service!Next
<1> QED
  BY <1>1, <1>2

(* enqueue_hub_job accepts a request or drops it. *)
LEMMA AddToQueueServes ==
  ASSUME TypeOK, NEW it \in Items, AddToQueue(it), UNCHANGED <<jobRunning, worker>>,
         ui # "join", ui' # "join"
  PROVE  [Service!Next]_(Service!svcVars)
<1> DEFINE item == IF it.job \notin ScanJobs /\ it.apps = NoRoot
                   THEN [it EXCEPT !.apps = jobAppsDir] ELSE it
<1>1. item \in Items /\ Tag(item) = Tag(it) /\ item.job = it.job
  BY ItemFields DEF TypeOK, Tag, Items
<1>2. CASE jobQueue' = jobQueue
  BY <1>2, StepIsHidden
<1>3. CASE /\ jobQueue' = Append(jobQueue, item)
           /\ it.job \in ScanJobs => ~ScanQueued
           /\ it.job \notin ScanJobs => ~IsQueued(it.job, it.title, it.filter)
  <2>1. /\ DOMAIN jobQueue' = DOMAIN jobQueue \cup {Len(jobQueue) + 1}
        /\ \A i \in DOMAIN jobQueue : jobQueue'[i] = jobQueue[i] /\ jobQueue[i] \in Items
        /\ jobQueue'[Len(jobQueue) + 1] = item
    BY <1>1, <1>3 DEF TypeOK
  <2>2. Waiting' = Waiting \cup {Tag(item)}
    BY <2>1 DEF Waiting
  <2>3. Tag(item) \notin Waiting
    BY <1>1, <1>3 DEF Waiting, ScanQueued, IsQueued, Tag
  <2>4. Tag(item) \in ScanTags => Waiting \cap ScanTags = {}
    BY <1>1, <1>3, <2>1, TagsOfItems DEF Waiting, ScanQueued
  <2>5. UNCHANGED Current
    BY DEF Current
  <2>6. Service!Accept(Tag(item))
    BY <2>2, <2>3, <2>4, <2>5 DEF Service!Accept
  <2> QED
    BY <1>1, <2>6, TagsOfItems DEF Service!Next
<1> QED
  BY <1>2, <1>3 DEF AddToQueue, Covered

(* A step of the main loop is a step of the service or a stutter.          *)
LEMMA UiServes == IInv /\ UiStep => [Service!Next]_(Service!svcVars)
<1> SUFFICES ASSUME IInv, UiStep PROVE [Service!Next]_(Service!svcVars)
  OBVIOUS
<1> USE DEF sharedVars
<1>0. TypeOK
  BY DEF IInv
<1>1. CASE Poll \/ EndFrame \/ Leave \/ NothingToStart \/ ShowMissingRom
  BY <1>1, StepIsHidden DEF Poll, EndFrame, Leave, NothingToStart, ShowMissingRom
<1>2. CASE StartNext
  <2> DEFINE next == jobQueue[1]
  <2>1. /\ jobQueue \in Seq(Items) /\ Len(jobQueue) \in Nat \ {0}
        /\ DOMAIN jobQueue = 1..Len(jobQueue) /\ 1 \in DOMAIN jobQueue
        /\ next \in Items /\ starting' = next
        /\ DOMAIN jobQueue' = 1..(Len(jobQueue) - 1)
        /\ \A i \in DOMAIN jobQueue' : jobQueue'[i] = jobQueue[i + 1]
    BY <1>0, <1>2 DEF StartNext, CanStart, TypeOK
  <2>2. \A i \in DOMAIN jobQueue : i # 1 => i - 1 \in DOMAIN jobQueue' /\ jobQueue'[i - 1] = jobQueue[i]
    BY <2>1
  <2>3. \A i \in DOMAIN jobQueue' : i + 1 \in DOMAIN jobQueue /\ i + 1 # 1
    BY <2>1
  <2>4. \A i \in DOMAIN jobQueue : i # 1 => Tag(jobQueue[i]) # Tag(next)
    BY <2>1 DEF IInv, QueueDistinct
  <2>5. Tag(next) \in Waiting
    BY <2>1 DEF Waiting
  <2>6. Waiting' = Waiting \ {Tag(next)}
    BY <2>1, <2>2, <2>3, <2>4 DEF Waiting
  <2>7. Current = NoTag /\ Current' = Tag(next)
    BY <1>2, <2>1 DEF StartNext, CanStart, Current
  <2>8. Service!BeginWaiting(Tag(next))
    BY <2>5, <2>6, <2>7 DEF Service!BeginWaiting
  <2> QED
    BY <2>1, <2>8, TagsOfItems DEF Service!Next
<1>3. CASE Spawn
  <2>1. worker'.item = starting
    BY <1>3 DEF Spawn, Joined
  <2> QED
    BY <1>3, <2>1, StepIsHidden DEF Spawn, Joined
<1>4. CASE Enqueue
  BY <1>0, <1>4, AddToQueueServes DEF Enqueue, TypeOK
<1>5. ASSUME NEW t \in Titles, QueueOneUpdate(t) PROVE [Service!Next]_(Service!svcVars)
  <2>1. TitleItem("Update", t) \in Items
    BY TitleItemIsItem DEF Jobs, TitleJobs
  <2> QED
    BY <1>0, <1>5, <2>1, AddToQueueServes DEF QueueOneUpdate
<1> QED
  BY <1>1, <1>2, <1>3, <1>4, <1>5 DEF UiStep

(* A click is a step of the service or a stutter.                          *)
LEMMA UserServes == IInv /\ UserStep => [Service!Next]_(Service!svcVars)
<1> SUFFICES ASSUME IInv, UserStep PROVE [Service!Next]_(Service!svcVars)
  OBVIOUS
<1> USE Constants DEF sharedVars, Click, OnPage
<1>0. TypeOK
  BY DEF IInv
<1>1. /\ \A j \in TitleJobs \cup ExclusiveJobs, t \in Titles :
           /\ TitleItem(j, t) \in Items
           /\ [TitleItem(j, t) EXCEPT !.romm = TRUE] \in Items
      /\ \A j \in ScanJobs, f \in Filters : ScanItem(j, f) \in Items
      /\ "ScanRoms" \in ScanJobs
      /\ "Install" \in TitleJobs /\ "Update" \in TitleJobs /\ "MoveInstall" \in TitleJobs
  BY TitleItemIsItem, ScanItemIsItem DEF TitleJobs, ScanJobs
<1>2. modal.kind # "none" => modal.title \in Titles
  BY <1>0, ModalFields DEF TypeOK
<1>3. CASE CloseWindow \/ CancelRoot \/ Dismiss
  BY <1>3, StepIsHidden DEF CloseWindow, CancelRoot, Dismiss
<1>4. CASE RescanForTitle
  BY <1>1, <1>2, <1>4, StartJobServes DEF RescanForTitle
<1>5. CASE DownloadFromRomm
  BY <1>1, <1>2, <1>5, StartJobServes DEF DownloadFromRomm
<1>6. ASSUME NEW f \in Filters, SetScanFilter(f) PROVE [Service!Next]_(Service!svcVars)
  BY <1>6, StepIsHidden DEF SetScanFilter
<1>7. ASSUME NEW j \in ScanJobs, ClickScan(j) PROVE [Service!Next]_(Service!svcVars)
  BY <1>0, <1>1, <1>7, StartJobServes DEF ClickScan, TypeOK
<1>8. ASSUME NEW t \in Titles, ImportRom(t) PROVE [Service!Next]_(Service!svcVars)
  BY <1>1, <1>8, StartJobServes DEF ImportRom
<1>9. ASSUME NEW t \in Titles, ClickUpdate(t) PROVE [Service!Next]_(Service!svcVars)
  BY <1>1, <1>9, StartJobServes DEF ClickUpdate
<1>10. ASSUME NEW t \in Titles, BeginInstall(t) \/ BeginMove(t)
       PROVE  [Service!Next]_(Service!svcVars)
  BY <1>10, StepIsHidden DEF BeginInstall, BeginMove
<1>11. ASSUME NEW t \in Titles, NEW r, InstallOrPrompt(t, r), ui = "draw", UNCHANGED worker
       PROVE  [Service!Next]_(Service!svcVars)
  <2>1. CASE StartJob(TitleItem("Install", t), r)
    BY <1>1, <1>11, <2>1, StartJobServes
  <2>2. CASE UNCHANGED <<ui, starting, jobRunning, jobQueue>>
    BY <1>11, <2>2, StepIsHidden
  <2> QED
    BY <1>11, <2>1, <2>2 DEF InstallOrPrompt
<1>12. ASSUME NEW t \in Titles, BeginInstallOneRoot(t) PROVE [Service!Next]_(Service!svcVars)
  BY <1>11, <1>12 DEF BeginInstallOneRoot
<1>13. ASSUME NEW t \in Titles, NEW j \in ExclusiveJobs, ClickExclusive(j, t)
       PROVE  [Service!Next]_(Service!svcVars)
  BY <1>1, <1>13, StartJobServes DEF ClickExclusive
<1>14. ASSUME NEW ts \in SUBSET Titles, QueueAllUpdates(ts)
       PROVE  [Service!Next]_(Service!svcVars)
  BY <1>14, StepIsHidden DEF QueueAllUpdates
<1>15. ASSUME NEW r \in Roots, ConfirmInstallRoot(r) PROVE [Service!Next]_(Service!svcVars)
  BY <1>2, <1>11, <1>15 DEF ConfirmInstallRoot
<1>16. ASSUME NEW r \in Roots, ConfirmMoveRoot(r) PROVE [Service!Next]_(Service!svcVars)
  BY <1>1, <1>2, <1>16, StartJobServes DEF ConfirmMoveRoot
<1> QED
  BY <1>0, <1>3, <1>4, <1>5, <1>6, <1>7, <1>8, <1>9, <1>10, <1>12, <1>13, <1>14, <1>15,
     <1>16 DEF UserStep, TypeOK

(* A step of the worker thread is a step of the service or a stutter.      *)
LEMMA WorkerServes == IInv /\ WorkerStep => [Service!Next]_(Service!svcVars)
<1> SUFFICES ASSUME IInv, WorkerStep PROVE [Service!Next]_(Service!svcVars)
  OBVIOUS
<1>0. worker \in Workers
  BY DEF IInv, TypeOK
<1>1. CASE ClearRunning
  <2>1. jobRunning /\ ui # "join"
    BY <1>0, <1>1 DEF ClearRunning, At, IInv, SlotIsHeld, LeavingIsIdle, Busy
  <2>2. Current # NoTag /\ Current' = NoTag
    BY <1>0, <1>1, <2>1, TagsOfItems, WorkerFields DEF ClearRunning, Current
  <2>3. UNCHANGED Waiting
    BY <1>1 DEF ClearRunning, Rest, Waiting
  <2> QED
    BY <2>2, <2>3 DEF Service!Finish, Service!Next
<1>2. CASE ~ClearRunning
  <2>1. UNCHANGED <<ui, jobRunning, jobQueue, starting>>
    BY <1>2 DEF WorkerStep, RomReady, RomMissing, TakeInstallRoot, TakeMoveRoot, ReadScanScope,
       StartOther, BodyDone, ScanDone, BuildLostRom, JobThrows, ScheduleRestart, ClearTag,
       WorkerVars, Rest, uiVars
  <2>2. worker'.item = worker.item
    BY <1>0, <1>2 DEF WorkerStep, RomReady, RomMissing, TakeInstallRoot, TakeMoveRoot,
       ReadScanScope, StartOther, BodyDone, ScanDone, BuildLostRom, JobThrows, ScheduleRestart,
       ClearTag, GoTo, Workers
  <2> QED
    BY <2>1, <2>2, StepIsHidden
<1> QED
  BY <1>1, <1>2

(* Every behaviour of the hub's threads, queue and tag is a behaviour of   *)
(* the service: nothing is served without having been asked for, nothing   *)
(* waiting is lost or served twice, and one request is served at a time.   *)
THEOREM Refinement == Spec => ImplementsService
<1>1. Init => Service!Init
  BY DEF Init, Service!Init, Waiting, Current
<1>2. IInv /\ [Next]_vars => [Service!Next]_(Service!svcVars)
  <2>1. IInv /\ UNCHANGED vars => UNCHANGED Service!svcVars
    BY StepIsHidden DEF vars, uiVars, sharedVars
  <2> QED
    BY <2>1, UiServes, UserServes, WorkerServes DEF Next
<1> QED
  BY Invariant, <1>1, <1>2, PTL DEF Spec, ImplementsService, Service!Spec
=============================================================================
