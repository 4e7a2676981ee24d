------------------------------ MODULE HubJobs ------------------------------
(***************************************************************************)
(* The hub's background-job scheduler (src/hub/hub_model.cpp) and the part *)
(* of the main loop that drives it (src/hub/hub_main.cpp).                 *)
(*                                                                         *)
(* Two threads take part.  The UI thread runs frames: "poll" (events, exit *)
(* check), "drain" (start the next queued job), "draw" (the user may click *)
(* something).  The worker thread runs one job at a time.  They share the  *)
(* atomics job_running and request_exit, the deque job_queue under the     *)
(* mutex mu, and four plain fields: the tag of the running job, job_apps_  *)
(* dir, scans_platform_filter and pending_scan_missing_rom_id.             *)
(*                                                                         *)
(* A job kind stands for its family: "Update" also for GenerateRebuild,    *)
(* "Install" for the three install jobs, "ScanRoms" for FullScanRoms,      *)
(* "PurgeMissingFiles" for every scan that has no missing-ROM follow-up    *)
(* (the BIOS scans), "Uninstall" for the jobs that are dropped while       *)
(* another runs, "SelfUpdate" for those of them that may end the process.  *)
(***************************************************************************)
EXTENDS Naturals, Sequences, FiniteSets

CONSTANTS Titles, Platforms, Roots,
          NoTitle, AllPlatforms, NoRoot, NoJob,
          PlatformOf,    \* the platform of a title
          DefaultRoot,   \* resolve_default_install_root
          MaxRequests    \* bound: how often the user clicks

ASSUME HubAssumption ==
  /\ NoTitle \notin Titles
  /\ AllPlatforms \notin Platforms
  /\ NoRoot \notin Roots
  /\ DefaultRoot \in Roots
  /\ PlatformOf \in [Titles -> Platforms]
  /\ MaxRequests \in Nat

TitleJobs == {"Install", "Update", "MoveInstall"}
ScanJobs == {"ScanRoms", "PurgeMissingFiles"}
ExclusiveJobs == {"Uninstall", "SelfUpdate"}
Jobs == TitleJobs \cup ScanJobs \cup ExclusiveJobs

ASSUME NoJobAssumption == NoJob \notin Jobs

Queueable(j) == j \in TitleJobs \cup ScanJobs
Filters == Platforms \cup {AllPlatforms}
Apps == Roots \cup {NoRoot}

(* QueuedHubJob, also what start_job passes to the worker.                 *)
Items == [job : Jobs, title : Titles \cup {NoTitle}, filter : Filters,
          apps : Apps, romm : BOOLEAN]
TitleItem(j, t) == [job |-> j, title |-> t, filter |-> AllPlatforms,
                    apps |-> NoRoot, romm |-> FALSE]
ScanItem(j, f) == [job |-> j, title |-> NoTitle, filter |-> f,
                   apps |-> NoRoot, romm |-> FALSE]

NoModal == [kind |-> "none", title |-> NoTitle]
Modals == {NoModal} \cup [kind : {"root", "move", "rom"}, title : Titles]
Modal(k, t) == [kind |-> k, title |-> t]

VARIABLES
  ui,             \* where the UI thread is in its frame
  running,        \* `running` of the main loop
  requests,       \* user clicks so far
  starting,       \* the item start_job is about to queue or to run
  todo,           \* titles queue_all_updates has yet to queue
  modal,          \* the open modal dialog
  missingRom,     \* missing_rom_prompt_id when show_missing_rom_prompt is set
  mu,             \* "free", or "worker" once the worker has locked itself out
  jobRunning,     \* job_running
  job,            \* the tag of the running job: job, job_title_id, job_platform_filter
  jobQueue,       \* job_queue
  jobAppsDir,     \* job_apps_dir
  scansFilter,    \* scans_platform_filter
  pendingMissing, \* pending_scan_missing_rom_id
  followUp,       \* open_rom_folder_prompt: the title and what the scan covered
  requestExit,    \* request_exit
  worker,         \* the worker thread: its place, its item, what it has read
  leaving,        \* a worker thread has cleared job_running and has yet to return
  installRoots,   \* effective_install_roots: the configured install locations
  chosen          \* history: the root the user picked for each title

uiVars == <<ui, running, requests, starting, todo, modal>>
sharedVars == <<missingRom, jobRunning, job, jobQueue, jobAppsDir, scansFilter,
                pendingMissing, requestExit>>
vars == <<uiVars, sharedVars, mu, followUp, worker, leaving, installRoots, chosen>>

NoTag == [job |-> NoJob, title |-> NoTitle, filter |-> AllPlatforms]
Tag(it) == [job |-> it.job, title |-> it.title, filter |-> it.filter]
NoFollowUp == [title |-> NoTitle, scope |-> AllPlatforms]

Busy == {"start", "root", "body", "wedged", "finish"}
JobTags == [job : Jobs \cup {NoJob}, title : Titles \cup {NoTitle}, filter : Filters]
FollowUps == [title : Titles \cup {NoTitle}, scope : Filters]
Workers == [pc : Busy \cup {"none"}, item : Items, scope : Filters, apps : Apps]

TypeOK ==
  /\ ui \in {"poll", "drain", "draw", "enqueue", "queueall", "join", "quit", "exited"}
  /\ running \in BOOLEAN
  /\ requests \in 0..MaxRequests
  /\ starting \in Items
  /\ todo \subseteq Titles
  /\ modal \in Modals
  /\ missingRom \in Titles \cup {NoTitle}
  /\ mu \in {"free", "worker"}
  /\ jobRunning \in BOOLEAN
  /\ job \in JobTags
  /\ jobQueue \in Seq(Items)
  /\ jobAppsDir \in Apps
  /\ scansFilter \in Filters
  /\ pendingMissing \in Titles \cup {NoTitle}
  /\ followUp \in FollowUps
  /\ requestExit \in BOOLEAN
  /\ worker \in Workers
  /\ leaving \in BOOLEAN
  /\ installRoots \in (SUBSET Roots) \ {{}}
  /\ chosen \in [Titles -> Apps]

SomeItem == TitleItem("Uninstall", NoTitle)

Init ==
  /\ ui = "poll" /\ running = TRUE /\ requests = 0
  /\ starting = SomeItem /\ todo = {} /\ modal = NoModal
  /\ missingRom = NoTitle /\ mu = "free"
  /\ jobRunning = FALSE /\ job = NoTag /\ jobQueue = <<>>
  /\ jobAppsDir = NoRoot /\ scansFilter = AllPlatforms
  /\ pendingMissing = NoTitle /\ followUp = NoFollowUp
  /\ requestExit = FALSE
  /\ worker = [pc |-> "none", item |-> SomeItem, scope |-> AllPlatforms, apps |-> NoRoot]
  /\ leaving = FALSE
  /\ installRoots \in {{DefaultRoot}, Roots}
  /\ chosen = [t \in Titles |-> NoRoot]
-----------------------------------------------------------------------------
(* Questions the UI and enqueue_hub_job ask of the queue and of the tag.   *)

(* is_job_queued *)
IsQueued(j, t, f) ==
  \E i \in DOMAIN jobQueue :
    /\ jobQueue[i].job = j
    /\ IF j \in ScanJobs THEN jobQueue[i].filter = f ELSE jobQueue[i].title = t

(* has_queued_scan *)
ScanQueued == \E i \in DOMAIN jobQueue : jobQueue[i].job \in ScanJobs

(* The job now running is j for this title, or over this platform filter.  *)
IsActive(j, t, f) ==
  /\ jobRunning
  /\ job.job = j
  /\ IF j \in ScanJobs THEN job.filter = f ELSE job.title = t

(* hub_job_is_install without Update: what greys an Install button.        *)
InstallActive(t) == jobRunning /\ job.job \in {"Install", "MoveInstall"} /\ job.title = t
-----------------------------------------------------------------------------
(* start_job and the queue                                                 *)

(* start_job's main path, called with job_apps_dir holding apps.  Busy: a  *)
(* queueable job goes on to enqueue_hub_job and any other is refused.      *)
(* Free: the slot is claimed and the old worker thread has to be joined.   *)
StartJob(it, apps) ==
  IF jobRunning
  THEN /\ jobAppsDir' = apps
       /\ IF Queueable(it.job)
          THEN /\ ui' = "enqueue"
               /\ starting' = IF it.job \in ScanJobs THEN it ELSE [it EXCEPT !.apps = apps]
          ELSE UNCHANGED <<ui, starting>>
       /\ UNCHANGED <<jobRunning, jobQueue>>
  ELSE /\ jobRunning' = TRUE
       /\ ui' = "join"
       /\ starting' = it
       /\ jobAppsDir' = apps
       /\ UNCHANGED jobQueue

(* What is running or waiting already, and a second scan, are not queued.  *)
Covered(it) ==
  \/ IsActive(it.job, it.title, it.filter)
  \/ IF it.job \in ScanJobs THEN ScanQueued ELSE IsQueued(it.job, it.title, it.filter)

(* enqueue_hub_job under mu: a title job takes job_apps_dir with it.       *)
AddToQueue(it) ==
  LET isScan == it.job \in ScanJobs
      item == IF ~isScan /\ it.apps = NoRoot THEN [it EXCEPT !.apps = jobAppsDir] ELSE it
  IN  /\ jobAppsDir' = IF isScan THEN jobAppsDir ELSE NoRoot
      /\ jobQueue' = IF Covered(it) THEN jobQueue ELSE Append(jobQueue, item)

Enqueue ==
  /\ ui = "enqueue" /\ mu = "free"
  /\ AddToQueue(starting)
  /\ ui' = "draw"
  /\ UNCHANGED <<running, requests, starting, todo, modal, missingRom, mu,
                 jobRunning, job, scansFilter, pendingMissing, followUp,
                 requestExit, worker, leaving, installRoots, chosen>>

(* start_next_queued_job starts nothing while a job runs or when nothing   *)
(* waits; the variants start one beside it, or leave the last one behind.  *)
CanStartBeside == jobQueue # <<>>
CanStartButLast == ~jobRunning /\ Len(jobQueue) > 1
CanStart == ~jobRunning /\ jobQueue # <<>>

(* Pop, restore the item's options, start it.                              *)
StartNext ==
  /\ ui = "drain" \/ (ui = "queueall" /\ todo = {})
  /\ mu = "free"
  /\ CanStart
  /\ LET next == Head(jobQueue)
     IN  /\ jobQueue' = Tail(jobQueue)
         /\ jobAppsDir' = next.apps
         /\ scansFilter' = IF next.job \in ScanJobs THEN next.filter ELSE scansFilter
         /\ starting' = next
  /\ jobRunning' = TRUE
  /\ ui' = "join"
  /\ UNCHANGED <<running, requests, todo, modal, missingRom, mu, job,
                 pendingMissing, followUp, requestExit, worker, leaving,
                 installRoots, chosen>>

NothingToStart ==
  /\ ui = "drain" \/ (ui = "queueall" /\ todo = {})
  /\ mu = "free"
  /\ ~CanStart
  /\ ui' = "draw"
  /\ UNCHANGED <<running, requests, starting, todo, modal, sharedVars, mu,
                 followUp, worker, leaving, installRoots, chosen>>

(* start_job joins the previous worker thread (not only its job), tags the *)
(* job, and spawns.                                                        *)
JoinedTooEarly == worker.pc = "none"
Joined == worker.pc = "none" /\ ~leaving

Spawn ==
  /\ ui = "join"
  /\ Joined
  /\ job' = [job |-> starting.job, title |-> starting.title,
             filter |-> IF starting.job \in ScanJobs THEN scansFilter ELSE AllPlatforms]
  /\ worker' = [pc |-> "start", item |-> starting, scope |-> AllPlatforms, apps |-> NoRoot]
  /\ ui' = "draw"
  /\ UNCHANGED <<running, requests, starting, todo, modal, missingRom, mu,
                 jobRunning, jobQueue, jobAppsDir, scansFilter, pendingMissing,
                 followUp, requestExit, leaving, installRoots, chosen>>
-----------------------------------------------------------------------------
(* The frame                                                               *)

(* The loop's exit test. *)
KeepRunningAfterRestart == running
KeepRunning == running /\ ~requestExit

Poll ==
  /\ ui = "poll" /\ mu = "free"
  /\ running' = KeepRunning
  /\ ui' = "drain"
  /\ UNCHANGED <<requests, starting, todo, modal, sharedVars, mu, followUp,
                 worker, leaving, installRoots, chosen>>

(* SDL_EVENT_QUIT or the window's close button. *)
CloseWindow ==
  /\ ui = "poll" /\ mu = "free"
  /\ running' = FALSE
  /\ UNCHANGED <<ui, requests, starting, todo, modal, sharedVars, mu, followUp,
                 worker, leaving, installRoots, chosen>>

EndFrame ==
  /\ ui = "draw" /\ mu = "free"
  /\ ui' = IF running THEN "poll" ELSE "quit"
  /\ UNCHANGED <<running, requests, starting, todo, modal, sharedVars, mu,
                 followUp, worker, leaving, installRoots, chosen>>

(* After the loop: a scheduled restart leaves at once; a closed window     *)
(* joins the worker first.                                                 *)
Leave ==
  /\ ui = "quit"
  /\ requestExit \/ Joined
  /\ ui' = "exited"
  /\ UNCHANGED <<running, requests, starting, todo, modal, sharedVars, mu,
                 followUp, worker, leaving, installRoots, chosen>>
-----------------------------------------------------------------------------
(* What the user can click in a frame.  A modal keeps the pages behind it  *)
(* from being clicked.                                                     *)

Click ==
  /\ ui = "draw" /\ mu = "free"
  /\ requests < MaxRequests
  /\ requests' = requests + 1

OnPage == Click /\ modal = NoModal

(* The scan settings' platform combo. *)
SetScanFilter(f) ==
  /\ OnPage /\ f # scansFilter
  /\ scansFilter' = f
  /\ UNCHANGED <<ui, running, starting, todo, modal, missingRom, mu,
                 jobRunning, job, jobQueue, jobAppsDir, pendingMissing,
                 followUp, requestExit, worker, leaving, installRoots, chosen>>

(* The buttons of the scan settings; Scan new files forgets a pending      *)
(* missing-ROM follow-up, Clean missing files does not.                    *)
ClickScan(j) ==
  /\ OnPage
  /\ ~IsActive(j, NoTitle, scansFilter) /\ ~ScanQueued
  /\ StartJob(ScanItem(j, scansFilter), jobAppsDir)
  /\ pendingMissing' = IF j = "ScanRoms" THEN NoTitle ELSE pendingMissing
  /\ UNCHANGED <<running, todo, modal, missingRom, mu, job, scansFilter,
                 followUp, requestExit, worker, leaving, installRoots, chosen>>

(* Import ROM, once the file dialog has returned: the scan that follows is *)
(* asked for whatever runs or waits by then.  Begun in the missing-ROM     *)
(* dialog the import keeps its title pending, begun elsewhere it has none. *)
ImportRom(t) ==
  /\ Click
  /\ scansFilter' = PlatformOf[t]
  /\ pendingMissing' \in {t, NoTitle}
  /\ StartJob(ScanItem("ScanRoms", PlatformOf[t]), jobAppsDir)
  /\ UNCHANGED <<running, todo, modal, missingRom, mu, job, followUp,
                 requestExit, worker, leaving, installRoots, chosen>>

ClickUpdate(t) ==
  /\ OnPage
  /\ ~IsActive("Update", t, AllPlatforms) /\ ~IsQueued("Update", t, AllPlatforms)
  /\ StartJob(TitleItem("Update", t), jobAppsDir)
  /\ UNCHANGED <<running, todo, modal, missingRom, mu, job, scansFilter,
                 pendingMissing, followUp, requestExit, worker, leaving,
                 installRoots, chosen>>

(* Uninstall, or Update Retro, which is not greyed out while a job runs.   *)
ClickExclusive(j, t) ==
  /\ OnPage
  /\ StartJob(TitleItem(j, t), jobAppsDir)
  /\ UNCHANGED <<running, todo, modal, missingRom, mu, job, scansFilter,
                 pendingMissing, followUp, requestExit, worker, leaving,
                 installRoots, chosen>>

(* queue_all_updates: queue them one after another, then start the first   *)
(* one (StartNext, NothingToStart).                                        *)
QueueAllUpdates(ts) ==
  /\ OnPage /\ ts # {}
  /\ todo' = ts
  /\ ui' = "queueall"
  /\ UNCHANGED <<running, starting, modal, sharedVars, mu, followUp, worker,
                 leaving, installRoots, chosen>>

QueueOneUpdate(t) ==
  /\ ui = "queueall" /\ mu = "free" /\ t \in todo
  /\ AddToQueue(TitleItem("Update", t))
  /\ todo' = todo \ {t}
  /\ UNCHANGED <<ui, running, requests, starting, modal, missingRom, mu,
                 jobRunning, job, scansFilter, pendingMissing, followUp,
                 requestExit, worker, leaving, installRoots, chosen>>
-----------------------------------------------------------------------------
(* Install and Move: the location dialog and the missing-ROM dialog        *)

(* start_job(Install), unless prepare_build_rom_or_prompt asks for the ROM *)
(* first; then job_apps_dir stays behind for the dialog's answer.          *)
InstallOrPrompt(t, apps) ==
  \/ /\ StartJob(TitleItem("Install", t), apps)
     /\ UNCHANGED missingRom
  \/ /\ missingRom' = t
     /\ jobAppsDir' = apps
     /\ UNCHANGED <<ui, starting, jobRunning, jobQueue>>

(* begin_install with one install root: it is used without asking. *)
BeginInstallOneRoot(t) ==
  /\ OnPage /\ Cardinality(installRoots) = 1
  /\ ~InstallActive(t) /\ ~IsQueued("Install", t, AllPlatforms)
  /\ chosen' = [chosen EXCEPT ![t] = DefaultRoot]
  /\ InstallOrPrompt(t, DefaultRoot)
  /\ UNCHANGED <<running, todo, modal, mu, job, scansFilter, pendingMissing,
                 followUp, requestExit, worker, leaving, installRoots>>

(* begin_install with several roots: clear job_apps_dir, open the dialog.  *)
BeginInstall(t) ==
  /\ OnPage /\ Cardinality(installRoots) > 1
  /\ ~InstallActive(t) /\ ~IsQueued("Install", t, AllPlatforms)
  /\ jobAppsDir' = NoRoot
  /\ modal' = Modal("root", t)
  /\ chosen' = [chosen EXCEPT ![t] = NoRoot]
  /\ UNCHANGED <<ui, running, starting, todo, missingRom, mu, jobRunning, job,
                 jobQueue, scansFilter, pendingMissing, followUp, requestExit,
                 worker, leaving, installRoots>>

BeginMove(t) ==
  /\ OnPage /\ Cardinality(installRoots) > 1
  /\ jobAppsDir' = NoRoot
  /\ modal' = Modal("move", t)
  /\ UNCHANGED <<ui, running, starting, todo, missingRom, mu, jobRunning, job,
                 jobQueue, scansFilter, pendingMissing, followUp, requestExit,
                 worker, leaving, installRoots, chosen>>

(* confirm_install_root_and_continue *)
ConfirmInstallRoot(r) ==
  /\ Click /\ modal.kind = "root"
  /\ ~IsActive("Install", modal.title, AllPlatforms)
  /\ ~IsQueued("Install", modal.title, AllPlatforms)
  /\ modal' = NoModal
  /\ chosen' = [chosen EXCEPT ![modal.title] = r]
  /\ InstallOrPrompt(modal.title, r)
  /\ UNCHANGED <<running, todo, mu, job, scansFilter, pendingMissing, followUp,
                 requestExit, worker, leaving, installRoots>>

ConfirmMoveRoot(r) ==
  /\ Click /\ modal.kind = "move"
  /\ ~IsActive("MoveInstall", modal.title, AllPlatforms)
  /\ ~IsQueued("MoveInstall", modal.title, AllPlatforms)
  /\ modal' = NoModal
  /\ StartJob(TitleItem("MoveInstall", modal.title), r)
  /\ UNCHANGED <<running, todo, missingRom, mu, job, scansFilter,
                 pendingMissing, followUp, requestExit, worker, leaving,
                 installRoots, chosen>>

(* The location dialog's Cancel clears job_apps_dir; clicking outside it   *)
(* only closes it, as does every way of dismissing the ROM dialog.         *)
CancelRoot ==
  /\ Click /\ modal.kind \in {"root", "move"}
  /\ modal' = NoModal
  /\ jobAppsDir' = NoRoot
  /\ UNCHANGED <<ui, running, starting, todo, missingRom, mu, jobRunning, job,
                 jobQueue, scansFilter, pendingMissing, followUp, requestExit,
                 worker, leaving, installRoots, chosen>>

Dismiss ==
  /\ Click /\ modal # NoModal
  /\ modal' = NoModal
  /\ UNCHANGED <<ui, running, starting, todo, sharedVars, mu, followUp, worker,
                 leaving, installRoots, chosen>>

(* The next frame opens the missing-ROM dialog, over any other one. *)
ShowMissingRom ==
  /\ ui = "draw" /\ mu = "free" /\ missingRom # NoTitle
  /\ modal' = Modal("rom", missingRom)
  /\ missingRom' = NoTitle
  /\ UNCHANGED <<ui, running, requests, starting, todo, mu, jobRunning, job,
                 jobQueue, jobAppsDir, scansFilter, pendingMissing, followUp,
                 requestExit, worker, leaving, installRoots, chosen>>

(* Rescan, from the missing-ROM dialog. *)
RescanForTitle ==
  /\ Click /\ modal.kind = "rom"
  /\ ~IsActive("ScanRoms", NoTitle, PlatformOf[modal.title]) /\ ~ScanQueued
  /\ scansFilter' = PlatformOf[modal.title]
  /\ pendingMissing' = modal.title
  /\ modal' = NoModal
  /\ StartJob(ScanItem("ScanRoms", PlatformOf[modal.title]), jobAppsDir)
  /\ UNCHANGED <<running, todo, missingRom, mu, job, followUp, requestExit,
                 worker, leaving, installRoots, chosen>>

(* Download from RomM, from the missing-ROM dialog. *)
DownloadFromRomm ==
  /\ Click /\ modal.kind = "rom"
  /\ ~IsActive("Install", modal.title, AllPlatforms)
  /\ ~IsQueued("Install", modal.title, AllPlatforms)
  /\ modal' = NoModal
  /\ StartJob([TitleItem("Install", modal.title) EXCEPT !.romm = TRUE], jobAppsDir)
  /\ UNCHANGED <<running, todo, missingRom, mu, job, scansFilter,
                 pendingMissing, followUp, requestExit, worker, leaving,
                 installRoots, chosen>>
-----------------------------------------------------------------------------
(* The worker thread                                                       *)

Rest == <<uiVars, jobQueue, scansFilter, installRoots, chosen>>
WorkerVars == <<Rest, mu, leaving>>
At(pc) == ui # "exited" /\ worker.pc = pc   \* _Exit ends every thread
GoTo(pc) == worker' = [worker EXCEPT !.pc = pc]

(* Install's ROM stage ends with a ROM, bound already or fetched from RomM. *)
RomReady ==
  /\ At("start") /\ worker.item.job = "Install"
  /\ GoTo("root")
  /\ UNCHANGED <<WorkerVars, missingRom, jobRunning, job, jobAppsDir,
                 pendingMissing, followUp, requestExit>>

(* ... or without one: the missing-ROM dialog is asked for. *)
RomMissing ==
  /\ At("start") /\ worker.item.job = "Install"
  /\ missingRom' = worker.item.title
  /\ GoTo("finish")
  /\ UNCHANGED <<WorkerVars, jobRunning, job, jobAppsDir, pendingMissing,
                 followUp, requestExit>>

(* Only after the ROM stage does the job take job_apps_dir. *)
TakeInstallRoot ==
  /\ At("root")
  /\ worker' = [worker EXCEPT !.pc = "body",
                  !.apps = IF jobAppsDir = NoRoot THEN DefaultRoot ELSE jobAppsDir]
  /\ jobAppsDir' = NoRoot
  /\ UNCHANGED <<WorkerVars, missingRom, jobRunning, job, pendingMissing,
                 followUp, requestExit>>

TakeMoveRoot ==
  /\ At("start") /\ worker.item.job = "MoveInstall"
  /\ worker' = [worker EXCEPT !.pc = IF jobAppsDir = NoRoot THEN "finish" ELSE "body",
                  !.apps = jobAppsDir]
  /\ jobAppsDir' = NoRoot
  /\ UNCHANGED <<WorkerVars, missingRom, jobRunning, job, pendingMissing,
                 followUp, requestExit>>

(* A scan reads scans_platform_filter itself, when its thread gets there.  *)
ReadScanScope ==
  /\ At("start") /\ worker.item.job \in ScanJobs
  /\ worker' = [worker EXCEPT !.pc = "body", !.scope = scansFilter]
  /\ UNCHANGED <<WorkerVars, missingRom, jobRunning, job, jobAppsDir,
                 pendingMissing, followUp, requestExit>>

StartOther ==
  /\ At("start") /\ worker.item.job \in {"Update"} \cup ExclusiveJobs
  /\ GoTo("body")
  /\ UNCHANGED <<WorkerVars, missingRom, jobRunning, job, jobAppsDir,
                 pendingMissing, followUp, requestExit>>

(* The body of an install, update, move or uninstall returns. *)
BodyDone ==
  /\ At("body") /\ worker.item.job # "ScanRoms"
  /\ GoTo("finish")
  /\ UNCHANGED <<WorkerVars, missingRom, jobRunning, job, jobAppsDir,
                 pendingMissing, followUp, requestExit>>

(* What the open-folder dialog is asked for.                           *)
FollowUpOf == [title |-> pendingMissing, scope |-> worker.scope]

(* A ROM scan takes the pending missing-ROM title; if it is still unbound, *)
(* the open-folder dialog is asked for.                                    *)
ScanDone ==
  /\ At("body") /\ worker.item.job = "ScanRoms"
  /\ pendingMissing' = NoTitle
  /\ \/ UNCHANGED followUp
     \/ /\ pendingMissing # NoTitle
        /\ followUp' = FollowUpOf
  /\ GoTo("finish")
  /\ UNCHANGED <<WorkerVars, missingRom, jobRunning, job, jobAppsDir,
                 requestExit>>

(* The build failed and the ROM is gone: set_status locks mu again inside  *)
(* the block that holds it.                                                *)
BuildLostRom ==
  /\ At("body") /\ worker.item.job = "Install" /\ mu = "free"
  /\ missingRom' = worker.item.title
  /\ mu' = "worker"
  /\ GoTo("wedged")
  /\ UNCHANGED <<Rest, leaving, jobRunning, job, jobAppsDir, pendingMissing,
                 followUp, requestExit>>

(* An exception that leaves the thread without clearing job_running. *)
JobThrowsUncaught ==
  /\ At("start") \/ At("root") \/ At("body")
  /\ GoTo("none")
  /\ UNCHANGED <<WorkerVars, missingRom, jobRunning, job, jobAppsDir,
                 pendingMissing, followUp, requestExit>>

(* An unknown title, or an exception the job's catch turns into a log line. *)
JobThrows ==
  /\ At("start") \/ At("root") \/ At("body")
  /\ GoTo("finish")
  /\ UNCHANGED <<WorkerVars, missingRom, jobRunning, job, jobAppsDir,
                 pendingMissing, followUp, requestExit>>

(* The restart, or the uninstaller, is scheduled: the hub must go. *)
ScheduleRestart ==
  /\ At("body") /\ worker.item.job = "SelfUpdate"
  /\ requestExit' = TRUE
  /\ GoTo("finish")
  /\ UNCHANGED <<WorkerVars, missingRom, jobRunning, job, jobAppsDir,
                 pendingMissing, followUp>>

(* job_running = false; job = None: two stores, then the thread returns.   *)
ClearRunning ==
  /\ At("finish")
  /\ jobRunning' = FALSE
  /\ leaving' = TRUE
  /\ GoTo("none")
  /\ UNCHANGED <<Rest, mu, missingRom, job, jobAppsDir, pendingMissing,
                 followUp, requestExit>>

ClearTag ==
  /\ ui # "exited" /\ leaving
  /\ job' = [job EXCEPT !.job = NoJob]
  /\ leaving' = FALSE
  /\ UNCHANGED <<Rest, mu, worker, missingRom, jobRunning, jobAppsDir,
                 pendingMissing, followUp, requestExit>>
-----------------------------------------------------------------------------
UiStep ==
  \/ Poll \/ EndFrame \/ Leave \/ StartNext \/ NothingToStart \/ Spawn \/ Enqueue
  \/ ShowMissingRom
  \/ \E t \in Titles : QueueOneUpdate(t)

UserStep ==
  \/ CloseWindow \/ CancelRoot \/ Dismiss \/ RescanForTitle \/ DownloadFromRomm
  \/ \E f \in Filters : SetScanFilter(f)
  \/ \E j \in ScanJobs : ClickScan(j)
  \/ \E t \in Titles : \/ ImportRom(t) \/ ClickUpdate(t) \/ BeginInstall(t)
                       \/ BeginInstallOneRoot(t) \/ BeginMove(t)
                       \/ \E j \in ExclusiveJobs : ClickExclusive(j, t)
  \/ \E ts \in SUBSET Titles : QueueAllUpdates(ts)
  \/ \E r \in installRoots : ConfirmInstallRoot(r) \/ ConfirmMoveRoot(r)

WorkerStep ==
  \/ RomReady \/ RomMissing \/ TakeInstallRoot \/ TakeMoveRoot \/ ReadScanScope \/ StartOther
  \/ BodyDone \/ ScanDone \/ BuildLostRom \/ JobThrows \/ ScheduleRestart
  \/ ClearRunning \/ ClearTag

Next == UiStep \/ UserStep \/ WorkerStep

(* The main loop runs until it leaves, and jobs end: downloads time out    *)
(* and build processes finish.  Nothing makes the user click.              *)
Fairness == WF_vars(UiStep) /\ WF_vars(WorkerStep)

Spec == Init /\ [][Next]_vars
FairSpec == Spec /\ Fairness
-----------------------------------------------------------------------------
(* Properties                                                              *)

(* No request waits twice: one item per job and title, and one scan or     *)
(* purge in all ("at most one library scan/purge waiting", hub_model.cpp), *)
(* whatever the user clicks while the worker finishes and items are popped.*)
QueueDistinct ==
  \A i, k \in DOMAIN jobQueue : i # k =>
    /\ Tag(jobQueue[i]) # Tag(jobQueue[k])
    /\ ~(jobQueue[i].job \in ScanJobs /\ jobQueue[k].job \in ScanJobs)

(* While a job runs its worker thread, job_running is set and the tag the  *)
(* UI and the dedupe read names that very job: a late "job = None" of the  *)
(* thread before it cannot erase it, because start_job joins first.        *)
TagNamesWorker ==
  worker.pc \in Busy => jobRunning /\ Tag(worker.item) = job

(* job_running is true exactly while a thread works or one is about to be  *)
(* spawned: the two stores that end a job and the exchange that claims the *)
(* slot never leave it held by nobody, nor free under a working thread.    *)
SlotIsHeld ==
  jobRunning <=> (worker.pc \in Busy \/ ui = "join")

(* The inductive strengthening.  A title item has no platform filter; a    *)
(* scan that is about to be spawned was asked for over the filter in force; *)
(* and a thread that has cleared job_running has left its job.             *)
ItemShape(it) == it.job \notin ScanJobs => it.filter = AllPlatforms
ItemShapes == ItemShape(starting) /\ \A i \in DOMAIN jobQueue : ItemShape(jobQueue[i])
JoinFilter == ui = "join" /\ starting.job \in ScanJobs => starting.filter = scansFilter
LeavingIsIdle == /\ leaving => worker.pc = "none"
                 /\ ui = "join" => worker.pc = "none"
IInv == /\ TypeOK /\ QueueDistinct /\ TagNamesWorker /\ SlotIsHeld
        /\ ItemShapes /\ JoinFilter /\ LeavingIsIdle

(* The scheduler implements the service of JobService. *)
Current == IF jobRunning THEN Tag(IF ui = "join" THEN starting ELSE worker.item) ELSE NoTag
Waiting == {Tag(jobQueue[i]) : i \in DOMAIN jobQueue}
Tags == {Tag(it) : it \in Items}
ScanTags == {tag \in Tags : tag.job \in ScanJobs}
Service == INSTANCE JobService WITH Requests <- Tags, Scans <- ScanTags, Idle <- NoTag,
                                    waiting <- Waiting, current <- Current
ImplementsService == Service!Spec

(* "do not call set_status/append_log while holding the lock"              *)
(* (hub_model.cpp): no thread waits for the mutex it holds.                *)
NoSelfLock == mu = "free"

(* Every queued job starts, once the user stops clicking: the main loop    *)
(* drains the queue, unless the hub is closed.  It needs the mutex: see    *)
(* NoSelfLock for the one path that loses it for good.                     *)
QueueDrains == []NoSelfLock => (jobQueue # <<>> ~> (jobQueue = <<>> \/ ui = "exited"))

(* The process ends after a restart was scheduled, whatever is queued,     *)
(* running or about to be joined: the apply script waits for its PID.      *)
ExitFollowsRestart == []NoSelfLock => (requestExit ~> ui = "exited")
=============================================================================
