# Retro Launcher in TLA+

Retro Launcher ("the hub") installs, updates, builds and starts recompiled games. It is
an SDL program whose UI thread draws frames, with a worker thread for jobs and a few
helpers (launch, netplay, LAN, sign-in). What matters to the player is decided by a few
questions: *which job runs, on what, and when* (the scheduler); *what is on disk after a
job that fails or is cut short* (installs, builds, downloads, migrations, updates);
*which of several writers of one file wins* (settings, saves, the library index); and
*what two programs make of each other* (lobby, runner, update script).

Paths are given relative to the repository's own `src/` and `include/`.

| module | what it models | code | its run |
|---|---|---|---|
| `JobService` | abstract: what the hub promises about background jobs | - | `HubJobs` |
| `HubJobs` | the job scheduler, its queue, the worker's life, the dialogs | `hub_model.cpp`, `hub_main.cpp` | `HubJobs`, `HubJobsSelfLock` |
| `TitleInstall` | one title's folder and the jobs that rewrite it | `install.cpp`, `build.cpp`, `fs_util.cpp` | `TitleInstall` |
| `InstallRoots` | the title's folders under several install roots, moves, AppImage data | `install.cpp`, `hub_model.cpp`, `config.cpp` | `TitleInstall`, `KeepSavesKeeps` |
| `DataRoot` | where Retro's own folders are, and their migration | `data_root.cpp`, `data_root_migrate.cpp` | `MCDisk` |
| `VersionStores` | version directories of runner, netplay module, core, hub | `runtime_update.cpp`, `netplay_module.cpp`, `hub_update.cpp` | `MCDisk`, `NeverOverInUse` |
| `CatalogSync` | the catalog cache and its sync | `catalog_sync.cpp` | `MCDisk` |
| `HttpResume` | a download that resumes a part | `http.cpp` | `MCDisk` |
| `RommFetch` | the availability scan and the fetch of ROMs and firmware | `romm_fetch.cpp`, `hub_model.cpp` | `MCDisk` |
| `SteamShortcuts` | a title's entries among Steam's games, and Steam's own list | `steam_shortcut.cpp`, `hub_model.cpp`, `hub_main.cpp` | `MCDisk` |
| `BiosIndex` | which BIOS image serves which title | `bios_index.cpp`, `hub_model.cpp`, `main.cpp` | `MCDisk` |
| `HubConfig` | `config.json` and all its writers, first-run wizard, hard reset | `config.cpp`, `hub_main.cpp`, `hub_model.cpp`, `main.cpp` | `MCDisk` |
| `SelfUpdate` | the scripts that replace, restart and remove the launcher | `self_update.cpp` | `MCSessions` |
| `PakRoom` | a Transfer Pak lobby: who holds whose save | `hub_netplay.cpp`, `netplay_client.cpp` | `MCSessions` |
| `LobbySession` | connection, seat, sign-in and reconnect of one hub | `hub_netplay.cpp`, `netplay_client.cpp` | `MCSessions`, `LobbyUnseats` |
| `HostRelay` | the host's UDP port, its forwarding and the guest's probe | `hub_netplay.cpp`, `netplay_nat.cpp` | `MCSessions` |
| `LanBrowser` | rooms on the local network, Direct IP look-up | `netplay_lan.cpp` | `MCSessions` |
| `LibraryIndex` | which dump is which title's ROM | `library_index.cpp`, `romscan.cpp`, `hub_model.cpp` | `MCLibrary` |
| `SaveSync` | the saves of one title between game, library and RomM | `romm_saves.cpp`, `hub_model.cpp` | `MCLibrary`, `SavesOutliveUpdates` |
| `BuildPipeline` | local builds, shared engines and SDKs, pruning | `build.cpp`, `cache_gc.cpp`, `install.cpp` | `MCLibrary` |
| `PlaySession` | a game in the hub's window beside its runner | `hub_play.cpp`, `hub_states.cpp`, `hub_main.cpp` | `MCPlay` |
| `TitleChoices` | what the player chose for a title and what its game finds | `launch.cpp`, `hub_model.cpp`, `texture_packs.cpp`, `platform/` | `MCPlay`, `ShownDiscBoots` |
| `Mods` | the selection and options of a mod package | `mods.cpp`, `hub_main.cpp` | `MCPlay` |
| `CoreSettings` | the settings page of a core and its files | `hub_core_settings.cpp`, `hub_main.cpp` | `MCPlay` |
| `*_proofs` | theorems (section 9) | | |
| `MC*` | the instances TLC checks | | |

`PROJECT.json` lists components, runs, mutants, the line map, findings, hazards and
theorems.

## 1. Inventory

State, operations, neighbours, what is hard, and what makes it correct; the section that
describes the model in parentheses.

**Job scheduler of the hub** (`hub/hub_model.*`, the loop of `hub/hub_main.cpp`; 3). State:
the atomics `job_running`, `request_exit`; `job_queue` under the mutex `mu`; the plain
fields `job`, `job_title_id`, `job_platform_filter`, `job_apps_dir`,
`scans_platform_filter`, `pending_scan_missing_rom_id`; the open dialogs. Operations:
`start_job`, `enqueue_hub_job`, `start_next_queued_job`, `queue_all_updates`,
`begin_install`, `begin_move_install`, `confirm_install_root_and_continue`, the worker
lambda. Hard: the UI thread and the worker share plain fields; a job ends in two stores.
Correct: one job at a time, none lost, none twice, each with the options its click chose.

**Install engine** (`install/install.cpp`; 4). State: `releases/`, the link `current`,
`install.json`, `.staging`, `preserved/`. Operations: `install_title`, `update_title`,
`uninstall_title`, `stash_user_state_for_update`, `restore_user_state`,
`promote_staging_to_release`, `prune_old_release_dirs`, `cleanup_old_release_dirs`,
`inspect_install` (which also writes). Hard: multi-step updates of a directory tree without
transactions; crashes; names (`.new`, `.old-*`, `.build-staging`) that later looks see too.
Correct: saves are never lost; a title that runs keeps running; the three places that say
which release is current agree. Around that, `install_roots`, the folders the title has
under them, `appdata/` of an AppImage and `move_title_install`: a move copies and removes
piece by piece, and every other job works in the folder it finds. Correct: wherever the
folder is, or half is, the saves are in one that the next job finds.

**Build engine and shared caches** (`build/build.cpp`, `build/cache_gc.cpp`; 7). State: a
title's source tree with marker, generated C and stamps; the C cache; engine trees and
SDK slots that titles share. Hard: a build that dies in the middle of a sync, a harvest or
a generation leaves a mixture that the next one may take for whole; a pruning pass runs
beside builds. Correct: a build is made of one release, one engine, one set of tools.

**Data root and migration** (`paths/`; 5). State: config and data trees, three kinds of
pointer, links into the data tree. Hard: failures between the two moves; merges over an
older tree; two programs that migrate. Correct: what the user had is on disk somewhere,
and a change that reports success is what the next start finds.

**Self update, runtime update** (`update/`, `hub/hub_update.cpp`; 5, 6). State: the
launcher, what a script puts aside, a ready marker; per part a directory of versions.
Hard: a script that outlives the hub, is retried against locked files, or is killed; an
update beside a session. Correct: at every point there is a launcher; a start never picks
an older release than before.

**Catalog and sync** (`catalog/`; 5), **HTTP client** (`install/http.cpp`; 5): staged
replacement and resumed parts; correct: a state file never claims what is not there, a
finished file is whole and of one revision.

**Library, ROM and BIOS scans** (`library/`, `romscan/`; 7, and 5 for BIOS): two index
files that jobs and the UI thread load, change and save whole. Correct: a title is bound
to a dump, and to an image, that suits it.

**Steam shortcuts** (`steam/steam_shortcut.cpp`; 5): a binary list a profile that Steam
reads when it starts and writes when it exits, and a worker that rewrites it. Hard: the
player edits the same list, two titles may share a name, the list may be cut short.
Correct: one entry a title, and no title's entry is another's to take or to drop.

**RomM** (`romm/`; 5, 7): saves promoted, chosen, bound and synced, newest wins; a scan
of availability. Hard: several copies under several names and time stamps, a link in the
install that updates turn into a file, a server that stops answering. Correct: the newest
progress is in the save the title uses; a search that fails forgets nothing.

**Netplay** (`netplay/`, `hub/hub_netplay.cpp`; 6): a worker that owns a socket, commands
queued by the UI, a snapshot copied each frame; a router, a LAN worker, a sign-in thread.
Hard: the page acts on copies; connections are replaced; packets are lost. Correct: a seat
is asked for in a room of the game that was prepared; the host holds the saves the match
starts with; the port is the runner's when the match runs; a look-up settles.

**Play session and launch** (`hub/hub_play.cpp`, `launch/launch.cpp`; 8): the frame loop
beside a runner process; states, replays; the files a launch stages. Correct: requests
end, a match is not paused, nothing is lost unasked, the game starts with what was chosen.

**Mods, texture packs** (`core/`; 8), **per-platform settings** (`hub_core_settings.cpp`;
8), **configuration** (`core/config.cpp`; 5): files with several writers. Correct: an edit
of one thing leaves the others, a page that says "saved" is.

**Not modelled** - portable launcher for Windows, drawing, box art, overlay, microphone,
device input, picture upload, tool environment: file formats, platform code and
presentation. Hashes and core titles: pure functions of file contents, opaque values here.
Romhacks: one patch applied to a copy. Prompts and the prefetch thread of the hub: what
they leave in shared state is their own flag. Chat and friends: lists that are shown.
Android's installer: the system's.

How they interact: the UI thread calls `HubModel`; `HubModel` runs one engine call per
job on the worker and one launch at a time on the launch worker; engines know nothing of
the hub and talk through the file system; the hub looks at the file system through
`inspect_install`, which repairs what it finds. Hence the modules meet at two places:
the slot of `HubJobs`, refined from `JobService`, which says that two jobs never run at
once, so that the modules of engines may assume it; and files, where each module holds
all writers of its own files: the UI thread, the workers, the game, the command line.

## 2. Plan and what is left

Done: the modules of the table, their runs, and proofs about every one of them.

Left, in the order of what it would add:

1. An abstract "install cell" (one release, the newest saves) that `TitleInstall` refines
   on undisturbed histories; `SavesFollow` and `OneStory`, which are proved, are its safety
   half.
2. What does hold of a store of `VersionStores` that two updaters are at work on at once,
   and from when on a store that was raced for can be relied on again: now that is the
   next update which begins alone.
3. Jobs inside one folder and moves between folders step by step in one behaviour. Now a
   job inside a folder is one step of `InstallRoots`, which is what the slot of `HubJobs`
   allows: the hub runs one job at a time. The game and the command line are beside it in
   either module.

## 3. The job scheduler: `HubJobs`

### State and actions

The variables carry the names of the fields they model. `worker` is the worker thread:
where it is (`start`, `root`: before it takes the install root, `body`, `wedged`,
`finish`, `none`) and what it has read; `leaving` is a thread that has stored
`job_running = false` and has not yet stored `job = None`; `ui` is where the main loop is.
A frame is `poll` (events and exit test), `drain` (start a queued job) and `draw` (any
number of clicks). `start_job` is two steps, because a click is two critical sections: it
looks at the slot (`StartJob`), and then either queues under the lock (`Enqueue`) or
joins the previous thread and spawns (`Spawn`). The worker may take steps between all of
these.

Job kinds that the scheduler treats alike are one kind: `Update` stands also for
`GenerateRebuild`, `Install` for the three install jobs, `ScanRoms` for `FullScanRoms`,
`PurgeMissingFiles` for the other scans, `Uninstall` for the jobs that are refused while
another runs, `SelfUpdate` for those of them that end the process. A job's body is its
reads and writes of shared fields and a nondeterministic outcome. `InstallOrPrompt` is a
choice: whether a verified ROM is there is the library's matter.

Left out: prefetch, launch and Steam threads (they do not touch the slot or the queue),
the catalog prefetch option of a scan, status text and log.

`chosen` is a history variable: the root the user was shown and confirmed for a title.

### Runs

Two titles on two platforms, two roots of which one or both are configured. Three
clicks are needed for one job running, one waiting and one being asked for; two titles
for a root chosen for one to be taken by the other.

| run | question | answer |
|---|---|---|
| `HubJobs` | `TagNamesWorker`, `SlotIsHeld`, the refinement `ImplementsService`; `QueueDrains`, `ExitFollowsRestart` under fairness; 1.1 million states | hold |
| `HubJobsSelfLock` | does no thread lock `mu` twice? | no |

`TypeOK` and `QueueDistinct` (no request waits twice) are not among the run's properties:
they are proved, and the refinement breaks with the second, since the service's `waiting`
is a set.

`SlotIsHeld` and `TagNamesWorker` are the two that a reader of the code would want to
argue about: the end of a job is two unsynchronised stores, and a new job may claim the
slot between them. They hold because `start_job` joins the old *thread*, not only its
job; a mutant that joins too early breaks them.

Fairness is `WF(UiStep)` and `WF(WorkerStep)`: the main loop is a loop that polls and
draws, and a job's body ends (downloads have time-outs, builds are processes that end).
Nothing makes the user click or close the window. `QueueDrains` and `ExitFollowsRestart`
are stated under `[]NoSelfLock`: the one path that loses the mutex for good is a finding
of its own and would otherwise hide every other cause.

A stopped hub (exited, or its bound of clicks used up and idle) has no step of interest,
so deadlock is not checked; that a queue is never stuck is `QueueDrains`.

### Finding

- **Self-lock.** An Install whose build fails when the ROM has gone calls `set_status`
  inside the block that holds `mu`, and `set_status` locks `mu`.

Three more weaknesses of the same code are visible in the module and are kept as hazards
or here, without a run of their own, because no sentence of the repository promises the
contrary. `job_apps_dir` is one field, written by every dialog and queued request and read
by the worker after the ROM stage: choose a root for A, and while A's ROM is looked for,
open Install for B, and A installs in the default root. `SelfUpdate` sets `request_exit`
and frees the slot while a frame is past its exit test, so that the drain may start the
next queued job, which is then killed. The missing-ROM title is taken by whichever scan
ends next, also by one of another platform.

### Proofs

`HubJobs_proofs` proves, for any titles, platforms, roots and number of clicks, from
`HubAssumption` (the sentinels are not among the values, the platform of each title is
given) and `NoJobAssumption`:

- `TypeCorrect`: `Spec => []TypeOK`;
- `Invariant`: `Spec => []IInv`, and from it `QueueCorrect`, `TagCorrect`, `SlotCorrect`;
- `Refinement`: `Spec => ImplementsService`.

`IInv` adds to the checked invariants what they need to be inductive. `ItemShapes`: a
title item has no platform filter, or two items that the queue tells apart could have one
tag. `JoinFilter`: a scan about to be spawned was asked for over the filter now in force,
or the tag written at spawn would differ from the item served. `LeavingIsIdle`: a thread
that has cleared `job_running` works on nothing, and nobody works while the UI thread
joins; without it a late `job = None` could meet a new tag.

The refinement maps `waiting` to the tags in the queue and `current` to the item that
holds the slot. Each action is one step of the service or a stutter: `StartJob` on a free
slot is `BeginNow`, `Enqueue` is `Accept` or a stutter when covered, `StartNext` is
`BeginWaiting` (here `QueueDistinct` is what makes removing one item remove its tag),
`ClearRunning` is `Finish`. `LEMMA StepIsHidden` carries the many stutters.

Liveness stays with TLC.

## 4. A title's folders: `TitleInstall` and `InstallRoots`

### One folder

`rel` says what each directory of `releases/` holds: the launch binary or not (`has`), and
the version of the player's files. A directory is named by its tag and its kind: `live`,
`new`, `staged` (`.build-staging`) or `old1`/`old2` (`.old-<suffix>`; suffixes are unique
and unordered, so the first free one stands for any, and two bound how many are left
aside). `staging` is `.staging` for a
package and `src/` for a build. A file is its version: 0 none, 1 what a package ships
(`Shipped` is 0 where packages ship no settings; a build ships none), and each Play writes
a newer one.

Two classes of file are told apart because the code treats them differently: `config` is
`saves/`, `states/` and the settings files, `card` is what only a title's save globs name.

Each job is a sequence of steps in the order of the code. `Inspect` is part of every step
that looks, since a look heals `install.json` and `current`; the UI thread's look is two
steps (`UiLook`, `UiHeal`) with the worker in between. `Crash` ends a job anywhere;
`Fail` is a file operation that fails, of which the code's error path is taken, or a
release that comes without its launch binary. Both are bounded by `MaxFaults`, plays by
`MaxPlays`. A copy that fails leaves any part of the tree (`PartsOf`).

Which of two equally scored releases is picked depends on modification times: a choice.
The order in which a stash sweeps the directories is the file system's: a choice.

Abstractions: an update to the tag that is already there, which the code skips, is a
`FetchFails` that changes nothing; the hub's platform defaults and canonical save names
after an install are formatting of files that `config` stands for; a rename includes its
copy fallback, and fails only if both do; the stash of one directory, the removal of one
directory and a look are single steps. One install root and no AppImage: `InstallRoots`
has these.

### Several folders

`homes[r]` is the title's folder under root `r`: what is installed (a zip, a local build,
an AppImage), its tag, and the save that is under `releases/`, under `appdata/` and in
`preserved/`, each a version. `rootList` and `rootDefault` are the settings; `Scanned`,
`Preferred` and `Picked` are `scan_install_roots`, the preferred root and
`inspect_install_any` with its order (`Better`). `request` is the dialog's job with the root
chosen for it, `mv` the job at work. Within a device a move is a rename (`Rename`);
across devices it is `CopyBegins`, `CopyPiece` for each piece, `CopyDone`, `ClearPiece` and
`ClearEnds`, may fail and be tried again once (`CopyFails`) and be cut off by a crash
anywhere. An install goes on from its move to `ClearGame` (what is in the way is
"cleared" with keep-saves) and `Place`. Beside these: updates in the folder found, the
command line's install in the preferred root, removal with and without saves, orphans
of a title that has left the catalog, delete-all, changes of the roots.

What happens inside one folder (`Update`, `Uninstall`, `Place`) is one step, since
`TitleInstall` has its steps and the hub runs one job at a time. A request waits only while
no job is at work: how jobs queue is `HubJobs`. A Play saves once. The command line installs
only while the hub's job is idle.

Two histories: `owed` is the save the player may count on. A Play outside a move raises it;
a job that is meant to drop saves, or one the code does not promise to carry them
through, lowers it to what is left. What the game saves *during* a move into a folder that
is half copied is not promised (Play is free meanwhile, `hub_main.cpp:4384`,
and what it saves into a piece already copied goes with the source). `tidy` says that no
move was cut off, no second copy was left beside the first, and no root that holds the
folder was taken off the list.

### Runs

One packaged release `v1` and one local build `b2`: enough for updates between them,
rebuilds of one tag, both scoring rules, and leftovers of either.

| run | question | answer |
|---|---|---|
| `TitleInstall` | one folder, `played`: `SavesFollow`, `OneStory`; three plays, no faults, the UI thread looking. One folder, `hurt`: `StaysPlayable`; two crashes, failed operations or releases without their binary, a look of the UI thread written before the next job begins. Several folders, `roots`: `SavesMoveAlong`; one fault, one edit of roots or catalog, two saves. 1.3 million states together | hold |
| `KeepSavesKeeps` | does a removal that keeps saves keep those that are owed? | no |

`MCTitleInstall` runs one of the three (`scope`); what the scope is not about stands still,
as in the grouped runs below. Two roots, the second one the default; builds and AppImages,
which are the two ways of keeping saves. One fault is what cuts a move off; one more job
takes it up.

`SavesMoveAlong` has two parts: the save that is owed is in some folder at every step,
through every failure and crash; and in a tidy history there is, between jobs, one
folder, every job finds it, and an installed game reads what is owed.

`SavesFollow` has two parts: the newest saves are on disk through every job
(`NewestSaveKept`), and between jobs the game finds them where it runs, never a package's
defaults (`GameSeesNewest`).

Three plays tell the newest saves from those of two older releases and from a package's
defaults. Two faults let a crash be followed by a failure in the job that starts from what
the crash left.

The save properties are about undisturbed histories. `disturbed` records what takes a run
out of their scope, and each is a hazard of its own in `PROJECT.json` or named here: the
player plays during a job of the same title, a crash or failed operation, a package
without its binary, a look of the UI thread that went stale before it was written. `had`
restricts `StaysPlayable` to titles that ran from a release under its own name.

Two things that the properties leave out on purpose. An update stashes by a title's save
globs and restores without them: a memory card beside the binary stays in `preserved/`,
and the next uninstall that keeps saves starts by emptying `preserved/`; `SavesFollow`
speaks of the class of files that is restored. And an Install that fails after unpacking,
after an uninstall that kept saves, is followed by one that sees leftovers, "clears" them
with keep-saves, forgets the stash first and finds nothing to stash; a failed first
install is therefore outside `SavesFollow`. Both are listed as hazards.

### Finding

- **A kept save that is not kept** (`KeepSavesKeeps`). `install.hpp` and the README promise
  that an uninstall can keep the saves for a later reinstall. The stash of an uninstall
  sweeps `releases/` and `current` alone; an AppImage saves in `appdata/`, which then goes
  with the rest of the folder.

Two more weaknesses of the same kind show in `InstallRoots` and are the reason why `Owed`
has a premise. A second removal with keep-saves (an orphan cleaned up twice, leftovers
cleared before a reinstall) forgets the first stash, since it makes a new one from a
`releases/` that is empty. And a title that goes from an AppImage to a build keeps its
`appdata/`, which the next stash prefers over the newer saves of the build.

### Proofs

`TitleInstall_proofs` proves, for any set of releases and builds, any number of plays and
any number of crashes and failed operations, from `InstallAssumption`:

- `TypeCorrect`: `Spec => []TypeOK`;
- `Invariant`: `Spec => []IInv`, and from it `PlayableThroughout`: `Spec =>
  []StaysPlayable`.

`StaysPlayable` alone is not inductive: from a state with one runnable directory that
happens to be `.new`, the next promotion would delete it. `IInv` adds where the runnable
release is. `OldRuns`: until the new release moves in, one that runs sits at a tag, and
at `movein` one sits outside the two places which the move rewrites. `KeptRuns`: from
`set_current_symlink` to the end of the pruning, the release that is spared has its
binary - the code looks for it before it links (`Flip`), and that one check is what makes
it safe that `prune_old_release_dirs` never looks again. `PlacesTag`: what is placed has a
tag's own name, so `.new`, `.build-staging` and `.old-*` are other directories.
`ClearsIdle`: the folder is cleared only for titles that did not run. `AsideFree`: the
place is free when the new release moves in. `IInv` was checked
with TLC in both scopes of one folder before it was proved.

The argument goes by groups of actions, one lemma each for types and for `Safe`:
`StagingSafe` (no tag's directory is touched), `MoveAsideSafe` (moved, not removed),
`MoveInSafe` (whatever the failed move leaves, the old release is beside it), `PlacedSafe`
(only pruning removes, and it spares a release that runs).

- `SavesFollowThroughout`: `Spec => []SavesFollow`, and `OneStoryThroughout`:
  `Spec => []OneStory`, from one more invariant, `StoryInv`, and `NoneAssumption` (`None` is
  no name of a directory).

In an undisturbed run, `StoryInv` tells for every step of a job how far it has come.
Between jobs (`Told`) there is either an empty folder, no link, no record, and the newest
saves in `preserved/`, or exactly one release, under the name of its tag, linked and
recorded, with the newest saves in it. From the stash until the restore the newest saves
are in `preserved/` (`Saved`); from the restore on also in the release the job keeps
(`InPlace`), which by then has its binary, so that what is pruned may go. `UiMeans` says
that what a look of the UI thread is about to write is a record of a release it may pick.
The long part of the argument is the move into place, where the release of the same tag
stands aside for the new one. `StoryInv`, too, was checked with TLC before it was proved.

Of `InstallRoots`, from `RootsAssumption`, for any finite set of roots and any number of
saves, faults and edits:

- `RootsInvariant`: `InstallRootsSpec => []RootsInv`; from it `InstallRootsTyped` and
  `SavesMoveAlongThroughout`.

`RootsInv` is the types, `SaveSafe` and `TidyInv`. `SavesMoveAlong` alone is not
inductive: in the middle of a move it does not say *where* the save is, and `ClearPiece`
removes whatever it is at. `SaveSafe` does. While pieces are copied (`Carried`), some one
piece of the source has the owed save, and it is either still to be copied or already at
the target; a folder of a third root that has it is as good. When the source is being
removed, some other folder has it. `TidyInv` says of a tidy history that the folder is the
only one (`Sole`), that the target of a move is a mixture of source and nothing in exactly
the pieces that are done (`MoveTidy`), and that no request names a root that has since
been taken off the list. The steps that go wrong in the code are those that end `tidy` or
lower `owed`; the premises of `Owed` say where.

## 5. Files and what replaces them: the run `MCDisk`

Eight modules whose states have nothing in common: `MCDisk` chooses one in `Init`
(`engine`) and runs it while the others stand still, so one run explores each of them
whole; the state space is the sum of the eight, not their product. That is sound because
none of their actions reads another's files. It has 1.16 million states. Nothing here is
about something that must happen, so no fairness is stated; all of these may stop, so
deadlock is not checked.

**`DataRoot`.** `data[p]` and `config[p]` are what the two folders of a place hold, files
as versions; `pin`, `exeMarker`, `osPointer` the three pointers, in the precedence of
`resolve_data_root` (`Resolved`); `here` what the running hub resolved; `move` the
migration under way with its mode, source, target and asker. The actions are the steps of
`migrate_data_root`: one rename or file by file, the source dropped or left (`kept`), the
config folder, links (`RetargetLinks`), install roots (`RebaseInstalls`), the pointer, the
relaunch. `StepFails` and `Crash` come between any two. `mine[f]` is history: the version
the user last had in the root that ran. Bounds: one folder beside the default, with and
without a pinned root, two files, two migrations, two writes: a merge over an older tree
needs exactly that. `WorkSurvives` and `MoveFindsWork` hold. `WritePointer` may find a
marker beside the binary that cannot be removed (`stuck`): `write_data_root_pointer`
ignores that and reports success (`data_root.cpp:259-261`), and the old root goes on
outranking the new pointer, although `data_root.hpp:52` says "Persist `root` so the next
launch resolves it". `outranked` marks such a move. `MoveFindsWork` demands of every move
that reports success that every file and the settings are at the new place, also of a move
so marked; and of every change of the root that is not marked, that the next start
resolves the new place. What is left after a failed second move, with the pointer still at
the old place, is said nothing of but that the files survive (`WorkSurvives`). Folders
inside one another and unwritable targets are refused by the plan, so they are not asked
for; one process at a time.

**`VersionStores`.** A store (runner, netplay module; in Direct mode core and hub) has per
release a directory and a staging directory, each absent, a part or whole. An updater
goes from the manifest (`Newer`) through download,
extraction, probe, clearing, rename and pruning (`Kept`); a session keeps what it started
with; the app may stop anywhere, and so may a command. `Contract` gives a release the ABI
it speaks: a module that is too new is not a candidate.

Three updaters: the Update page (`DirectUpdates`, every store but the module: a section of
its own), the start-up check (`DirectRuntimeUpdate`, runner and module) and the command
line, a process of its own (the same two). Nothing in the code keeps them apart
(`hub_main.cpp:10847-10863`, `16351-16426`): each runs on a thread, or in a process, of its
own, and all of them clear, rename and prune in the same folder. Two that extract the same
release fill one staging directory; who clears it under another's extraction leaves a part
(`clearer`), which may pass the probe, since the probe starts only the binary.

`KeptInUse`: the release in use is touched only by pruning, when two newer are there, which
is what `runtime_update.cpp:324` says ("beside (never over) the runner in use"). For every
store that is `NeverOverInUse`, and the code breaks it:

Finding (`NeverOverInUse`): **the slower of two updates clears a release that runs.** The
start-up check and the page find the same newer release. The first moves it in, a session
starts from it, and the `remove_all(dest)` of the second takes it away.

What holds is of the stores that are not raced for. `raced` has the stores at which two
updaters were at work at once, or one while a developer's build was picked there, until an
update begins there alone again; everything an abandoned race left is then still on disk.
`LoneNeverOverInUse` says `KeptInUse` of the others. `ChoiceNeverDrops`: no step makes
`Resolve`, what the next start picks, older, in a store that is not raced for, for which
no developer's build stands, and as long as the runner asks for modules of the same ABI.
So races happen in the checked behaviours, and what they leave on disk stays; excepted is
only what happens in the raced store until the next lone update.

Bounds: two stores with different contracts, three releases (two to keep and one to prune).
`MCDisk` has three scopes of it: two updaters at the runner's store (page and start-up) or
at the module's (start-up and command), or one updater at each of the two.

**`CatalogSync`.** `Begin` to `WriteState` are the steps of `sync_catalog`, with the
backup, the rename and the copy it falls back to; `GiveUp` is every failure and a
crash. Releases are numbers; a zip's stamp may be absent, then the state file takes the
tag seen when the sync asked. `StateNeverAhead` is what makes the next check right.

**`HttpResume`.** A file is a sequence of blocks, each of a revision and a place; the
part left by an earlier call is resumed from its length; the server may ignore the range,
refuse it, break off, or serve another revision by now. `OneWholeFile`: a call that
reports success has each block in its place (not always of one revision: a part of an
older one is resumed, and the code has nothing to tell by).
Three blocks tell a beginning, a middle and an end; four calls allow two resumes and a
retry.

**`RommFetch`.** The scan asks the server title by title and builds `noted`, written
as `romm_roms.json` at the end; a fetch brings parts with several URLs each; firmware
the same. What the server has of a title is nothing, a name, or the digests. A search
lists the entries; the files of an entry come with it or by a request of their own (`told`).
A search that fails ends the scan, and nothing is saved; a request for the files of an
entry that fails only passes that entry over (`romm_fetch.cpp:388-389`), so that an
available title may be noted as missing. `SearchOutageKeepsMarks`: a failed search marks
nothing. A title turns from available to missing only when the server denied it in that
scan (`denied`), or listed it and did not tell its files (`untold`). The second is an
outage as well, and the comment at 571, "Abort on hard API failures so we don't wipe the
index", is kept for the search alone.

**`HubConfig`.** Five fields of `config.json` stand for five groups of settings with
different writers: the library page, the RomM page, titles, view, network. Writers save
the whole file from a copy, in place: every save cuts the file (`Opened`) and `CloseFile`
fills it; `WriteFails` leaves it cut. Meanwhile a worker may have read it and assigns
`hub.cfg` late (`WorkerReads`, `WorkerAssigns`), and the command line, a process of its
own, reads and writes it. The wizard, hard reset and restarts are here too. `book.due` is
what was last saved of each field, `book.loose` the fields for which a copy that was
behind has since been put in the file's or the memory's place: by a late assignment,
another process, a failed save, a cut file. `SavedIsKept`: for all other fields the file
says what was saved last. Which writers put what they saved into `hub.cfg`, and when
(`TakenOver`), is the content; in the mutant some forget to. What happens to a loose
field, a cut file read as defaults or a late assignment saved over the file, is in the
module and promised nowhere: a hazard without a property. The move of a chosen data root
is `DataRoot`'s; a page is saved only when edited, which is a bound.

**`SteamShortcuts`.** `vdf[p]` is the list of a profile: missing, cut short or whole, a
function over a few lines because where an entry stands carries no meaning; `steam` is
Steam with the profile logged in and its own copy, which it writes when it exits; `page`
and `ask` are the title page and its question, `sjob` the worker. The player adds, renames
and deletes entries in Steam; a list that cannot be opened just now reads as empty
(`blind`) and is saved over. `left` is history: what Retro did last for a title in a list,
until Steam writes that list or Retro reads it blind. `AsRetroLeftIt`: at most one entry a
title, and a list Retro saved last says of each title what Retro did last. Two titles of
one name, two profiles, three lines and three events: one title added, the other found by
name, and one mishap. Three more things show in the module and are promised nowhere: the
page may take for valid what it read before the worker saved (`RefreshReads`,
`Invalidates`, `RefreshEnds`); two titles of one name under one launcher share an app id
and so their art; and an unreadable list is replaced by one with a single entry, of which
the copy made once is the only remedy.

**`BiosIndex`.** `images` is the disk; `biosNow` the index in the hub's memory, `biosFile`
the one on disk, `biosUi` the copy that `refresh_rows` assembles on the UI thread and
assigns, `biosScan` the worker's scan with its own copy of the rows, `biosCli` the command
line's. A row keeps what was hashed; a scan takes a row over when the time stamp is
unchanged and the digests that are asked for are there, and merges by the folders it
walked. `BiosHeals`: after a full rebuild, and until an image changes, another process
saves or somebody puts back an index of before (`healed`), a title is bound only to images
that suit it, in memory and on disk. Two titles on two platforms, two paths under two
roots, two images, two changes and two scans: a dump that is replaced between the scans,
and a root that is left. Assignments of the index in memory are whole here; in the code
two threads assign it without a lock. What this shows beyond the property: a scan of one
platform drops the rows of the others (`bios_index.cpp:568`, the merge goes by the whole
root, although only one folder was walked); the UI thread may put back the index it loaded
before a rebuild, which is what `healed` excludes; rows of a BIOS folder that is no longer
configured stay until a rebuild. A scan without a BIOS folder is left out.

## 6. Talking to others: the run `MCSessions`

Five protocols, grouped as before; 360,000 states. An idle protocol is put in a state in
which nothing of it can happen, so that its fairness asks for nothing.

**`SelfUpdate`.** The hub stages an update (or is asked to relaunch or uninstall), starts
a script, on Windows shakes hands with it through a ready marker, and exits; the script
waits for the process and works on the launcher's own files. `dest` and `aside` are the
launcher and what is put aside: whole and old, whole and new, a part, or gone. Each
channel is its own sequence (AppImage, dmg, portable, setup). `CopyStub` may fail or
leave a part, `PutBack` restores, after `MaxTries` attempts (two stand for 40: one that
fails and one after it) it gives up; `Killed` ends the script anywhere.
`LauncherSurvives`: an AppImage is whole at every moment, a portable launcher is there or
aside. `ComesBack`: a hub that exits for an update sees its script end. Fairness: live
processes take steps (`ScriptStep`, `HubStep`, and the exit of a hub told to); nothing is
assumed of waits that expire and of kills.

**`PakRoom`.** Each player's hub sends its save through the server to everyone in the
room when the members it sees change; a launch gives each seat what the host holds of the
player in it. `mail` are the server's messages on their way, `signals` those the page
has not handled. Players come, leave, return with another save and change seats
(`MaxChanges` times, three: leave, return, move). `HostHoldsAll`: with nothing in flight
the host holds the save each member took for this room. `PlayOpens`: once people stop
moving, PLAY opens. Fairness: messages arrive and frames are drawn. The parts of a pak
are one message: the server keeps their order.

A pak may arrive damaged (`Damaged`, `hub_netplay.cpp:3119-3126`): the host drops it and
sends *its own* again, saying that the other's "will be sent again", but nobody asks the
other. `hurt` are those whose last pak came to the host so, until they send again. Of
them neither property says that the host has their save: only a damaged pak may hold PLAY
back for ever (`Missing(Host) \subseteq hurt`). Damage counts among `MaxChanges`.

**`LobbySession`.** `conn`, `epoch`, `out`, `inbox`, `room` are the client's worker and
its queues; `shown`, `called` what the page copied at the beginning of its frame. Clicks
join and leave, launch, sign in and out. Whatever calls `connect()` is an action: entering
the page, Retry, a saved server address, sign-out, a widened list (`Reconnect`), and at
the end of a frame a sign-in that ended out of a room and a room left that had narrowed
the list (`SignsIn`, `Widens`). A room whose game takes the match from the hub (`Handoff`)
is joined in two steps: `Join` prepares the game (`lib`) and holds the seat (`pending`),
`IdentityKnown` is the game's answer, and the next frame asks for the seat (`SendPending`,
`hub_netplay.cpp:2943-2945`), on whatever connection there is by then. `SeatsArePrepared`:
a seat is asked for only in a room of the game prepared at the time, and where the game
takes the match only after it answered; so a seat held for one game is not sent with the
answer of another, over frames, new connections and clicks between. The finding below is
about the same reconnect. Two rooms, one with a handoff and one without.

What was asked on one connection is not sent on the next, with one exception: that held
seat, which outlives `connect()`. `NoOldCommands` says so, and is proved and not a property
of a run.

**`HostRelay`.** Room, port, router, address and verdict. The host's hub opens a port, asks
the router for it and names the address; a launch stops that (it joins the thread that asks
the router, so it waits for the answer) and hands the port to the runner; a frame out of
the room takes the mapping back. A guest probes the host's address, and the result goes to
the room of the moment. `PortIsTheRunners`: the hub holds no port while the runner has one,
and opens none meanwhile.

**`LanBrowser`.** Answers and announcements may be lost; rooms expire; a Direct IP look-up
has a deadline that may pass before its answer comes. A look-up sends one packet to its
address (`netplay_lan.cpp:319-323`); the browse is broadcast every three seconds, to one
address and the ports 7777 to 7808 (314-318), and reaches only the rooms in `Near`.
`reached` says of the address asked last that it was open, and neither its packet nor the
answer got lost. `LookUpSettles`: when the user and the rooms come to rest, no look-up is
pending, and an open room that was looked up last is shown as found if the broadcast
reaches it or if it was reached. One that is far and whose one packet was lost stays "not
found": the code does not ask again. The other way round, a room that closed may still be
told of as found (`netplay_lan.cpp:265-270`; `netplay_lan.hpp:85` says "whether it was
answered"): any packet of a room at that address counts as the answer. Fairness: the
worker's loop turns, deadlines pass, and a near room, asked again and again, is heard at
some time (`SF` on `Beacon`: packets may be lost, not every one of them for ever).

Finding (`LobbyUnseats`): **a reconnect from a stale snapshot.** `hub_netplay.cpp:3206`
says "connect again as the account, but never out from under a seat"; the test reads the
copy of the snapshot made when the frame began, and the worker may have been seated
since.

## 7. The user's own files: the run `MCLibrary`

Three modules, grouped; 2.9 million states, no fairness needed.

**`LibraryIndex`.** `stored` is `library-index.json`: entries by path with digest, time
stamp and title, and bindings; `library` the field of that name, which the worker's jobs
and the UI thread share. A scan clears or loads the field (`BeginScan`), walks for
minutes, merges what it found into the field as it then is (`MergeScan`,
`hub_model.cpp:1858`) and saves it (`SaveScan`); meanwhile the UI thread may reload it
(`UiReloads`, 409), reload and clean it (`UiPurges`, 4271) and save it (`UiSaves`). A dump
that a quick scan does not hash keeps its old digest under its new size and time, which is
how an index comes to lie. Full rebuilds, quick scans, purges, catalog changes, downloads,
saves that fail or are cut short.

`RebuildHeals`: after a full rebuild no title is bound to a dump that is not its own until
a dump changes (`clean`). The rebuild has to be of a field that the UI thread leaves alone
from the clearing to the save (`whole`). One that is disturbed is merged over the old
index and keeps its bindings, although by `docs/ARCHITECTURE.md:94` it "ignores the cache
and rebuilds the index", and by `hub_main.cpp:3315` "from scratch"; nothing in the code
keeps the two threads apart. After the rebuild, the UI thread may do as it likes. Two
threads that assign one field without a lock may also tear it, and a scan may throw after
it cleared the field: neither is modelled. Two titles share an identity and a third needs
a cue sheet on another platform.

**`SaveSync`.** A save is a file of a name, a version and a time. The library holds files
named after the ROM, after the title, the slot and numbered siblings; the install has the
slot: a link, a hard link or a real file; RomM has uploads, with the upload's time. Play,
promotion, choice, binding, updates and uninstalls, sync in its steps, import, rename,
delete. Copies may fail half-way. `ProgressKept`: the newest progress is in the save the
title uses, until the user deletes it, in a story without `noise`: a second save of the
title, a sync that overlaps a game, another device, or a rename that leaves something
behind. Nothing follows a rename but the title's choice. The slot's link, the copy in
`preserved/` and the upload keep the old name or the old content (`LeftBehind`), and the
proof found what comes of it, which TLC then showed with four chores: an update after the
rename finds no save in the slot and restores the older copy with a new time, and the
next promotion writes it over the newest; and a rename to a name that has a later upload
lets the next sync download that one. Windows' slots made by hard link or copy are in the
module (`Bridges`) and not in the checked instance, which is the one with symlinks: with a
copied slot a scan whose copy fails cuts the only other copy.

Finding (`SavesOutliveUpdates`): **an update against a title's second save.** README.md:95
promises that saves are preserved across updates. An update puts the slot, a link to the
chosen save, back as a real file with a new time; the next promotion takes it for new
progress and writes it over the save named after the ROM. The trace: play, New save, start
and leave the game, update, start again; the first save is gone. One chore before the
update and the update itself are all it needs (`MaxChores = 2`, `MaxNoise = 1`, and
`LateUpdates`, a bound that keeps updates after noise out of `MCLibrary`, where they would
only add states of which `ProgressKept` says nothing).

**`BuildPipeline`.** `src[t]`: whose files the tree has (a set: more than one is a
mixture), its marker, its generated C, stamp and engine link; `cgcache`, `eng`, `sdk`,
`pack`, `obj`, `rel`, `rec` likewise. The phases of a build are those of `build_title`; a
build may fail or die at every one, and pruning (`GcLooks`, `GcRemoves`) runs beside it,
looking first and removing later. Two titles with two releases each: one of either shares
an SDK slot (`SlotOf`: the tag as text) and an engine directory with one of the other
under another engine commit, the other two are of one commit and share its directory
alone; three builds, one fault, one crash. `OneRelease`: an installed build was made of
the files of one release. `BiosFitsRuntime`: in the build of a release whose slot and
directory no release of another engine has (`Unshared`), the BIOS code was written by the
emitters of the engine it is linked against, whatever the builds of the others do
meanwhile. Of the others nothing is said: emitters live in `sdks/<id>/<tag>`, keyed by the
*game's* release tag, and `cached_sdk_complete` (`build/build.cpp:4422-4446`) asks only
whether the files are there, so two ports that release under one tag from different engine
commits share emitters, which is what the comment at 1140-1147 set out to prevent.
Compilers and generators are external; adoption of the older `src/<tag>` layout, the
private copy when a link cannot be made, cmake's stamps and wipes, the clean-up of whole
engines and of packs, and recipes without a build are left out.

## 8. Playing: the run `MCPlay`

Four modules, grouped; 700,000 states. Fairness is stated for the game alone.

**`PlaySession`.** `turn` is where the main thread is in its loop, in the order of
`hub_play` (events, start, tick, pads, replays, states, grant, ask, look, decide, draw);
`link` is what the hub knows of the runner and `wire` what the runner did since it was
last heard. Menu, states browser with its requests, replays with their cards, turbo,
`--play` from the command line, the launch worker. `RequestSettles`: a save or load that
was asked ends, whatever becomes of the runner. `AskedFirst`: no state or replay is lost
unless the player was asked about that one. `MatchRunsOn`: a match is granted frames with
the menu open. Fairness: the loop turns, the runner answers or ends (`WF(RunnerAnswers)`:
a runner that neither answers nor ends would stop the hub as well), the launch worker
ends. A game the command line asked for gets three clicks instead of five
(`MaxAskedClicks`); it has no browser to be clicked through first. The proof of the types
found a frame that this bound hid: a replay is started (`hub_play.cpp:745`) after the tick
of the same turn has worked out turbo (621), so that, with turbo held, one frame is drawn
with the screen's sync still off while the runner is starting anew; the next tick puts it
right. It takes six clicks. `PlayTypeOK` names that one frame (`Replaying`), and holds at
seven clicks too (1.6 million states). Audio pacing, the microphone, the input guard, the
older menu and the direct loop are left out.

**`TitleChoices`.** `choice` is `state.json`'s memory; `toml`, `seed`, `bcfg`, `sidecar`
and `packs` are the files the game reads; `page` what the window shows; `lw` the launch
worker, whose steps are those of `launch_title`, or, for the match of a room (`EnterRoom`,
`MatchStarts`), the window's own thread. A write in place that fails leaves the old
file or an empty one (`Wrote`). Images may be gone from where the index has them (`gone`):
Play then takes the boot disc. `StartsAsChosen`: no game starts beside a `disc.cfg` or
`rom.cfg` of another disc than Play or its room had chosen, unless it boots directly. One
case is excepted, and named in the property: outside the default mode a cartridge whose
`rom.cfg` could not be written goes on with the one there is (`launch.cpp:1297-1299`). Left
out: `launch --mode direct` of another process, and the questions a room asks a game by
starting it. One title;
saves are `SaveSync`'s; global settings are assumed present.

Finding (`ShownDiscBoots`): **the disc shown is not the disc booted.** `hub_model.cpp:657`
says that what the install is set to wins; the row shows that disc, but Play takes the
remembered one.

**`Mods`.** One package with several features in the two layouts. `pen` is the write under
way with what was read. `EditIsLocal`: a change to one feature leaves the others running
or not as they did, although a block that did not exist now decides what the manifest
decided. Builtin packages, which cannot be edited, are skipped.

**`CoreSettings`.** Six layers, each one number; `edited` is on screen, `saved` is what the
page takes for saved, `ini` what is in the files. Changes of scope, section and page,
bindings with cancel, the controllers' own saves, a game that writes the preferences.
`CleanMeansSaved`: a page without unsaved changes shows what is on disk. After a
failed save, or a game that wrote behind an open page, the page cannot tell (`torn`).

## 9. Proofs beyond 3 and 4

All are safety properties of a component's own specification, for any values of its
constants under the named assumptions. Each module of proofs holds those of the
components of one run (`Disk_proofs` builds on `Content_proofs`, where the four engines with
the longest proofs are).

**Types.** `TypeOK` of each component is proved, and from those the type invariant of each
grouped run: `DiskTyped`, `SessionsTyped`, `LibraryTyped`, `PlaysTyped`. The composition
keeps the invariants of all of a run's components together (`EnginesInv`, `SessionsInv`,
`PlaysInv`): a step is one of the chosen engine, which keeps its own, and stutters for the
others. Some of these types say more than what a variable may be, and needed an invariant
of their own: that a part never grows past the file (`HttpResume`, from `ResumeInv`), that
no file is asked for more often than it has URLs (`RommFetch`), that a page is not open
beside the wizard (`PagesApart`), that a `PakRoom` that was not chosen stays empty
(`EmptyPakRoom`; it has no seats to speak of), that a runner at work on a state works for
a request that was sent.


**Assumptions.** What a proof needs of the constants is an `ASSUME` in the module that
declares them, and TLC evaluates it on the run: bounds are numbers, sentinels are not
among the values they stand beside, sets over which something is counted are finite
(`SaveSyncAssumption`, `CoreSettingsAssumption`, `ChoicesAssumption`,
`SelfUpdateAssumption`, `HubConfigAssumption`, `RootsAssumption` and so on). None says
anything of the program that the section of its module does not name, and but for
`ProgressKeptThroughout` (symbolic links) no theorem has a premise besides.

**Safety.**

- `Disk_proofs`: for `CatalogSync`, `Published` says that no release is known before it is
  out and `MovesOn` that what a sync puts in place is at least what the state file names,
  so that `StateNeverAhead` survives the step that writes that file. For `HttpResume`,
  `ResumeInv` says that every block on disk is in its place and that the block the server
  sends next is the one the part lacks; `OneWholeFile` is its last line. For `DataRoot`,
  `SurvivalInv` adds to `WorkSurvives` that what the running root has of a file is the
  user's (`HereIsMine`: a copy over an older tree writes nothing older) and that a file
  already copied is at the target (`Underway`: dropping the source loses nothing).
  `CarriesInv` adds what a moving migration has brought along at each step (`Carries`) and
  that a finished one is what the next start resolves (`PointsThere`), which gives
  `MoveFindsWork`: the pointer is found unless `outranked` says why not. For
  `VersionStores`, for any number of updaters: two at work at one store are noted in
  `raced` (`RacesNoted`), nothing in a store is newer than what is published
  (`NothingNewer`), and of an updater that is alone (`AloneSafe`): until the new release
  is in place, its place holds nothing a start could pick (`PlaceIsFree`), and what is
  moved in is whole and the newest there, so that pruning leaves it (`Staged`). The step
  that matters is the one that ends a race: an update that begins alone finds what the
  race left, and both are shown of it anew, from what the updater's check saw
  (`OfferedIsNotThere`). Hence `LoneNeverOverInUse` and `ChoiceNeverDrops`.
- `Content_proofs`, availability: `MarksInv` adds that the index under construction says
  "missing" only where the server denied the title or did not tell the files of its entry
  (`NotedAnswered`).
- `Play_proofs`, mod packages: `ModsInv` adds that while only the hub wrote, what it has
  read is what the file holds and what its page shows (`AloneIsFresh`); the property,
  about one step, follows from it layout by layout.
- `Content_proofs`, BIOS images: `BiosInv` says what a full rebuild leaves: a row agrees
  with the disk or is empty (`Agree`), a bind is one its row earns (`Earned`), for file,
  memory, the scan under way and the UI thread's copy, as long as `healed` holds. A
  filtered scan needs no more: what it drops makes no bind wrong.
- `Content_proofs`, Steam: `SteamInv` carries `OneEach` and what was left (`Keeps`) from the
  files to Steam's copy and to the worker's list, in which the title at hand is already as
  it will be and the others are as they were left, unless the list was read blind. That
  no two entries come to belong to one title rests on the search order: an unclaimed
  entry of the name is taken only when no entry has the stamp (`EntryPut`).
- `Play_proofs`, the settings page: `CoreSettingsInv` is the property with the dirt taken
  out: `Matches` says that what the page takes for *saved* is in the files, layer by
  layer, dirty or not, and `GlobalIsPrefs` that the page of preferences alone has only
  those. The launch: `SeedIsMeant` says that from the seed to the spawn the file names
  what the launch read, save for a cartridge, which boots by argument or, in a match, with
  a stale file, and a disc that a running game turned since; `StartsAsChosen`, about the
  spawn, follows. The menu over a game: `OneRequest` says that a runner still at work on a
  state works for the browser's one request, and `AgreedSlot` that a save which may still
  be written goes to an empty slot or to one the player agreed to lose; `AskedFirst`,
  about one step, needs both, because the slot is overwritten by the runner, frames after
  the question.
- `Sessions_proofs`: `SurvivesInv` adds to `LauncherSurvives` that the script does what
  was asked (`DoesWhatWasAsked`) and that a portable update finds a launcher to put aside
  before its first attempt and keeps one of the two places filled (`SomethingToReplace`).
  `SeatsArePrepared` rests on `HeldIsPrepared`: a seat held is of the game prepared last,
  and is of a room whose game was asked. `NoOldCommands`, proved beside it, says that at
  most one command in the queue is of an older connection, and that it is such a seat.
  `PortIsTheRunners` is inductive alone.
- `Sessions_proofs`, the paks: `HostHoldsAll` speaks of the moment when nothing is in
  flight; `PakInv` says what holds before. A page that took a pak has sent it and holds it
  (`Sent`); who has a seat has either heard of it or the news is the first thing in his
  mail and his page is empty (`Heard`), which is why a player who left and comes back
  sends again; and the last pak of a player on its way to the host, in the mail, else
  among the signals, else on the page, is the one he took (`Arrives`). It needs that seats
  are numbers.
- `Library_proofs`, the index: `LiInv` adds to the types (`LiTyped`: a file stamped with a
  title is bound to it) `WholeReads`, that a rebuild which was left alone merges into an
  empty index what the dumps now are, and `CleanTells`, what the `clean` flag says of the
  stored index, of the field and of a walk under way. `RebuildHeals` follows, for any
  titles, dumps and paths.
- `Library_proofs`, builds: `OneReleaseHolds` rests on `RelInv`: a marker names the one
  release whose files the tree has (`MarkerTells`), the record is never ahead of the
  folder (`RecordBehind`), a staging that may be promoted is whole (`StagedWhole`), and
  what each phase of a build relies on is still so (`JobTells`). `BiosInv` says that a
  stamp tells who wrote the C beside it, that the cache holds what its key says, and what
  a build in progress knows of both. `FitsInv` goes on to the engine: a link leads to the
  engine of the commit it names (`LinkTells`), a slot of emitters is of one commit
  (`SlotTells`).
- `BiosFitsHolds` has no premise: the engines that a release shares its slot or directory
  with are in the property (`Unshared`), which is of one release and not of all. `LinkTells`
  and `SlotTells` say their part of the unshared ones alone, and the proof adds that the
  builds and the pruning of the others leave their slots and directories as they are.
- `User_proofs`, the saves of a title: `ProgressKeptThroughout` states `ProgressKept` for
  slots that are symbolic links (`Bridges \subseteq {"link"}`). `SavesInv` speaks of stories
  without noise. The newest progress is in the chosen save (`ChoiceIsNewest`); the slot
  leads to that save, or, when it was put back by an update, holds the same; what is in
  `preserved/` is the same or not what the next update restores (`SlotFollows`); no upload
  of other content is later than the save, neither now nor in the listing of a sync under
  way, whose time of the save is the save's own (`RemoteFollows`); and a game that runs
  writes the chosen save while nothing else is under way (`Playing`). Then a promotion has
  nothing to write over the save and a sync no reason to download over it (`DownloadIs`).
- `Content_proofs`, `config.json`: `ConfigInv` adds `MemoryUpToDate`: outside a save,
  `hub.cfg` has what was last saved of every field that is not loose, and a save under way
  has it too; the command line's and the worker's copies are allowed to be behind, since
  their assignments make the fields loose.

Only model-checked: everything about liveness (`QueueDrains`, `ExitFollowsRestart`,
`ComesBack`, `PlayOpens`, `LookUpSettles`, `RequestSettles`, `MatchRunsOn`), which is out of
the prover's reach. Every other property of a passing run is stated by a theorem. The
properties of the runs that expect a violation are the findings.

## 10. Reading the checks

Every property of a passing run has a mutant in `PROJECT.json`: a definition with one
plausible bug (a forgotten guard, a swapped order, a first-wins copy) under which TLC
finds the property violated. Mutated forms sit beside what they mutate and are marked.

To repeat: `tlc -config HubJobs.cfg MCHubJobs.tla`, `tlc -config MCDisk.cfg MCDisk.tla`,
and so on for each run of `PROJECT.json` (a run that expects a violation names the module
it runs); `tlapm HubJobs_proofs.tla`, and so for each `*_proofs.tla`.
