---------------------------- MODULE TitleInstall ----------------------------
(***************************************************************************)
(* One title's install folder, apps/<title>, and the jobs that rewrite it  *)
(* (src/install/install.cpp, the staging end of src/build/build.cpp).      *)
(*                                                                         *)
(* On disk: releases/<name>, the link current, install.json, .staging and  *)
(* preserved/.  A release directory is called by its tag ("live"), or is   *)
(* its .build-staging, .new or .old-<suffix> sibling.  Every look at the   *)
(* folder (inspect_install) also heals it: it picks the best release that  *)
(* has a launch binary and rewrites install.json and current to match.     *)
(*                                                                         *)
(* One thread runs jobs; the UI thread looks too (refresh_rows), and Play  *)
(* is never greyed out.  The process may die between any two steps.        *)
(*                                                                         *)
(* The player's files are of two classes: "config" stands for saves/,      *)
(* states/ and the settings files, which packages also ship; "card" for    *)
(* what only the title's save globs name.  A file is its version: 0 is no  *)
(* file, 1 what the package ships, and each Play writes a newer one.       *)
(***************************************************************************)
EXTENDS Naturals, Integers, FiniteSets

CONSTANTS Tags,       \* releases that may be installed
          Builds,     \* those of them built here: build-<ref>
          None,
          Shipped,    \* 1 if packages ship settings files, 0 if not
          MaxPlays,   \* bound: how often the player writes files
          MaxFaults   \* bound: crashes, file operations that fail, releases without
                      \* their launch binary

ASSUME InstallAssumption ==
  /\ Builds \subseteq Tags
  /\ Shipped \in {0, 1}
  /\ MaxPlays \in Nat /\ MaxFaults \in Nat

Names == Tags \X {"live", "new", "staged", "old1", "old2"}
Live(t) == <<t, "live">>
Incoming(n) == <<n[1], "new">>
Staged(n) == <<n[1], "staged">>
IsBuild(n) == n[1] \in Builds

ASSUME NoneAssumption == None \notin Names

Versions == 0..(MaxPlays + 1)
Files == [config : Versions, card : Versions]
NoFiles == [config |-> 0, card |-> 0]
(* A directory has the launch binary, has not, or is not there.             *)
Contents == [has : {"nothing", "files", "game"}, config : Versions, card : Versions]
NoDir == [has |-> "nothing", config |-> 0, card |-> 0]
(* What a package holds, and a build, which ships no settings. *)
Package(has) == [has |-> has, config |-> Shipped, card |-> 0]
Built(has) == [has |-> has, config |-> 0, card |-> 0]
(* What a copy of c that fails half way may leave. *)
PartsOf(c) == [has : {"files", c.has}, config : {0, c.config}, card : {0, c.card}]
NoJob == [kind |-> "install", name |-> None]
Records == [name : Names \cup {None}, method : {"zip", "build"}]
NoRecord == [name |-> None, method |-> "zip"]

VARIABLES
  rel,        \* releases/: what each directory holds
  preserved,  \* preserved/
  staging,    \* .staging of a package; src/ of a build
  current,    \* where current points
  record,     \* install.json
  pc, job,    \* the job's next step; its kind and the release it is to keep
  outgoing,   \* what promote_staging_to_release moved aside
  ui,         \* what a look of the UI thread is about to write
  wrote,      \* history: the newest version the player wrote, 0 for none
  had,        \* history: the job found a release under its own tag to run
  disturbed,  \* history: see NewestSaveKept
  faults

disk == <<rel, preserved, staging, current, record>>
history == <<wrote, had, disturbed, faults>>
vars == <<disk, pc, job, outgoing, ui, history>>

Dirs == {n \in Names : rel[n] # NoDir}
Steps == {"idle", "clear", "clearstash", "unlink", "cleardirs", "fetch", "stash",
          "stage", "promote", "incoming", "aside", "movein", "flip", "point", "restore",
          "record", "write", "prune", "inspect"}
Kinds == {"install", "update", "uninstall", "purge", "cleanup"}

TypeOK ==
  /\ rel \in [Names -> Contents]
  /\ preserved \in Files
  /\ staging \in {"none", "partial", "whole", "nobin"}
  /\ current \in Names \cup {None}
  /\ record \in Records
  /\ pc \in Steps
  /\ job \in [kind : Kinds, name : Names \cup {None}]
  /\ outgoing \in Names \cup {None}
  /\ ui \in Records
  /\ wrote \in Versions
  /\ had \in BOOLEAN /\ disturbed \in {"no", "retry", "yes"}
  /\ faults \in 0..MaxFaults

Init ==
  /\ rel = [n \in Names |-> NoDir] /\ preserved = NoFiles
  /\ staging = "none" /\ current = None /\ record = NoRecord
  /\ pc = "idle" /\ job = NoJob /\ outgoing = None
  /\ ui = NoRecord
  /\ wrote = 0 /\ had = FALSE /\ disturbed = "no" /\ faults = 0
-----------------------------------------------------------------------------
(* inspect_install                                                         *)

(* collect_release_candidates: whatever its name, a directory of releases/ *)
(* with a launch binary.                                                   *)
Candidates == {n \in Names : rel[n].has = "game"}

(* score_release_candidate *)
Score(n) ==
  LET anyBuild == \E m \in Dirs : IsBuild(m)
      recorded == record.name = n
  IN  (IF IsBuild(n) THEN 1000 ELSE IF anyBuild THEN -500 ELSE 0)
      + (IF recorded THEN 200 ELSE 0)
      + (IF recorded /\ record.method = "build" THEN 400 ELSE 0)
      + (IF recorded /\ record.method = "zip" /\ anyBuild /\ ~IsBuild(n) THEN -300 ELSE 0)
      + (IF record.method = "build" /\ IsBuild(n) THEN 100 ELSE 0)

(* What may be picked; of equals, the one with the later modification time.*)
Best ==
  LET found == Candidates IN {n \in found : \A m \in found : Score(n) >= Score(m)}

(* Mutant: the tag is recorded for its directory. *)
RecordForTag(n) == [name |-> n[1], method |-> record.method]

(* apply_release_candidate: the record a pick leaves behind, which keeps   *)
(* its method unless the release is a local build.                         *)
RecordFor(n) == [name |-> n, method |-> IF IsBuild(n) THEN "build" ELSE record.method]

(* A look that picks n rewrites install.json and current where they differ.*)
Inspect ==
  \/ Best = {} /\ UNCHANGED <<current, record>>
  \/ \E n \in Best : current' = n /\ record' = RecordFor(n)

(* install_dir_present: anything but preserved/ is in the folder.          *)
Present == Dirs # {} \/ current # None \/ record # NoRecord \/ staging # "none"

(* history: what has disturbed the run most *)
Worst(d) == IF d = "no" \/ disturbed = "yes" THEN disturbed ELSE d

(* The UI thread looks, and some time later writes what it found.          *)
UiLook ==
  /\ ui = NoRecord
  /\ \E n \in Best : /\ current # n \/ record # RecordFor(n)
                     /\ ui' = RecordFor(n)
  /\ UNCHANGED <<disk, pc, job, outgoing, history>>

UiHeal ==
  /\ ui # NoRecord
  /\ current' = ui.name /\ record' = ui
  /\ ui' = NoRecord
  /\ disturbed' = Worst(IF ui.name \in Best THEN "no" ELSE "yes")
  /\ UNCHANGED <<rel, preserved, staging, pc, job, outgoing, wrote, had, faults>>

(* Play looks too, runs the pick, and the game writes its files there.     *)
NextSave == IF wrote = 0 THEN 2 ELSE wrote + 1
Play ==
  /\ NextSave \in Versions
  /\ \E n \in Best :
       /\ current' = n /\ record' = RecordFor(n)
       /\ rel' = [rel EXCEPT ![n] = [has |-> "game", config |-> NextSave, card |-> NextSave]]
  /\ wrote' = NextSave
  /\ disturbed' = Worst(IF pc = "idle" THEN "no" ELSE "yes")
  /\ UNCHANGED <<preserved, staging, pc, job, outgoing, ui, had, faults>>
-----------------------------------------------------------------------------
(* Jobs begin                                                              *)

Begin(kind, n, step) ==
  /\ pc = "idle"
  /\ pc' = step
  /\ job' = [kind |-> kind, name |-> n]
  /\ UNCHANGED <<rel, preserved, staging, outgoing, ui, wrote, disturbed, faults>>

RunsProper == \E n \in Best : n[2] = "live" /\ Best = {n}

(* Install, offered while nothing there runs, clears a folder that holds   *)
(* anything, keeping saves, first.                                         *)
BeginInstall(t) ==
  /\ Begin("install", Live(t), IF Present THEN "clear" ELSE "fetch")
  /\ Best = {}
  /\ Inspect
  /\ had' = FALSE

(* Update, or Generate & Rebuild. *)
BeginUpdate(t) ==
  /\ Begin("update", Live(t), "fetch")
  /\ Best # {}
  /\ Inspect
  /\ had' = RunsProper

(* Uninstall with Keep save data, offered while there is more to remove    *)
(* than preserved/; or without.                                            *)
BeginUninstall(kind) ==
  /\ Begin(kind, None, IF kind = "uninstall" THEN "clear" ELSE "unlink")
  /\ IF kind = "uninstall" THEN Present ELSE Present \/ preserved # NoFiles
  /\ Inspect
  /\ had' = FALSE

(* cleanup_old_release_dirs, for a title with several. *)
BeginCleanup ==
  /\ pc = "idle" /\ Cardinality(Dirs) > 1 /\ Best # {}
  /\ \E n \in Best :
       /\ Begin("cleanup", n, "stash")
       /\ current' = n /\ record' = RecordFor(n)
  /\ had' = RunsProper
-----------------------------------------------------------------------------
(* A job's steps                                                           *)

Step(from, to) ==
  /\ pc = from /\ pc' = to
  /\ job' = IF to = "idle" THEN NoJob ELSE job
Fail == /\ faults < MaxFaults
        /\ faults' = faults + 1
        /\ disturbed' = "yes"
Fine == UNCHANGED <<faults, disturbed>>
Still == UNCHANGED <<ui, wrote, had>>

(* stash_user_state_from, over the directories of releases/ in any order:  *)
(* of each file the copy made last stays.  The two classes are swept in    *)
(* one order.                                                              *)
LastSwept(class) ==
  LET holders == {n \in Dirs : rel[n][class] > 0}
  IN  IF holders = {} THEN {None} ELSE holders
OneOrder(c, k) ==
  \/ c = k \/ None \in {c, k}
  \/ rel[c].card = 0 \/ rel[k].config = 0
(* Mutant: what is in preserved/ already is not overwritten. *)
SweptFirstWins(class, n) ==
  IF n = None \/ preserved[class] > 0 THEN preserved[class] ELSE rel[n][class]

Swept(class, n) == IF n = None THEN preserved[class] ELSE rel[n][class]

Sweeps ==
  {[config |-> Swept("config", p[1]), card |-> Swept("card", p[2])] :
     p \in {q \in LastSwept("config") \X LastSwept("card") : OneOrder(q[1], q[2])}}

StashThen(from, to) ==
  \/ Step(from, to) /\ preserved' \in Sweeps /\ Fine
  \/ Step(from, "idle") /\ preserved' \in Sweeps \cup {preserved} /\ Fail

(* uninstall_install_root: forget the old stash, stash anew, remove the    *)
(* link, then all but preserved/.                                          *)
ForgetPreserved ==
  /\ Step("clear", "clearstash")
  /\ preserved' = NoFiles
  /\ Still /\ Fine
  /\ UNCHANGED <<rel, staging, current, record, outgoing>>

ClearStash ==
  /\ StashThen("clearstash", "unlink")
  /\ Still
  /\ UNCHANGED <<rel, staging, current, record, outgoing>>

Unlink ==
  /\ Step("unlink", "cleardirs")
  /\ current' = None
  /\ Still /\ Fine
  /\ UNCHANGED <<rel, preserved, staging, record, outgoing>>

ClearDirs ==
  /\ Step("cleardirs", IF job.kind = "install" THEN "fetch" ELSE "idle")
  /\ rel' = [n \in Names |-> NoDir]
  /\ current' = None /\ record' = NoRecord /\ staging' = "none"
  /\ preserved' = IF job.kind = "purge" THEN NoFiles ELSE preserved
  /\ wrote' = IF job.kind = "purge" THEN 0 ELSE wrote
  /\ Fine
  /\ UNCHANGED <<outgoing, ui, had>>

(* The release is fetched and unpacked, or built in src/. *)
Fetch ==
  /\ Step("fetch", "stash")
  /\ staging' = IF IsBuild(job.name) THEN "partial" ELSE "whole"
  /\ Still /\ Fine
  /\ UNCHANGED <<rel, preserved, current, record, outgoing>>

(* A package without the launch binary is placed all the same. *)
FetchNoBinary ==
  /\ Step("fetch", "promote")
  /\ ~IsBuild(job.name)
  /\ staging' = "nobin"
  /\ Still /\ Fail
  /\ UNCHANGED <<rel, preserved, current, record, outgoing>>

(* No network, a corrupt archive, a failed build: what was unpacked stays. *)
(* A first install that fails like this is to be tried again.              *)
FetchFails ==
  /\ Step("fetch", "idle")
  /\ staging' \in {staging, "partial"}
  /\ disturbed' = Worst(IF Candidates = {} /\ staging' # "none" THEN "retry" ELSE "no")
  /\ Still
  /\ UNCHANGED <<rel, preserved, current, record, outgoing, faults>>

(* stash_user_state_for_update *)
Stash ==
  /\ StashThen("stash", IF job.kind = "cleanup" THEN "restore"
                        ELSE IF IsBuild(job.name) THEN "stage" ELSE "promote")
  /\ Inspect
  /\ Still
  /\ UNCHANGED <<rel, staging, outgoing>>

(* stage_build_output: what was built is copied to a directory of          *)
(* releases/, the binary first; a build may lack its binary.               *)
StageBuild ==
  LET Stages(c) == rel' = [rel EXCEPT ![Staged(job.name)] = c]
  IN  /\ \/ Step("stage", "promote") /\ Stages(Built("game")) /\ Fine
         \/ /\ Step("stage", "idle") /\ Fail
            /\ \E c \in PartsOf(Built("game")) : Stages(c)
      /\ Still
      /\ UNCHANGED <<preserved, staging, current, record, outgoing>>

(* promote_staging_to_release: clear .new, land the staged tree there,     *)
(* move a release of that tag aside, move .new in.  A rename that fails    *)
(* (its copy fallback too) ends the job.                                   *)
DropIncoming ==
  /\ Step("promote", "incoming")
  /\ rel' = [rel EXCEPT ![Incoming(job.name)] = NoDir]
  /\ Still /\ Fine
  /\ UNCHANGED <<preserved, staging, current, record, outgoing>>

Landing ==
  IF IsBuild(job.name) THEN rel[Staged(job.name)]
  ELSE Package(IF staging = "whole" THEN "game" ELSE "files")

LandIncoming ==
  /\ \/ /\ Step("incoming", "aside") /\ Fine
        /\ IF IsBuild(job.name)
           THEN /\ rel' = [rel EXCEPT ![Incoming(job.name)] = Landing,
                                      ![Staged(job.name)] = NoDir]
                /\ UNCHANGED staging
           ELSE /\ rel' = [rel EXCEPT ![Incoming(job.name)] = Landing]
                /\ staging' = "none"
     \/ /\ Step("incoming", "idle") /\ Fail
        /\ rel' \in {rel} \cup {[rel EXCEPT ![Incoming(job.name)] = c] : c \in PartsOf(Landing)}
        /\ UNCHANGED staging
  /\ Still
  /\ UNCHANGED <<preserved, current, record, outgoing>>

(* Mutant: the live tree is deleted to make room. *)
MoveAsideDeletes ==
  /\ pc = "aside" /\ rel[job.name] # NoDir
  /\ \/ /\ Step("aside", "movein") /\ Fine
        /\ rel' = [rel EXCEPT ![job.name] = NoDir]
     \/ /\ Step("aside", "idle") /\ Fail
        /\ rel' = [rel EXCEPT ![Incoming(job.name)] = NoDir]
  /\ Still
  /\ UNCHANGED <<preserved, staging, current, record, outgoing>>

(* A fresh name; the two of a tag bound what is left aside at one time. *)
FreeAside == IF rel[<<job.name[1], "old1">>] = NoDir THEN <<job.name[1], "old1">>
             ELSE <<job.name[1], "old2">>

MoveAside ==
  /\ pc = "aside" /\ rel[job.name] # NoDir
  /\ \/ /\ Step("aside", "movein") /\ Fine
        /\ rel[FreeAside] = NoDir
        /\ rel' = [rel EXCEPT ![FreeAside] = rel[job.name], ![job.name] = NoDir]
        /\ outgoing' = FreeAside
     \/ /\ Step("aside", "idle") /\ Fail
        /\ rel' = [rel EXCEPT ![Incoming(job.name)] = NoDir]
        /\ UNCHANGED outgoing
  /\ Still
  /\ UNCHANGED <<preserved, staging, current, record>>

NothingAside ==
  /\ Step("aside", "movein")
  /\ rel[job.name] = NoDir
  /\ Still /\ Fine
  /\ UNCHANGED <<disk, outgoing>>

MovedIn == [rel EXCEPT ![job.name] = rel[Incoming(job.name)], ![Incoming(job.name)] = NoDir]

(* The old release moves back, unless that fails too or part of the new    *)
(* one is in its way.                                                      *)
MovedBack ==
  LET dropped == [rel EXCEPT ![Incoming(job.name)] = NoDir]
      back == IF outgoing = None THEN dropped
              ELSE [dropped EXCEPT ![job.name] = rel[outgoing], ![outgoing] = NoDir]
  IN  {dropped, back}
      \cup {[dropped EXCEPT ![job.name] = c] : c \in PartsOf(rel[Incoming(job.name)])}

MoveIn ==
  /\ \/ Step("movein", "flip") /\ rel' = MovedIn /\ Fine
     \/ Step("movein", "idle") /\ rel' \in MovedBack /\ Fail
  /\ outgoing' = None
  /\ Still
  /\ UNCHANGED <<preserved, staging, current, record>>

(* write_partial_install_record: the record, then the link. *)
FlipPartial ==
  /\ Step("flip", "inspect")
  /\ rel[job.name].has # "game"
  /\ record' = [name |-> job.name, method |-> "zip"]
  /\ current' = job.name
  /\ Still /\ Fine
  /\ UNCHANGED <<rel, preserved, staging, outgoing>>

(* set_current_symlink: the link goes before it comes. *)
Flip ==
  /\ Step("flip", "point")
  /\ rel[job.name].has = "game"
  /\ current' = None
  /\ Still /\ Fine
  /\ UNCHANGED <<rel, preserved, staging, record, outgoing>>

Point ==
  /\ Step("point", "restore")
  /\ current' = job.name
  /\ Still /\ Fine
  /\ UNCHANGED <<rel, preserved, staging, record, outgoing>>

(* Mutant: what the package ships is not overwritten. *)
RestoredMissing(n) ==
  IF preserved.config = 0 \/ rel[n].config > 0 THEN rel
  ELSE [rel EXCEPT ![n].config = preserved.config]

(* restore_user_state, given no save globs: of preserved/, what lies under *)
(* saves/ and the like and the settings files.  A cleanup restores into    *)
(* the release current names.                                              *)
Restored(n) ==
  IF preserved.config = 0 \/ rel[n] = NoDir THEN rel
  ELSE [rel EXCEPT ![n].config = preserved.config]

Restore ==
  /\ Step("restore", IF job.kind = "cleanup" THEN "prune" ELSE "record")
  /\ rel' = Restored(IF job.kind = "cleanup" /\ current # None THEN current ELSE job.name)
  /\ Still /\ Fine
  /\ UNCHANGED <<preserved, staging, current, record, outgoing>>

(* save_install_record: install.json is truncated, then written. *)
OpenRecord ==
  /\ \/ Step("record", "write") /\ record' = NoRecord /\ Fine
     \/ Step("record", "idle") /\ UNCHANGED record /\ Fail
  /\ Still
  /\ UNCHANGED <<rel, preserved, staging, current, outgoing>>

WriteRecord ==
  /\ Step("write", "prune")
  /\ record' = [name |-> job.name, method |-> IF IsBuild(job.name) THEN "build" ELSE "zip"]
  /\ Still /\ Fine
  /\ UNCHANGED <<rel, preserved, staging, current, outgoing>>

(* Mutant: what a promotion moved aside is not pruned. *)
StaleTags == {n \in Dirs : n # job.name /\ n[2] \notin {"old1", "old2"}}

(* prune_old_release_dirs keeps one release; a directory that will not go  *)
(* is left without a word.                                                 *)
Stale == Dirs \ {job.name}

Prune ==
  /\ pc = "prune"
  /\ \E n \in Stale :
       \/ /\ rel' = [rel EXCEPT ![n] = NoDir]
          /\ UNCHANGED <<pc, job>> /\ Fine
       \/ /\ Step("prune", "inspect") /\ Fail
          /\ UNCHANGED rel
  /\ Still
  /\ UNCHANGED <<preserved, staging, current, record, outgoing>>

PruneDone ==
  /\ Step("prune", "inspect")
  /\ Stale = {}
  /\ Still /\ Fine
  /\ UNCHANGED <<disk, outgoing>>

(* The last look of an install, or of the rows after a cleanup. *)
Finish ==
  /\ Step("inspect", "idle")
  /\ Inspect
  /\ Still /\ Fine
  /\ UNCHANGED <<rel, preserved, staging, outgoing>>

(* The process dies, with a job at work. *)
Crash ==
  /\ pc # "idle"
  /\ pc' = "idle" /\ job' = NoJob /\ outgoing' = None /\ ui' = NoRecord
  /\ Fail
  /\ UNCHANGED <<disk, wrote, had>>
-----------------------------------------------------------------------------
JobStep ==
  \/ ForgetPreserved \/ ClearStash \/ Unlink \/ ClearDirs
  \/ Fetch \/ FetchNoBinary \/ FetchFails \/ Stash \/ StageBuild
  \/ DropIncoming \/ LandIncoming \/ MoveAside \/ NothingAside \/ MoveIn
  \/ FlipPartial \/ Flip \/ Point \/ Restore \/ OpenRecord \/ WriteRecord
  \/ Prune \/ PruneDone \/ Finish

Next ==
  \/ JobStep \/ UiLook \/ UiHeal \/ Play \/ BeginCleanup \/ Crash
  \/ \E t \in Tags : BeginInstall(t) \/ BeginUpdate(t)
  \/ \E kind \in {"uninstall", "purge"} : BeginUninstall(kind)

Spec == Init /\ [][Next]_vars
-----------------------------------------------------------------------------
(* Properties                                                              *)

(* A title whose release could be run when an update, a rebuild or a       *)
(* cleanup began can be run ever after, at whatever step the process dies  *)
(* or a rename fails: the old tree, the .new or the moved-in one is there. *)
StaysPlayable == had => Candidates # {}

(* The player's newest saves and settings survive installs, updates,       *)
(* failed updates, uninstalls that keep them and reinstalls: a copy is on  *)
(* disk.  Not so when the player played during a job, the process died, a  *)
(* file operation or the first install failed, a package came without its  *)
(* binary, or the UI wrote a look gone stale: disturbed records these.     *)
OnDisk(class, v) == preserved[class] = v \/ \E n \in Names : rel[n][class] = v
NewestSaveKept == disturbed = "no" /\ wrote # 0 => OnDisk("config", wrote)

(* ... and between jobs the game finds its newest saves and settings where *)
(* it runs, never the defaults of a package.                               *)
GameSeesNewest ==
  disturbed = "no" /\ pc = "idle" /\ wrote # 0 =>
    \A n \in Candidates : rel[n].config = wrote

(* Both: kept through every job, and found by the game between jobs.       *)
SavesFollow == NewestSaveKept /\ GameSeesNewest

(* Between jobs, install.json, current and releases/ tell one story: one   *)
(* release, the one recorded, linked.  Looks of the UI thread in the midst *)
(* of a job, which heal towards the old release, do not survive it.        *)
OneStory ==
  disturbed = "no" /\ pc = "idle" /\ ui = NoRecord =>
    \/ Dirs = {} /\ current = None /\ record = NoRecord
    \/ Dirs = {current} /\ record = RecordFor(current)
=============================================================================
