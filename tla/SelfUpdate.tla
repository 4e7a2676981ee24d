----------------------------- MODULE SelfUpdate -----------------------------
(***************************************************************************)
(* How the launcher replaces, restarts and removes itself                  *)
(* (self_update.cpp).  A job stages what is needed and starts a script; on *)
(* Windows the two shake hands through a ready marker; the hub exits and   *)
(* the script, a process of its own, does the work once the hub is gone.   *)
(* dest is the launcher's own file or folder: "old" or "new" when whole,   *)
(* "part" when a copy stopped half way, "gone" when removed.               *)
(***************************************************************************)
EXTENDS Naturals, FiniteSets

CONSTANTS Channels,    \* install channels looked at
          Ops,         \* what is asked: "update", "relaunch", "uninstall"
          Folders0,    \* where the data root may be: "own" or "shared"
          MaxTries,    \* bound: attempts of the portable script, 40 in the code
          ScriptDies   \* may the script be killed, by a power cut say?

ASSUME SelfUpdateAssumption == MaxTries \in Nat

Windows == {"portable", "setup"}
Whole == {"old", "new"}
Nobody == "nobody"

VARIABLES channel,   \* retcomm_install_info, fixed
          root,      \* is the data root a folder of its own or shared with ROMs
          op,        \* the job under way, or asked last
          job,       \* "idle", "staged", "handshake", "failed", "exiting"
          hub,       \* is the hub's process alive
          ready,     \* the ready marker
          script,    \* the script's place
          tries,     \* attempts of the portable script
          dest, aside,   \* the launcher and .retcomm-old
          tmp,       \* what a script holds half done: dest.new.$$, the mount,
                     \* the launcher moved aside
          staged,    \* the downloaded launcher is whole in self-update/
          started,   \* the launcher the script started at its end
          disk       \* what of the user's is on disk: "data" and "roms"

suVars == <<channel, root, op, job, hub, ready, script, tries, dest, aside,
            tmp, staged, started, disk>>
files == <<dest, aside, tmp>>
fixed == <<channel, root>>

SelfUpdateInit ==
    /\ channel \in Channels /\ root \in Folders0
    /\ op = "none" /\ job = "idle" /\ hub = TRUE
    /\ ready = FALSE /\ script = "none" /\ tries = 0
    /\ dest = "old" /\ aside = "none" /\ tmp = "none"
    /\ staged = FALSE /\ started = Nobody
    /\ disk = {"data", "roms"}

----------------------------------------------------------------------------
(* self_update_retcomm up to the script: a release whose tag differs, an   *)
(* asset for the channel, the work folder emptied, the download, and for   *)
(* the portable channel a launcher to replace.  A step that fails ends the *)
(* job with nothing but the work folder changed.                           *)
StageUpdate(ok) ==
    /\ "update" \in Ops /\ job = "idle" /\ hub /\ script \in {"none", "ended"}
    /\ ok /\ channel = "portable" => dest # "gone"
    /\ op' = "update" /\ staged' = ok
    /\ job' = IF ok THEN "staged" ELSE "idle"
    /\ UNCHANGED <<fixed, hub, ready, script, tries, files, started, disk>>

(* Hard reset, a new data root, and the uninstall need no download.        *)
AskScript(what) ==
    /\ what \in Ops \cap {"relaunch", "uninstall"}
    /\ job = "idle" /\ hub /\ script \in {"none", "ended"}
    /\ op' = what /\ job' = "staged"
    /\ UNCHANGED <<fixed, hub, ready, script, tries, files, staged, started, disk>>

(* schedule_shell starts the script and asks no more of it.                *)
SpawnShell(ok) ==
    /\ job = "staged" /\ channel \notin Windows
    /\ job' = IF ok THEN "exiting" ELSE "idle"
    /\ script' = IF ok THEN "wait" ELSE script
    /\ tries' = 0 /\ tmp' = "none"
    /\ UNCHANGED <<fixed, op, hub, ready, dest, aside, staged, started, disk>>

(* schedule_powershell removes the marker, tries three ways to start the   *)
(* child and waits for the marker.                                         *)
SpawnPowerShell(ok) ==
    /\ job = "staged" /\ channel \in Windows
    /\ ready' = FALSE
    /\ job' = IF ok THEN "handshake" ELSE "idle"
    /\ script' = IF ok THEN "begin" ELSE script
    /\ tries' = 0 /\ tmp' = "none"
    /\ UNCHANGED <<fixed, op, hub, dest, aside, staged, started, disk>>

(* The script writes the marker first, and goes on when it cannot.         *)
ScriptBegins(wrote) ==
    /\ script = "begin"
    /\ ready' = (ready \/ wrote) /\ script' = "wait"
    /\ UNCHANGED <<fixed, op, job, hub, tries, files, staged, started, disk>>

HubSeesReady ==
    /\ job = "handshake" /\ ready
    /\ job' = "exiting"
    /\ UNCHANGED <<fixed, op, hub, ready, script, tries, files, staged, started, disk>>

(* After a grace period the hub writes the marker for a silent child.      *)
HubWritesReady ==
    /\ job = "handshake" /\ ~ready /\ script # "ended"
    /\ ready' = TRUE /\ job' = "exiting"
    /\ UNCHANGED <<fixed, op, hub, script, tries, files, staged, started, disk>>

(* The child exited, or nobody could write the marker within ten seconds.  *)
HandshakeFails ==
    /\ job = "handshake" /\ ~ready
    /\ job' = "failed"
    /\ UNCHANGED <<fixed, op, hub, ready, script, tries, files, staged, started, disk>>

EndFailedJob ==
    /\ job = "failed"
    /\ job' = "idle"
    /\ UNCHANGED <<fixed, op, hub, ready, script, tries, files, staged, started, disk>>

(* request_exit: the main loop ends and the process exits without waiting  *)
(* for its workers.  The user may quit after a failed job, too.            *)
(* Mutant of HubExits. *)
ExitsWhenIdle ==
    /\ hub /\ job = "idle" /\ script # "none"
    /\ hub' = FALSE
    /\ UNCHANGED <<fixed, op, job, ready, script, tries, files, staged, started, disk>>
HubExits ==
    /\ hub /\ job \in {"exiting", "idle"}
    /\ script # "none"
    /\ hub' = FALSE
    /\ UNCHANGED <<fixed, op, job, ready, script, tries, files, staged, started, disk>>

----------------------------------------------------------------------------
(* The scripts.  A bash script waits for the hub for ever; a PowerShell    *)
(* script gives up after two minutes, and then the installer's aborts      *)
(* while the others go on.                                                 *)
Work == IF op = "relaunch" THEN "start" ELSE op
HubGone ==
    /\ script = "wait" /\ ~hub
    /\ script' = Work
    /\ UNCHANGED <<fixed, op, job, hub, ready, tries, files, staged, started, disk>>

WaitExpires ==
    /\ script = "wait" /\ hub /\ channel \in Windows /\ job # "handshake"
    /\ script' = IF op = "update" /\ channel = "setup" THEN "start" ELSE Work
    /\ UNCHANGED <<fixed, op, job, hub, ready, tries, files, staged, started, disk>>

AtUpdate(c) == script = "update" /\ channel = c
RestOfScript == <<fixed, op, job, hub, ready, staged, started, disk>>

(* AppImage: copied beside the old one, then renamed over it; set -e ends  *)
(* the script at the first failure.                                        *)
(* Mutant of CopyAppImage. *)
CopyAppImageOver ==
    /\ AtUpdate("appimage") /\ tmp = "none"
    /\ dest' = "part" /\ tmp' = "part"
    /\ UNCHANGED <<aside, tries, script, RestOfScript>>
CopyAppImage ==
    /\ AtUpdate("appimage") /\ tmp = "none"
    /\ tmp' = "part"
    /\ UNCHANGED <<dest, aside, tries, script, RestOfScript>>
FinishAppImage(ok) ==
    /\ AtUpdate("appimage") /\ tmp = "part"
    /\ dest' = IF ok THEN "new" ELSE dest
    /\ tmp' = IF ok THEN "none" ELSE tmp
    /\ script' = IF ok THEN "start" ELSE "ended"
    /\ UNCHANGED <<aside, tries, RestOfScript>>

(* DMG: mounted, the old bundle removed, the new one copied.               *)
MountDmg(ok) ==
    /\ AtUpdate("dmg") /\ tmp = "none"
    /\ tmp' = IF ok THEN "mounted" ELSE tmp
    /\ script' = IF ok THEN script ELSE "ended"
    /\ UNCHANGED <<dest, aside, tries, RestOfScript>>
RemoveBundle ==
    /\ AtUpdate("dmg") /\ tmp = "mounted" /\ dest = "old"
    /\ dest' = "gone"
    /\ UNCHANGED <<aside, tmp, tries, script, RestOfScript>>
CopyBundle(ok) ==
    /\ AtUpdate("dmg") /\ tmp = "mounted" /\ dest = "gone"
    /\ dest' = IF ok THEN "new" ELSE "part"
    /\ tmp' = "none"
    /\ script' = IF ok THEN "start" ELSE "ended"
    /\ UNCHANGED <<aside, tries, RestOfScript>>

(* Portable: what an earlier script left aside is removed.  Once per       *)
(* attempt, what is at dest goes aside, over whatever an earlier attempt   *)
(* put there; the new stub is copied and its size compared; an attempt     *)
(* that fails with nothing at dest puts it back.                           *)
ClearAside ==
    /\ AtUpdate("portable") /\ tmp = "none" /\ staged
    /\ aside' = "none" /\ tmp' = "cleared"
    /\ UNCHANGED <<dest, tries, script, RestOfScript>>
PutAside ==
    /\ AtUpdate("portable") /\ tmp = "cleared" /\ tries < MaxTries
    /\ tries' = tries + 1
    /\ aside' = IF dest = "gone" THEN aside ELSE dest
    /\ dest' = "gone" /\ tmp' = "moved"
    /\ UNCHANGED <<script, RestOfScript>>
CannotPutAside ==
    /\ AtUpdate("portable") /\ tmp = "cleared" /\ tries < MaxTries
    /\ tries' = tries + 1
    /\ UNCHANGED <<script, files, RestOfScript>>
PutBack ==
    /\ dest' = IF dest = "gone" /\ aside # "none" THEN aside ELSE dest
    /\ aside' = IF dest = "gone" THEN "none" ELSE aside
CopyStub(copied) ==
    /\ AtUpdate("portable") /\ tmp = "moved"
    /\ \/ copied = "new" /\ dest' = "new" /\ aside' = "none" /\ script' = "start"
       \/ copied = "part" /\ dest' = "part" /\ UNCHANGED <<aside, script>>
       \/ copied = "none" /\ PutBack /\ UNCHANGED script
    /\ tmp' = "cleared"
    /\ UNCHANGED <<tries, RestOfScript>>
(* Fail-And-Relaunch: the old stub comes back when nothing is at dest.     *)
GiveUpPortable ==
    /\ AtUpdate("portable") /\ tmp = "cleared" /\ tries = MaxTries
    /\ PutBack
    /\ script' = "start"
    /\ UNCHANGED <<tmp, tries, RestOfScript>>

(* The installer runs over the install folder; its exit code is looked at. *)
RunSetup(left) ==
    /\ AtUpdate("setup") /\ dest = "old"
    /\ left \in {"old", "new", "part"}
    /\ dest' = left /\ script' = "start"
    /\ UNCHANGED <<aside, tmp, tries, RestOfScript>>

(* Every successful script, and PowerShell's after a failure, starts what  *)
(* is at dest.                                                             *)
StartLauncher ==
    /\ script = "start"
    /\ started' = IF dest = "gone" THEN Nobody ELSE dest
    /\ script' = "ended"
    /\ UNCHANGED <<fixed, op, job, hub, ready, tries, files, staged, disk>>

(* plan_retcomm_uninstall: the data root itself, its data and config, the  *)
(* default folders, the marker, then the launcher.  A hub that is still    *)
(* there is stopped first.                                                 *)
UninstallPaths == {"data"} \cup (IF root = "shared" THEN {"roms"} ELSE {})
Uninstall ==
    /\ script = "uninstall"
    /\ disk' = disk \ UninstallPaths
    /\ dest' = "gone" /\ hub' = FALSE /\ script' = "ended"
    /\ UNCHANGED <<fixed, op, job, ready, tries, aside, tmp, staged, started>>

Killed ==
    /\ ScriptDies /\ script \notin {"none", "ended"}
    /\ script' = "ended"
    /\ UNCHANGED <<tries, files, RestOfScript>>

ScriptStep ==
    \/ \E ok \in BOOLEAN : ScriptBegins(ok)
    \/ HubGone \/ CopyAppImage \/ \E ok \in BOOLEAN : FinishAppImage(ok)
    \/ \E ok \in BOOLEAN : MountDmg(ok)
    \/ RemoveBundle \/ \E ok \in BOOLEAN : CopyBundle(ok)
    \/ ClearAside \/ PutAside \/ CannotPutAside \/ GiveUpPortable
    \/ \E c \in {"new", "part", "none"} : CopyStub(c)
    \/ \E left \in Whole \cup {"part"} : RunSetup(left)
    \/ StartLauncher \/ Uninstall
HubStep ==
    \/ HubSeesReady \/ HubWritesReady \/ HandshakeFails \/ EndFailedJob
SelfUpdateNext ==
    \/ \E ok \in BOOLEAN : StageUpdate(ok) \/ SpawnShell(ok) \/ SpawnPowerShell(ok)
    \/ \E what \in Ops : AskScript(what)
    \/ HubStep \/ HubExits \/ ScriptStep \/ WaitExpires \/ Killed

(* Fairness: a live process goes on, and the hub that was told to exit     *)
(* exits; nothing is promised of the user, of a wait that expires or of a  *)
(* script that is killed.                                                  *)
SelfUpdateFair ==
    /\ WF_suVars(ScriptStep) /\ WF_suVars(HubStep)
    /\ WF_suVars(job = "exiting" /\ HubExits)
SelfUpdateSpec == SelfUpdateInit /\ [][SelfUpdateNext]_suVars /\ SelfUpdateFair

----------------------------------------------------------------------------
SelfUpdateTypeOK ==
    /\ channel \in Channels /\ root \in Folders0
    /\ op \in Ops \cup {"none", "update"}
    /\ job \in {"idle", "staged", "handshake", "failed", "exiting"}
    /\ hub \in BOOLEAN /\ ready \in BOOLEAN /\ staged \in BOOLEAN
    /\ script \in {"none", "begin", "wait", "update", "uninstall", "start", "ended"}
    /\ tries \in 0..MaxTries
    /\ dest \in Whole \cup {"part", "gone"} /\ aside \in Whole \cup {"part", "none"}
    /\ tmp \in {"none", "part", "mounted", "cleared", "moved"}
    /\ started \in Whole \cup {"part", Nobody} /\ disk \subseteq {"data", "roms"}

(* An AppImage is whole at every moment, also when the script is killed in *)
(* the middle or its copy fails, and so is a portable stub or the copy of  *)
(* it put aside until a copy has failed half way                           *)
(* (self_update.cpp:990-993, 840-861).                                     *)
LauncherSurvives ==
    /\ channel = "appimage" /\ op # "uninstall" => dest \in Whole
    /\ channel = "portable" /\ op # "uninstall" =>
         dest \in Whole \cup {"part"} \/ aside \in Whole \cup {"part"}

(* The hub waits for the marker and the script waits for the hub: neither  *)
(* waits for ever, and a hub that exited for an update comes back unless   *)
(* the script failed or was killed (self_update.cpp:706-754).              *)
ComesBack == (job = "exiting" /\ op # "uninstall") ~> script = "ended"
=============================================================================
