---------------------------- MODULE Sessions_proofs ----------------------------
(***************************************************************************)
(* Proofs about the hub's protocols with others: the script that replaces  *)
(* the launcher, whatever the channel, the attempts and the moment it is   *)
(* killed at; the commands of a lobby connection; the port of a hosted     *)
(* room; the paks of a Transfer Pak room; the rooms of the local network;  *)
(* and the types all five keep.                                            *)
(***************************************************************************)
EXTENDS MCSessions, SequenceTheorems, WellFoundedInduction, TLAPS

Present == Whole \cup {"part"}

FilesTyped ==
    dest \in Present \cup {"gone"} /\ aside \in Present \cup {"none"}

(* A launcher that has not been uninstalled is there, or put aside.        *)
Kept ==
    hub \/ op # "uninstall" =>
       /\ channel = "appimage" => dest \in Whole
       /\ channel = "portable" => dest \in Present \/ aside \in Present

(* The script does what was asked, and nothing new is asked while it runs. *)
DoesWhatWasAsked ==
    /\ script = "uninstall" => op = "uninstall"
    /\ script = "update" => op = "update"
    /\ job = "staged" => script \in {"none", "ended"}

(* What a portable update finds: a launcher to put aside before its first  *)
(* attempt, and a copy of it aside between the move and the copy.          *)
SomethingToReplace ==
    channel = "portable" /\ op = "update" =>
       /\ job = "staged" => dest # "gone"
       /\ script \in {"begin", "wait", "update"} /\ tmp = "none" => dest # "gone"
       /\ script \in {"begin", "wait"} => tmp = "none"
       /\ script = "update" /\ tmp = "moved" => dest = "gone" /\ aside \in Present

SurvivesInv == FilesTyped /\ Kept /\ DoesWhatWasAsked /\ SomethingToReplace
-----------------------------------------------------------------------------
LEMMA SurvivesInit == SelfUpdateInit => SurvivesInv
  BY DEF SelfUpdateInit, SurvivesInv, FilesTyped, Kept, DoesWhatWasAsked,
         SomethingToReplace, Present, Whole

(* The steps of the hub leave the launcher's files alone.                  *)
LEMMA HubKeeps ==
  ASSUME SurvivesInv,
         \/ \E ok \in BOOLEAN : StageUpdate(ok) \/ SpawnShell(ok) \/ SpawnPowerShell(ok)
         \/ \E what \in Ops : AskScript(what)
         \/ HubStep \/ HubExits
  PROVE  SurvivesInv'
  <1> USE DEF SurvivesInv, FilesTyped, Kept, DoesWhatWasAsked, SomethingToReplace,
              fixed, files
  <1>1. ASSUME NEW ok \in BOOLEAN, StageUpdate(ok)  PROVE SurvivesInv'
    BY <1>1 DEF StageUpdate
  <1>2. ASSUME NEW ok \in BOOLEAN, SpawnShell(ok)  PROVE SurvivesInv'
    BY <1>2 DEF SpawnShell, Windows
  <1>3. ASSUME NEW ok \in BOOLEAN, SpawnPowerShell(ok)  PROVE SurvivesInv'
    BY <1>3 DEF SpawnPowerShell
  <1>4. ASSUME NEW what \in Ops, AskScript(what)  PROVE SurvivesInv'
    BY <1>4 DEF AskScript
  <1>5. CASE HubStep
    BY <1>5 DEF HubStep, HubSeesReady, HubWritesReady, HandshakeFails, EndFailedJob
  <1>6. CASE HubExits
    BY <1>6 DEF HubExits
  <1>7. QED
    BY <1>1, <1>2, <1>3, <1>4, <1>5, <1>6

(* The script's steps up to the work, and after it.                        *)
LEMMA WaitKeeps ==
  ASSUME SurvivesInv,
         (\E ok \in BOOLEAN : ScriptBegins(ok)) \/ HubGone \/ WaitExpires
           \/ StartLauncher \/ Uninstall \/ Killed
  PROVE  SurvivesInv'
  <1> USE DEF SurvivesInv, FilesTyped, Kept, DoesWhatWasAsked, SomethingToReplace,
              fixed, files
  <1>1. CASE \E ok \in BOOLEAN : ScriptBegins(ok)
    BY <1>1 DEF ScriptBegins
  <1>2. CASE HubGone
    BY <1>2 DEF HubGone, Work
  <1>3. CASE WaitExpires
    BY <1>3 DEF WaitExpires, Work
  <1>4. CASE StartLauncher
    BY <1>4 DEF StartLauncher
  <1>5. CASE Uninstall
    BY <1>5 DEF Uninstall
  <1>6. CASE Killed
    BY <1>6 DEF Killed, RestOfScript
  <1>7. QED
    BY <1>1, <1>2, <1>3, <1>4, <1>5, <1>6

(* The work of each channel.                                               *)
LEMMA WorkKeeps ==
  ASSUME SurvivesInv,
         \/ CopyAppImage \/ \E ok \in BOOLEAN : FinishAppImage(ok)
         \/ \E ok \in BOOLEAN : MountDmg(ok)
         \/ RemoveBundle \/ \E ok \in BOOLEAN : CopyBundle(ok)
         \/ ClearAside \/ PutAside \/ CannotPutAside \/ GiveUpPortable
         \/ \E c \in {"new", "part", "none"} : CopyStub(c)
         \/ \E left \in Whole \cup {"part"} : RunSetup(left)
  PROVE  SurvivesInv'
  <1> USE DEF SurvivesInv, FilesTyped, Kept, DoesWhatWasAsked, SomethingToReplace,
              fixed, files, RestOfScript, AtUpdate, Present, Whole
  <1>1. CASE CopyAppImage
    BY <1>1 DEF CopyAppImage
  <1>2. CASE \E ok \in BOOLEAN : FinishAppImage(ok)
    BY <1>2 DEF FinishAppImage
  <1>3. CASE \E ok \in BOOLEAN : MountDmg(ok)
    BY <1>3 DEF MountDmg
  <1>4. CASE RemoveBundle
    BY <1>4 DEF RemoveBundle
  <1>5. CASE \E ok \in BOOLEAN : CopyBundle(ok)
    BY <1>5 DEF CopyBundle
  <1>6. CASE ClearAside
    BY <1>6 DEF ClearAside
  <1>7. CASE PutAside
    BY <1>7 DEF PutAside
  <1>8. CASE CannotPutAside
    BY <1>8 DEF CannotPutAside
  <1>9. CASE GiveUpPortable
    BY <1>9 DEF GiveUpPortable, PutBack
  <1>10. CASE \E c \in {"new", "part", "none"} : CopyStub(c)
    BY <1>10 DEF CopyStub, PutBack
  <1>11. CASE \E left \in Whole \cup {"part"} : RunSetup(left)
    BY <1>11 DEF RunSetup
  <1>12. QED
    BY <1>1, <1>2, <1>3, <1>4, <1>5, <1>6, <1>7, <1>8, <1>9, <1>10, <1>11

(* An AppImage is whole at every moment, and a portable launcher is there  *)
(* or put aside, however many updates fail or are killed, as long as no    *)
(* uninstall was asked (self_update.cpp:990-993, 833-861, 1404).           *)
THEOREM LauncherSurvivesHolds == SelfUpdateSpec => []LauncherSurvives
<1>1. SelfUpdateInit => SurvivesInv
  BY SurvivesInit
<1>2. SurvivesInv /\ [SelfUpdateNext]_suVars => SurvivesInv'
  <2>1. CASE UNCHANGED suVars
    BY <2>1 DEF suVars, SurvivesInv, FilesTyped, Kept, DoesWhatWasAsked, SomethingToReplace
  <2>2. CASE SelfUpdateNext
    BY <2>2, HubKeeps, WaitKeeps, WorkKeeps DEF SelfUpdateNext, ScriptStep
  <2>3. QED
    BY <2>1, <2>2
<1>3. SurvivesInv => LauncherSurvives
  BY DEF SurvivesInv, Kept, LauncherSurvives, Present
<1>4. QED
  BY <1>1, <1>2, <1>3, PTL DEF SelfUpdateSpec

(* What each variable of the update can be.                                *)
Jobs == {"idle", "staged", "handshake", "failed", "exiting"}
Places == {"none", "begin", "wait", "update", "uninstall", "start", "ended"}
Asks == {"none", "update", "relaunch", "uninstall"}
HubTyped ==
    /\ channel \in Channels /\ root \in Folders0
    /\ op \in (Ops \cup {"none", "update"}) \cap Asks
    /\ job \in Jobs /\ script \in Places
    /\ hub \in BOOLEAN /\ ready \in BOOLEAN /\ staged \in BOOLEAN
WorkTyped ==
    /\ tries \in 0 .. MaxTries /\ FilesTyped
    /\ tmp \in {"none", "part", "mounted", "cleared", "moved"}
    /\ started \in Present \cup {Nobody} /\ disk \subseteq {"data", "roms"}

LEMMA NoTries == 0 \in 0 .. MaxTries
  BY SelfUpdateAssumption

LEMMA UpdateInitTyped == SelfUpdateInit => HubTyped /\ WorkTyped
<1>1. SelfUpdateInit => HubTyped
  BY DEF SelfUpdateInit, HubTyped, Jobs, Places, Asks
<1>2. SelfUpdateInit => WorkTyped
  BY NoTries DEF SelfUpdateInit, WorkTyped, FilesTyped, Present, Whole, Nobody
<1> QED
  BY <1>1, <1>2

LEMMA HubStaysTyped == HubTyped /\ [SelfUpdateNext]_suVars => HubTyped'
<1> SUFFICES ASSUME HubTyped, [SelfUpdateNext]_suVars PROVE HubTyped'
  OBVIOUS
<1>0. op \in Asks /\ job \in Jobs /\ script \in Places
  BY DEF HubTyped
<1>1. UNCHANGED <<channel, root>>
  BY DEF SelfUpdateNext, suVars, StageUpdate, SpawnShell, SpawnPowerShell, AskScript, HubStep,
         HubSeesReady, HubWritesReady, HandshakeFails, EndFailedJob, HubExits, ScriptStep,
         ScriptBegins, HubGone, CopyAppImage, FinishAppImage, MountDmg, RemoveBundle, CopyBundle,
         ClearAside, PutAside, CannotPutAside, GiveUpPortable, CopyStub, RunSetup, StartLauncher,
         Uninstall, WaitExpires, Killed, RestOfScript, fixed
<1>2. op' \in (Ops \cup {"none", "update"}) \cap Asks
  BY DEF SelfUpdateNext, suVars, StageUpdate, SpawnShell, SpawnPowerShell, AskScript, HubStep,
         HubSeesReady, HubWritesReady, HandshakeFails, EndFailedJob, HubExits, ScriptStep,
         ScriptBegins, HubGone, CopyAppImage, FinishAppImage, MountDmg, RemoveBundle, CopyBundle,
         ClearAside, PutAside, CannotPutAside, GiveUpPortable, CopyStub, RunSetup, StartLauncher,
         Uninstall, WaitExpires, Killed, RestOfScript, HubTyped, Asks
<1>3. job' \in Jobs
  BY <1>0
  DEF SelfUpdateNext, suVars, StageUpdate, SpawnShell, SpawnPowerShell, AskScript, HubStep,
      HubSeesReady, HubWritesReady, HandshakeFails, EndFailedJob, HubExits, ScriptStep,
      ScriptBegins, HubGone, CopyAppImage, FinishAppImage, MountDmg, RemoveBundle, CopyBundle,
      ClearAside, PutAside, CannotPutAside, GiveUpPortable, CopyStub, RunSetup, StartLauncher,
      Uninstall, WaitExpires, Killed, RestOfScript, Jobs
<1>4. script' \in Places
  BY <1>0
  DEF SelfUpdateNext, suVars, StageUpdate, SpawnShell, SpawnPowerShell, AskScript, HubStep,
      HubSeesReady, HubWritesReady, HandshakeFails, EndFailedJob, HubExits, ScriptStep,
      ScriptBegins, HubGone, CopyAppImage, FinishAppImage, MountDmg, RemoveBundle, CopyBundle,
      ClearAside, PutAside, CannotPutAside, GiveUpPortable, CopyStub, RunSetup, StartLauncher,
      Uninstall, WaitExpires, Killed, RestOfScript, Places, Asks, Work
<1>5. (hub \in BOOLEAN)' /\ (ready \in BOOLEAN)' /\ (staged \in BOOLEAN)'
  <2>1. hub \in BOOLEAN /\ ready \in BOOLEAN /\ staged \in BOOLEAN
    BY DEF HubTyped
  <2>2. CASE UNCHANGED <<hub, ready, staged>>
    BY <2>1, <2>2
  <2>3. ASSUME NEW ok \in BOOLEAN, StageUpdate(ok)
        PROVE  (hub \in BOOLEAN)' /\ (ready \in BOOLEAN)' /\ (staged \in BOOLEAN)'
    BY <2>1, <2>3, Zenon DEF StageUpdate
  <2>4. ASSUME NEW ok \in BOOLEAN, SpawnPowerShell(ok)
        PROVE  (hub \in BOOLEAN)' /\ (ready \in BOOLEAN)' /\ (staged \in BOOLEAN)'
    BY <2>1, <2>4, Zenon DEF SpawnPowerShell
  <2>5. ASSUME NEW ok \in BOOLEAN, ScriptBegins(ok)
        PROVE  (hub \in BOOLEAN)' /\ (ready \in BOOLEAN)' /\ (staged \in BOOLEAN)'
    BY <2>1, <2>5, Zenon DEF ScriptBegins
  <2>6. CASE HubWritesReady \/ HubExits \/ Uninstall
    BY <2>1, <2>6, Zenon DEF HubWritesReady, HubExits, Uninstall
  <2>7. CASE \/ \E ok \in BOOLEAN : SpawnShell(ok)
             \/ \E what \in Ops : AskScript(what)
             \/ HubSeesReady \/ HandshakeFails \/ EndFailedJob \/ WaitExpires \/ Killed
             \/ HubGone \/ CopyAppImage \/ \E ok \in BOOLEAN : FinishAppImage(ok)
             \/ \E ok \in BOOLEAN : MountDmg(ok)
             \/ RemoveBundle \/ \E ok \in BOOLEAN : CopyBundle(ok)
             \/ ClearAside \/ PutAside \/ CannotPutAside \/ GiveUpPortable
             \/ \E c \in {"new", "part", "none"} : CopyStub(c)
             \/ \E left \in Whole \cup {"part"} : RunSetup(left)
             \/ StartLauncher \/ UNCHANGED suVars
    <3>1. UNCHANGED <<hub, ready, staged>>
      BY <2>7
      DEF suVars, SpawnShell, AskScript, HubSeesReady, HandshakeFails, EndFailedJob, HubGone,
          CopyAppImage, FinishAppImage, MountDmg, RemoveBundle, CopyBundle, ClearAside, PutAside,
          CannotPutAside, GiveUpPortable, CopyStub, RunSetup, StartLauncher, WaitExpires, Killed,
          RestOfScript
    <3> QED
      BY <2>2, <3>1
  <2> QED
    BY <2>3, <2>4, <2>5, <2>6, <2>7 DEF SelfUpdateNext, HubStep, ScriptStep
<1> QED
  BY <1>1, <1>2, <1>3, <1>4, <1>5 DEF HubTyped

LEMMA WorkStaysTyped == WorkTyped /\ [SelfUpdateNext]_suVars => WorkTyped'
<1> SUFFICES ASSUME WorkTyped, [SelfUpdateNext]_suVars PROVE WorkTyped'
  OBVIOUS
<1> USE DEF WorkTyped, FilesTyped, Present, Whole
<1>1. CASE UNCHANGED <<tries, dest, aside, tmp, started, disk>>
  BY <1>1
<1>2. CASE \/ \E ok \in BOOLEAN : StageUpdate(ok) \/ \E what \in Ops : AskScript(what)
           \/ HubStep \/ HubExits \/ \E ok \in BOOLEAN : ScriptBegins(ok)
           \/ HubGone \/ WaitExpires \/ Killed \/ UNCHANGED suVars
  BY <1>1, <1>2
  DEF StageUpdate, AskScript, HubStep, HubSeesReady, HubWritesReady, HandshakeFails, EndFailedJob,
      HubExits, ScriptBegins, HubGone, WaitExpires, Killed, RestOfScript, files, suVars
<1>3. ASSUME NEW ok \in BOOLEAN, SpawnShell(ok) \/ SpawnPowerShell(ok) PROVE WorkTyped'
  BY <1>3, NoTries DEF SpawnShell, SpawnPowerShell
<1>4. CASE CopyAppImage
  BY <1>4 DEF CopyAppImage, RestOfScript
<1>5. ASSUME NEW ok \in BOOLEAN, FinishAppImage(ok) \/ MountDmg(ok) \/ CopyBundle(ok) PROVE WorkTyped'
  BY <1>5 DEF FinishAppImage, MountDmg, CopyBundle, RestOfScript
<1>6. CASE RemoveBundle \/ ClearAside
  BY <1>6 DEF RemoveBundle, ClearAside, RestOfScript
<1>7. CASE PutAside \/ CannotPutAside
  <2>1. tries < MaxTries /\ tries' = tries + 1
    BY <1>7 DEF PutAside, CannotPutAside
  <2>2. tries' \in 0 .. MaxTries
    BY <2>1, SelfUpdateAssumption
  <2> QED
    BY <1>7, <2>2 DEF PutAside, CannotPutAside, RestOfScript, files
<1>8. CASE GiveUpPortable \/ \E c \in {"new", "part", "none"} : CopyStub(c)
  BY <1>8 DEF GiveUpPortable, CopyStub, PutBack, RestOfScript
<1>9. CASE \E left \in Whole \cup {"part"} : RunSetup(left)
  BY <1>9 DEF RunSetup, RestOfScript
<1>10. CASE StartLauncher \/ Uninstall
  BY <1>10 DEF StartLauncher, Uninstall, files
<1> QED
  BY <1>2, <1>3, <1>4, <1>5, <1>6, <1>7, <1>8, <1>9, <1>10 DEF SelfUpdateNext, ScriptStep

LEMMA UpdateTypedOK == HubTyped /\ WorkTyped => SelfUpdateTypeOK
  BY DEF HubTyped, WorkTyped, FilesTyped, Present, Jobs, Places, SelfUpdateTypeOK

(* Whatever the script is killed at and however often the hub asks again,  *)
(* the launcher, what is aside and what a script works on are of the kinds *)
(* the next script knows (self_update.cpp:706-1010).                       *)
THEOREM SelfUpdateTyped == SelfUpdateSpec => []SelfUpdateTypeOK
  BY UpdateInitTyped, HubStaysTyped, WorkStaysTyped, UpdateTypedOK, PTL DEF SelfUpdateSpec
-----------------------------------------------------------------------------
(* The commands queued for a lobby connection: those of the connection, or *)
(* the one seat that waited for its game while the page connected again.   *)
Commands == [op : {"join", "leave"}, room : Rooms \cup {NoRoom}, asked : Nat]
QueueTyped ==
    /\ out \in Seq(Commands) /\ epoch \in Nat /\ heldIn \in Nat /\ heldIn <= epoch
    /\ pending \in Rooms \cup {NoRoom}
Waits == identity # "none" /\ pending # NoRoom
HeldIsPrepared == Waits => pending = lib /\ pending \in Handoff
HeldIsTheOne == Waits /\ heldIn # epoch => OldCommands = {}
QueueInv == QueueTyped /\ NoOldCommands /\ HeldIsPrepared /\ HeldIsTheOne

LEMMA CommandTyped ==
  ASSUME NEW o \in {"join", "leave"}, NEW r \in Rooms \cup {NoRoom}, NEW e \in Nat
  PROVE  /\ Cmd(o, r, e) \in Commands /\ Cmd(o, r, e).op = o
         /\ Cmd(o, r, e).room = r /\ Cmd(o, r, e).asked = e
  BY DEF Cmd, Commands

(* A command of this connection leaves the old ones as they are.           *)
LEMMA NewCommand ==
  ASSUME QueueTyped, NEW o \in {"join", "leave"}, NEW r \in Rooms \cup {NoRoom},
         Queue(o, r, epoch), epoch' = epoch
  PROVE  /\ out' \in Seq(Commands) /\ OldCommands' = OldCommands
         /\ \A i \in OldCommands : out'[i] = out[i]
  <1>1. Cmd(o, r, epoch) \in Commands /\ Cmd(o, r, epoch).asked = epoch
    BY CommandTyped DEF QueueTyped
  <1>2. out' = Append(out, Cmd(o, r, epoch)) /\ out \in Seq(Commands)
    BY DEF Queue, QueueTyped
  <1>3. /\ out' \in Seq(Commands) /\ Len(out') = Len(out) + 1
        /\ DOMAIN out' = 1 .. Len(out) + 1 /\ DOMAIN out = 1 .. Len(out)
        /\ \A i \in 1 .. Len(out) : out'[i] = out[i]
        /\ out'[Len(out) + 1] = Cmd(o, r, epoch)
    BY <1>1, <1>2
  <1>4. QED
    BY <1>1, <1>3 DEF OldCommands

(* The seat that was waiting becomes the one old command there is.         *)
LEMMA HeldCommand ==
  ASSUME QueueInv, Waits, Queue("join", pending, heldIn), epoch' = epoch
  PROVE  out' \in Seq(Commands) /\ NoOldCommands'
  <1>1. /\ Cmd("join", pending, heldIn) \in Commands
        /\ Cmd("join", pending, heldIn).op = "join"
        /\ Cmd("join", pending, heldIn).room = pending
        /\ Cmd("join", pending, heldIn).asked = heldIn
    BY CommandTyped DEF QueueInv, QueueTyped
  <1>2. out' = Append(out, Cmd("join", pending, heldIn)) /\ out \in Seq(Commands)
    BY DEF Queue, QueueInv, QueueTyped
  <1>3. /\ out' \in Seq(Commands) /\ Len(out') = Len(out) + 1
        /\ DOMAIN out' = 1 .. Len(out) + 1 /\ DOMAIN out = 1 .. Len(out)
        /\ \A i \in 1 .. Len(out) : out'[i] = out[i]
        /\ out'[Len(out) + 1] = Cmd("join", pending, heldIn)
    BY <1>1, <1>2
  <1>4. CASE heldIn = epoch
    <2>1. OldCommands' = OldCommands
      BY <1>1, <1>3, <1>4 DEF OldCommands
    <2> QED
      BY <1>3, <2>1 DEF QueueInv, NoOldCommands, OldCommands
  <1>5. CASE heldIn # epoch
    <2>1. OldCommands' \subseteq {Len(out) + 1}
      BY <1>3, <1>5 DEF QueueInv, HeldIsTheOne, OldCommands
    <2>2. pending \in Handoff
      BY DEF QueueInv, HeldIsPrepared
    <2> QED
      BY <1>1, <1>3, <2>1, <2>2 DEF NoOldCommands
  <1> QED
    BY <1>3, <1>4, <1>5

LEMMA StartKeeps ==
  ASSUME QueueInv, Start
  PROVE  /\ out' \in Seq(Commands) /\ epoch' \in Nat /\ epoch <= epoch'
         /\ OldCommands' = {} /\ NoOldCommands'
  BY DEF QueueInv, QueueTyped, Start, OldCommands, NoOldCommands

LEMMA SameQueue ==
  ASSUME QueueInv, UNCHANGED <<out, epoch, pending, heldIn, lib>>,
         identity' \in {identity, "none"} \/ (identity # "none" /\ identity' # "none")
  PROVE  QueueInv'
  <1>1. OldCommands' = OldCommands
    BY DEF OldCommands
  <1>2. QueueTyped' /\ NoOldCommands'
    BY <1>1 DEF QueueInv, QueueTyped, NoOldCommands
  <1>3. Waits' => Waits
    BY DEF Waits
  <1> QED
    BY <1>1, <1>2, <1>3 DEF QueueInv, HeldIsPrepared, HeldIsTheOne

LEMMA SendKeeps ==
  ASSUME QueueInv, Send
  PROVE  QueueInv'
  <1>1. /\ out # <<>> /\ out' = Tail(out) /\ out \in Seq(Commands)
        /\ UNCHANGED <<epoch, pending, heldIn, lib, identity>>
    BY DEF Send, libVars, QueueInv, QueueTyped
  <1>2. /\ out' \in Seq(Commands) /\ DOMAIN out' = 1 .. Len(out) - 1
        /\ DOMAIN out = 1 .. Len(out) /\ Len(out) \in Nat
        /\ \A i \in DOMAIN out' : out'[i] = out[i + 1]
    BY <1>1
  <1>3. \A i \in OldCommands' : i + 1 \in OldCommands /\ i \in Nat
    BY <1>1, <1>2 DEF OldCommands
  <1>4. OldCommands' \subseteq DOMAIN out'
    BY DEF OldCommands
  <1>5. NoOldCommands'
    <2> SUFFICES ASSUME NEW i \in OldCommands', NEW j \in OldCommands'
                 PROVE  i = j /\ out'[i].op = "join" /\ out'[i].room \in Handoff
      BY DEF NoOldCommands
    <2>1. i + 1 = j + 1 /\ out[i + 1].op = "join" /\ out[i + 1].room \in Handoff
      BY <1>3 DEF QueueInv, NoOldCommands
    <2>2. out'[i] = out[i + 1]
      BY <1>2, <1>4
    <2> QED
      BY <1>3, <2>1, <2>2
  <1>6. HeldIsPrepared' /\ HeldIsTheOne'
    BY <1>1, <1>3 DEF QueueInv, HeldIsPrepared, HeldIsTheOne, Waits
  <1> QED
    BY <1>1, <1>2, <1>5, <1>6 DEF QueueInv, QueueTyped

LEMMA FrameKeeps ==
  ASSUME QueueInv, FrameEnds
  PROVE  QueueInv'
  <1>1. /\ pending' = (IF Answered THEN NoRoom ELSE pending)
        /\ heldIn' = (IF Answered THEN 0 ELSE heldIn)
        /\ UNCHANGED <<lib, identity>>
    BY DEF FrameEnds, Held
  <1>2. /\ pending' \in Rooms \cup {NoRoom} /\ heldIn' \in Nat
        /\ heldIn' <= heldIn /\ (Waits' => Waits)
    BY <1>1 DEF QueueInv, QueueTyped, Waits
  <1>3. HeldIsPrepared'
    BY <1>1, <1>2 DEF QueueInv, HeldIsPrepared, Waits
  <1>4. CASE Start
    <2>1. heldIn' <= epoch'
      BY <1>2, <1>4, StartKeeps DEF QueueInv, QueueTyped
    <2> QED
      BY <1>2, <1>3, <1>4, <2>1, StartKeeps DEF QueueInv, QueueTyped, HeldIsTheOne
  <1>5. CASE SendPending /\ epoch' = epoch
    <2>1. heldIn' <= epoch'
      BY <1>2, <1>5 DEF QueueInv, QueueTyped
    <2>2. CASE Answered
      <3>1. Waits /\ Queue("join", pending, heldIn) /\ ~Waits'
        BY <1>1, <1>5, <2>2 DEF SendPending, Answered, Waits
      <3>2. out' \in Seq(Commands) /\ NoOldCommands'
        BY <1>5, <3>1, HeldCommand
      <3> QED
        BY <1>2, <1>3, <1>5, <2>1, <3>1, <3>2 DEF QueueInv, QueueTyped, HeldIsTheOne
    <2>3. CASE ~Answered
      <3>1. UNCHANGED <<out, epoch, pending, heldIn, lib, identity>>
        BY <1>1, <1>5, <2>3 DEF SendPending
      <3> QED
        BY <3>1, SameQueue
    <2> QED
      BY <2>2, <2>3
  <1>6. Start \/ (SendPending /\ epoch' = epoch)
    BY DEF FrameEnds, Connect
  <1> QED
    BY <1>4, <1>5, <1>6

(* What the buttons that connect again do to the client.                   *)
Connects == Start /\ signed' = (account' = "signed") /\ dirty' = FALSE
LEMMA ReconnectIs ==
  ASSUME Reconnect
  PROVE  /\ Connects \/ UNCHANGED <<clientVars, signed, dirty>>
         /\ UNCHANGED <<pageVars, libVars>>
         /\ all' = all \/ all' = ~all
         /\ account' \in {account, "guest", "waiting"}
  <1>1. CASE EnterOnline
    BY <1>1 DEF Reconnect, EnterOnline, Connect, Connects
  <1>2. CASE SignOut
    BY <1>2 DEF Reconnect, SignOut, Connect, Connects
  <1>3. CASE Retry
    BY <1>3 DEF Reconnect, Retry, Connect, Connects
  <1>4. CASE SaveUrl
    BY <1>4 DEF Reconnect, SaveUrl, Connect, Connects
  <1>5. CASE SetFilter
    BY <1>5 DEF Reconnect, SetFilter, Connect, Connects
  <1> QED
    BY <1>1, <1>2, <1>3, <1>4, <1>5 DEF Reconnect

LEMMA JoinKeeps ==
  ASSUME QueueInv, NEW r \in Rooms, Join(r)
  PROVE  QueueInv'
  <1>1. epoch' = epoch /\ lib' = r
    BY DEF Join
  <1>2. CASE r \in Handoff
    <2>1. pending' = r /\ heldIn' = epoch /\ UNCHANGED out
      BY <1>2 DEF Join
    <2>2. OldCommands' = OldCommands
      BY <1>1, <2>1 DEF OldCommands
    <2> QED
      BY <1>1, <1>2, <2>1, <2>2
         DEF QueueInv, QueueTyped, NoOldCommands, HeldIsPrepared, HeldIsTheOne
  <1>3. CASE r \notin Handoff
    <2>1. Queue("join", r, epoch) /\ identity' = "none" /\ UNCHANGED <<pending, heldIn>>
      BY <1>3 DEF Join
    <2>2. /\ out' \in Seq(Commands) /\ OldCommands' = OldCommands
          /\ \A i \in OldCommands : out'[i] = out[i]
      BY <1>1, <2>1, NewCommand DEF QueueInv
    <2>3. QueueTyped' /\ NoOldCommands'
      BY <1>1, <2>1, <2>2 DEF QueueInv, QueueTyped, NoOldCommands
    <2> QED
      BY <2>1, <2>3 DEF QueueInv, HeldIsPrepared, HeldIsTheOne, Waits
  <1> QED
    BY <1>2, <1>3

LEMMA ClickKeeps ==
  ASSUME QueueInv, Click
  PROVE  QueueInv'
  <1>1. CASE Reconnect
    <2>1. UNCHANGED <<lib, identity, pending, heldIn>>
      BY <1>1, ReconnectIs DEF libVars
    <2>2. CASE Start
      <3>1. heldIn' <= epoch'
        BY <2>1, <2>2, StartKeeps DEF QueueInv, QueueTyped
      <3> QED
        BY <2>1, <2>2, <3>1, StartKeeps
           DEF QueueInv, QueueTyped, HeldIsPrepared, HeldIsTheOne, Waits
    <2>3. CASE UNCHANGED <<out, epoch>>
      BY <2>1, <2>3, SameQueue
    <2>4. Connects \/ UNCHANGED <<clientVars, signed, dirty>>
      BY <1>1, ReconnectIs
    <2>5. Start \/ UNCHANGED <<out, epoch>>
      BY <2>4 DEF Connects, clientVars
    <2> QED
      BY <2>2, <2>3, <2>5
  <1>2. CASE Leave
    <2>1. /\ Queue("leave", NoRoom, epoch)
          /\ UNCHANGED <<epoch, lib, identity, pending, heldIn>>
      BY <1>2 DEF Leave, libVars
    <2>2. /\ out' \in Seq(Commands) /\ OldCommands' = OldCommands
          /\ \A i \in OldCommands : out'[i] = out[i]
      BY <2>1, NewCommand DEF QueueInv
    <2> QED
      BY <2>1, <2>2
         DEF QueueInv, QueueTyped, NoOldCommands, HeldIsPrepared, HeldIsTheOne, Waits
  <1>3. ASSUME NEW r \in Rooms, Join(r)  PROVE QueueInv'
    BY <1>3, JoinKeeps
  <1>4. CASE SignIn \/ Lost \/ \E op2 \in {"launch", "closed"} : HostActs(op2)
    <2>1. UNCHANGED <<out, epoch, pending, heldIn, lib, identity>>
      BY <1>4 DEF SignIn, Lost, HostActs, clientVars, libVars
    <2> QED
      BY <2>1, SameQueue
  <1> QED
    BY <1>1, <1>2, <1>3, <1>4 DEF Click

LEMMA QueueInit == LobbySessionInit => QueueInv
  BY DEF LobbySessionInit, QueueInv, QueueTyped, NoOldCommands, OldCommands,
         HeldIsPrepared, HeldIsTheOne, Waits

LEMMA QueueStep == QueueInv /\ [LobbySessionNext]_lsVars => QueueInv'
<1> SUFFICES ASSUME QueueInv, [LobbySessionNext]_lsVars  PROVE QueueInv'
  OBVIOUS
<1>1. CASE Click
  BY <1>1, ClickKeeps
<1>2. CASE Send
  BY <1>2, SendKeeps
<1>3. CASE FrameEnds
  BY <1>3, FrameKeeps
<1>4. ASSUME NEW ok \in BOOLEAN, IdentityKnown(ok) PROVE QueueInv'
  <2>1. UNCHANGED <<out, epoch, lib>> /\ identity = "asking"
    BY <1>4 DEF IdentityKnown, clientVars
  <2>2. CASE ok
    <3>1. identity' = "known" /\ UNCHANGED <<pending, heldIn>>
      BY <1>4, <2>2 DEF IdentityKnown
    <3> QED
      BY <2>1, <3>1, SameQueue
  <2>3. CASE ~ok
    <3>1. identity' = "none" /\ pending' = NoRoom /\ heldIn' = 0
      BY <1>4, <2>3 DEF IdentityKnown
    <3>2. OldCommands' = OldCommands
      BY <2>1 DEF OldCommands
    <3> QED
      BY <2>1, <3>1, <3>2
         DEF QueueInv, QueueTyped, NoOldCommands, HeldIsPrepared, HeldIsTheOne, Waits
  <2> QED
    BY <2>2, <2>3
<1>5. CASE \/ Receive \/ Snapshot \/ UNCHANGED lsVars
           \/ \E ok \in BOOLEAN : Connected(ok) \/ SignInEnds(ok)
  <2>1. UNCHANGED <<out, epoch, pending, heldIn, lib, identity>>
    BY <1>5 DEF Receive, Snapshot, Connected, SignInEnds, clientVars, libVars, lsVars
  <2> QED
    BY <2>1, SameQueue
<1> QED
  BY <1>1, <1>2, <1>3, <1>4, <1>5 DEF LobbySessionNext

(* Whatever the page connects again for, and whenever the game asked       *)
(* answers, the one thing an earlier connection's clicks send on a later   *)
(* one is the seat that waited for its game (netplay_client.cpp:45-60,     *)
(* hub_netplay.cpp:939-952 and 2938-2945).                                 *)
THEOREM NoOldCommandsHolds == LobbySessionSpec => []NoOldCommands
<1>1. QueueInv => NoOldCommands
  BY DEF QueueInv
<1> QED
  BY <1>1, QueueInit, QueueStep, PTL DEF LobbySessionSpec

(* A seat asked for is of the game prepared, and of one that has answered  *)
(* when it takes its match from the hub (hub_netplay.cpp:939-952,          *)
(* 2938-2945).                                                             *)
Seated ==
    Len(out') > Len(out) /\ Last(out').op = "join"
    => /\ Last(out').room = lib'
       /\ lib' \in Handoff => identity = "known"

LEMMA QueuedLast ==
  ASSUME QueueTyped, NEW o \in {"join", "leave"}, NEW r \in Rooms \cup {NoRoom},
         NEW e \in Nat, Queue(o, r, e)
  PROVE  Last(out').op = o /\ Last(out').room = r
  <1>1. /\ Cmd(o, r, e) \in Commands /\ Cmd(o, r, e).op = o /\ Cmd(o, r, e).room = r
    BY CommandTyped
  <1>2. out' = Append(out, Cmd(o, r, e)) /\ out \in Seq(Commands)
    BY DEF Queue, QueueTyped
  <1>3. Len(out') = Len(out) + 1 /\ out'[Len(out) + 1] = Cmd(o, r, e)
    BY <1>1, <1>2
  <1> QED
    BY <1>1, <1>3 DEF Last

LEMMA NoLonger ==
  ASSUME QueueTyped, \/ out' = out \/ out' = <<>>
                     \/ out # <<>> /\ out' = Tail(out)
  PROVE  Seated
  BY DEF QueueTyped, Seated

LEMMA SeatStep == QueueInv /\ [LobbySessionNext]_lsVars => Seated
<1> SUFFICES ASSUME QueueInv, [LobbySessionNext]_lsVars  PROVE Seated
  OBVIOUS
<1>0. QueueTyped
  BY DEF QueueInv
<1>1. CASE FrameEnds
  <2>1. CASE Start
    BY <1>0, <2>1, NoLonger DEF Start
  <2>2. CASE SendPending /\ ~Answered
    BY <1>0, <2>2, NoLonger DEF SendPending
  <2>3. CASE SendPending /\ Answered
    <3>1. Queue("join", pending, heldIn) /\ identity = "known" /\ pending # NoRoom
      BY <2>3 DEF SendPending, Answered
    <3>2. Last(out').room = pending
      BY <1>0, <3>1, QueuedLast DEF QueueTyped
    <3>3. pending = lib /\ lib' = lib
      BY <1>1, <3>1 DEF QueueInv, HeldIsPrepared, Waits, FrameEnds
    <3> QED
      BY <3>1, <3>2, <3>3 DEF Seated
  <2> QED
    BY <1>1, <2>1, <2>2, <2>3 DEF FrameEnds, Connect
<1>2. CASE Click
  <2>1. CASE Reconnect
    BY <1>0, <2>1, ReconnectIs, NoLonger DEF Connects, Start, clientVars
  <2>2. CASE Leave
    <3>1. Last(out').op = "leave"
      BY <1>0, <2>2, QueuedLast DEF Leave, QueueTyped
    <3> QED
      BY <3>1 DEF Seated
  <2>3. ASSUME NEW r \in Rooms, Join(r)  PROVE Seated
    <3>1. CASE r \in Handoff
      BY <1>0, <2>3, <3>1, NoLonger DEF Join
    <3>2. CASE r \notin Handoff
      <4>1. lib' = r /\ Queue("join", r, epoch)
        BY <2>3, <3>2 DEF Join
      <4>2. Last(out').room = r
        BY <1>0, <4>1, QueuedLast DEF QueueTyped
      <4> QED
        BY <3>2, <4>1, <4>2 DEF Seated
    <3> QED
      BY <3>1, <3>2
  <2>4. CASE SignIn \/ Lost \/ \E op2 \in {"launch", "closed"} : HostActs(op2)
    <3>1. out' = out
      BY <2>4 DEF SignIn, Lost, HostActs, clientVars
    <3> QED
      BY <1>0, <3>1, NoLonger
  <2> QED
    BY <1>2, <2>1, <2>2, <2>3, <2>4 DEF Click
<1>3. CASE Send
  BY <1>0, <1>3, NoLonger DEF Send
<1>4. CASE \/ Receive \/ Snapshot \/ UNCHANGED lsVars
           \/ \E ok \in BOOLEAN : Connected(ok) \/ SignInEnds(ok) \/ IdentityKnown(ok)
  <2>1. out' = out
    BY <1>4 DEF Receive, Snapshot, Connected, SignInEnds, IdentityKnown, clientVars, lsVars
  <2> QED
    BY <1>0, <2>1, NoLonger
<1> QED
  BY <1>1, <1>2, <1>3, <1>4 DEF LobbySessionNext

(* A seat held for one game is never asked for once another is prepared    *)
(* (hub_netplay.cpp:939-952, 2938-2945).                                   *)
THEOREM SeatsArePreparedHolds == LobbySessionSpec => SeatsArePrepared
<1>1. QueueInv /\ [LobbySessionNext]_lsVars => [Seated]_lsVars
  BY SeatStep
<1> QED
  BY <1>1, QueueInit, QueueStep, PTL DEF LobbySessionSpec, SeatsArePrepared, Seated

(* What the page, the client and the server may hold.                      *)
AnyRoom == Rooms \union {NoRoom}
Replies == [op : {"joined", "closed", "error", "launch"}, room : AnyRoom]
SeatsTyped ==
    /\ room \in AnyRoom /\ seat \in AnyRoom /\ shown \in AnyRoom /\ lib \in AnyRoom
    /\ inbox \in Seq(Replies)
LobbyFlags ==
    /\ launch \in BOOLEAN /\ called \in BOOLEAN /\ wasIn \in BOOLEAN
    /\ signed \in BOOLEAN /\ all \in BOOLEAN /\ dirty \in BOOLEAN
PlacesTyped ==
    /\ conn \in {"off", "connecting", "on", "ended"} /\ epoch \in 0 .. MaxConns
    /\ page \in {"idle", "read"} /\ identity \in {"none", "asking", "known"}
    /\ account \in {"guest", "waiting", "signed"} /\ clicks \in 0 .. MaxClicks
LobbyInv == QueueInv /\ SeatsTyped /\ LobbyFlags /\ PlacesTyped

LEMMA LobbyInitInv == LobbySessionInit => LobbyInv
<1> SUFFICES ASSUME LobbySessionInit PROVE LobbyInv
  OBVIOUS
<1>1. QueueInv
  BY QueueInit
<1>2. SeatsTyped
  BY DEF LobbySessionInit, SeatsTyped, AnyRoom
<1>3. LobbyFlags
  BY Zenon DEF LobbySessionInit, LobbyFlags
<1>4. 0 \in 0 .. MaxConns /\ 0 \in 0 .. MaxClicks
  BY LobbySessionAssumption
<1>5. PlacesTyped
  BY <1>4 DEF LobbySessionInit, PlacesTyped
<1> QED
  BY <1>1, <1>2, <1>3, <1>5 DEF LobbyInv

LEMMA SeatsStep == QueueInv /\ SeatsTyped /\ [LobbySessionNext]_lsVars => SeatsTyped'
<1> SUFFICES ASSUME QueueInv, SeatsTyped, [LobbySessionNext]_lsVars PROVE SeatsTyped'
  OBVIOUS
<1> USE DEF SeatsTyped
<1>0. NoRoom \in AnyRoom /\ <<>> \in Seq(Replies)
  BY DEF AnyRoom
<1>1. CASE UNCHANGED <<room, seat, shown, lib, inbox>>
  BY <1>1
<1>2. CASE Send
  <2>1. Head(out) \in Commands
    BY <1>2 DEF Send, QueueInv, QueueTyped
  <2>2. /\ Reply(Head(out)).seat \in AnyRoom
        /\ Reply(Head(out)).msg \in {"joined", "closed", "error"}
    BY <1>0, <2>1 DEF Reply, Commands, AnyRoom
  <2>3. [op |-> Reply(Head(out)).msg, room |-> Reply(Head(out)).seat] \in Replies
    BY <2>2 DEF Replies
  <2>4. /\ seat' = Reply(Head(out)).seat /\ UNCHANGED <<room, shown, lib>>
        /\ inbox' = Append(inbox, [op |-> Reply(Head(out)).msg, room |-> Reply(Head(out)).seat])
    BY <1>2 DEF Send, pageVars, libVars
  <2> QED
    BY <2>2, <2>3, <2>4
<1>3. CASE Receive
  <2>1. inbox # <<>> /\ room' = Handled(Head(inbox)).room /\ inbox' = Tail(inbox)
        /\ UNCHANGED <<seat, shown, lib>>
    BY <1>3 DEF Receive, pageVars, libVars
  <2>2. Head(inbox) \in Replies /\ Tail(inbox) \in Seq(Replies)
    BY <2>1
  <2>3. Handled(Head(inbox)).room \in AnyRoom
    BY <1>0, <2>2 DEF Handled, Replies
  <2> QED
    BY <2>1, <2>2, <2>3
<1>4. CASE Snapshot
  BY <1>4 DEF Snapshot, clientVars, libVars
<1>5. CASE FrameEnds
  BY <1>0, <1>5 DEF FrameEnds, Connect, Start
<1>6. CASE Click
  <2>1. CASE Reconnect
    <3>1. UNCHANGED <<shown, lib>>
      BY <2>1, ReconnectIs DEF pageVars, libVars
    <3>2. CASE Start
      BY <1>0, <3>1, <3>2 DEF Start
    <3>3. CASE UNCHANGED clientVars
      BY <1>1, <3>1, <3>3 DEF clientVars
    <3> QED
      BY <2>1, <3>2, <3>3, ReconnectIs DEF Connects
  <2>2. CASE Lost
    BY <1>0, <2>2 DEF Lost, pageVars, libVars
  <2>3. CASE Leave \/ SignIn
    BY <1>1, <2>3 DEF Leave, SignIn, clientVars, pageVars, libVars
  <2>4. ASSUME NEW r \in Rooms, Join(r) PROVE SeatsTyped'
    BY <2>4 DEF Join, AnyRoom, pageVars
  <2>5. ASSUME NEW op2 \in {"launch", "closed"}, HostActs(op2) PROVE SeatsTyped'
    <3>1. [op |-> op2, room |-> seat] \in Replies
      BY DEF Replies
    <3>2. /\ inbox' = Append(inbox, [op |-> op2, room |-> seat])
          /\ seat' = (IF op2 = "closed" THEN NoRoom ELSE seat) /\ UNCHANGED <<room, shown, lib>>
      BY <2>5 DEF HostActs, pageVars, libVars
    <3>3. inbox' \in Seq(Replies)
      BY <3>1, <3>2
    <3> QED
      BY <1>0, <3>2, <3>3
  <2> QED
    BY <1>6, <2>1, <2>2, <2>3, <2>4, <2>5 DEF Click
<1>7. ASSUME NEW ok \in BOOLEAN, Connected(ok) \/ SignInEnds(ok) \/ IdentityKnown(ok)
      PROVE  SeatsTyped'
  BY <1>1, <1>7 DEF Connected, SignInEnds, IdentityKnown, clientVars, pageVars, libVars
<1>8. CASE UNCHANGED lsVars
  BY <1>1, <1>8 DEF lsVars, clientVars, pageVars, libVars
<1> QED
  BY <1>2, <1>3, <1>4, <1>5, <1>6, <1>7, <1>8 DEF LobbySessionNext

LEMMA FlagsStep == SeatsTyped /\ LobbyFlags /\ [LobbySessionNext]_lsVars => LobbyFlags'
<1> SUFFICES ASSUME SeatsTyped, LobbyFlags, [LobbySessionNext]_lsVars PROVE LobbyFlags'
  OBVIOUS
<1> USE DEF LobbyFlags
<1>0. ASSUME UNCHANGED <<launch, called, wasIn, signed, all>>,
             dirty' = dirty \/ dirty' = (dirty \/ all)
      PROVE  LobbyFlags'
  BY <1>0, Zenon
<1>1. ASSUME UNCHANGED <<launch, called, wasIn, signed, all, dirty>> PROVE LobbyFlags'
  BY <1>0, <1>1
<1>2. CASE Receive
  <2>1. launch' = Handled(Head(inbox)).launch /\ UNCHANGED <<called, wasIn, signed, all, dirty>>
    BY <1>2 DEF Receive, pageVars, scopeVars
  <2>2. launch' = TRUE \/ launch' = FALSE \/ launch' = launch
    BY <2>1 DEF Handled
  <2> QED
    BY <2>1, <2>2
<1>3. CASE Snapshot
  <2>1. called' = launch /\ UNCHANGED <<launch, wasIn, signed, all, dirty>>
    BY <1>3 DEF Snapshot, clientVars, scopeVars
  <2> QED
    BY <2>1, Zenon
<1>4. CASE FrameEnds
  <2>1. wasIn' = (shown # NoRoom) /\ UNCHANGED <<called, all>>
    BY <1>4 DEF FrameEnds
  <2>2. \/ launch' = FALSE /\ signed' = (account' = "signed") /\ dirty' = FALSE
        \/ /\ launch' = FALSE \/ launch' = launch
           /\ signed' = signed
           /\ dirty' = dirty \/ dirty' = (dirty \/ all)
    BY <1>4, Zenon DEF FrameEnds, Connect, Start, AckLaunch, SendPending
  <2> QED
    BY <2>1, <2>2, Zenon
<1>5. CASE Click
  <2>1. CASE Reconnect
    <3>1. UNCHANGED <<called, wasIn>> /\ (all' = all \/ all' = ~all)
      BY <2>1, ReconnectIs DEF pageVars
    <3>2. \/ launch' = FALSE /\ signed' = (account' = "signed") /\ dirty' = FALSE
          \/ UNCHANGED <<launch, signed, dirty>>
      BY <2>1, ReconnectIs DEF Connects, Start, clientVars
    <3> QED
      BY <3>1, <3>2, Zenon
  <2>2. CASE Lost
    <3>1. launch' = FALSE /\ UNCHANGED <<called, wasIn, signed, all, dirty>>
      BY <2>2 DEF Lost, pageVars, scopeVars
    <3> QED
      BY <3>1, Zenon
  <2>3. CASE Leave \/ SignIn
    BY <1>1, <2>3 DEF Leave, SignIn, clientVars, pageVars, scopeVars
  <2>4. ASSUME NEW r \in Rooms, Join(r) PROVE LobbyFlags'
    <3>1. UNCHANGED <<launch, called, wasIn, signed, all>>
      BY <2>4 DEF Join, pageVars
    <3>2. dirty' = dirty \/ dirty' = (dirty \/ all)
      BY <2>4 DEF Join
    <3> QED
      BY <1>0, <3>1, <3>2
  <2>5. ASSUME NEW op2 \in {"launch", "closed"}, HostActs(op2) PROVE LobbyFlags'
    BY <1>1, <2>5 DEF HostActs, pageVars, scopeVars
  <2> QED
    BY <1>5, <2>1, <2>2, <2>3, <2>4, <2>5 DEF Click
<1>6. ASSUME NEW ok \in BOOLEAN, Connected(ok) \/ SignInEnds(ok) \/ IdentityKnown(ok)
      PROVE  LobbyFlags'
  BY <1>1, <1>6 DEF Connected, SignInEnds, IdentityKnown, clientVars, pageVars, scopeVars
<1>7. CASE Send \/ UNCHANGED lsVars
  BY <1>1, <1>7 DEF Send, lsVars, clientVars, pageVars, scopeVars
<1> QED
  BY <1>2, <1>3, <1>4, <1>5, <1>6, <1>7 DEF LobbySessionNext

LEMMA PlacesStep == PlacesTyped /\ [LobbySessionNext]_lsVars => PlacesTyped'
<1> SUFFICES ASSUME PlacesTyped, [LobbySessionNext]_lsVars PROVE PlacesTyped'
  OBVIOUS
<1> USE DEF PlacesTyped
<1>1. CASE UNCHANGED <<conn, epoch, page, identity, account, clicks>>
  BY <1>1
<1>2. ASSUME Start PROVE conn' = "connecting" /\ epoch' \in 0 .. MaxConns
  BY <1>2, LobbySessionAssumption DEF Start
<1>3. CASE Send \/ Receive \/ UNCHANGED lsVars
  BY <1>1, <1>3 DEF Send, Receive, lsVars, clientVars, pageVars, libVars
<1>4. CASE Snapshot
  BY <1>4 DEF Snapshot, clientVars, libVars
<1>5. CASE FrameEnds
  <2>1. page' = "idle" /\ UNCHANGED <<identity, account, clicks>>
    BY <1>5 DEF FrameEnds
  <2>2. Start \/ UNCHANGED <<conn, epoch>>
    BY <1>5 DEF FrameEnds, Connect
  <2> QED
    BY <1>2, <2>1, <2>2
<1>6. CASE Click
  <2>1. clicks' \in 0 .. MaxClicks
    BY <1>6, LobbySessionAssumption DEF Click
  <2>2. CASE Reconnect
    <3>1. UNCHANGED <<page, identity>> /\ account' \in {account, "guest", "waiting"}
      BY <2>2, ReconnectIs DEF pageVars, libVars
    <3>2. Start \/ UNCHANGED <<conn, epoch>>
      BY <2>2, ReconnectIs DEF Connects, clientVars
    <3> QED
      BY <1>2, <2>1, <3>1, <3>2
  <2>3. CASE Lost \/ Leave \/ SignIn
    BY <2>1, <2>3 DEF Lost, Leave, SignIn, clientVars, pageVars, libVars
  <2>4. ASSUME NEW r \in Rooms, Join(r) PROVE PlacesTyped'
    BY <2>1, <2>4 DEF Join, pageVars
  <2>5. ASSUME NEW op2 \in {"launch", "closed"}, HostActs(op2) PROVE PlacesTyped'
    BY <2>1, <2>5 DEF HostActs, pageVars, libVars
  <2> QED
    BY <1>6, <2>2, <2>3, <2>4, <2>5 DEF Click
<1>7. ASSUME NEW ok \in BOOLEAN, Connected(ok) \/ SignInEnds(ok) \/ IdentityKnown(ok)
      PROVE  PlacesTyped'
  BY <1>7 DEF Connected, SignInEnds, IdentityKnown, clientVars, pageVars, libVars
<1> QED
  BY <1>3, <1>4, <1>5, <1>6, <1>7 DEF LobbySessionNext

LEMMA LobbyStep == LobbyInv /\ [LobbySessionNext]_lsVars => LobbyInv'
  BY QueueStep, SeatsStep, FlagsStep, PlacesStep DEF LobbyInv

LEMMA LobbyTypedOK == LobbyInv => LobbySessionTypeOK
<1> SUFFICES ASSUME LobbyInv PROVE LobbySessionTypeOK
  OBVIOUS
<1>1. {launch, called, wasIn, signed, all, dirty} \subseteq BOOLEAN
  BY Zenon DEF LobbyInv, LobbyFlags
<1>2. {room, seat, shown, lib, pending} \subseteq Rooms \union {NoRoom}
  BY DEF LobbyInv, SeatsTyped, QueueInv, QueueTyped, AnyRoom
<1>3. heldIn \in 0 .. epoch
  BY DEF LobbyInv, QueueInv, QueueTyped
<1> QED
  BY <1>1, <1>2, <1>3 DEF LobbyInv, PlacesTyped, LobbySessionTypeOK

(* Whatever the user clicks, the server says and the connection does, the  *)
(* rooms a hub shows, waits for and has a seat in are rooms there are      *)
(* (hub_netplay.cpp, netplay_client.cpp).                                  *)
THEOREM LobbySessionTyped == LobbySessionSpec => []LobbySessionTypeOK
  BY LobbyInitInv, LobbyStep, LobbyTypedOK, PTL DEF LobbySessionSpec
-----------------------------------------------------------------------------
(* A match's runner has the room's port to itself: the hub let it go first *)
(* and takes none while the match runs (hub_netplay.cpp:3187-3203).        *)
THEOREM PortIsTheRunnersHolds == HostRelaySpec => []PortIsTheRunners
<1>1. HostRelayInit => PortIsTheRunners
  BY DEF HostRelayInit, PortIsTheRunners
<1>2. PortIsTheRunners /\ [HostRelayNext]_hoVars => PortIsTheRunners'
  <2> SUFFICES ASSUME PortIsTheRunners, [HostRelayNext]_hoVars
               PROVE  PortIsTheRunners'
    OBVIOUS
  <2> USE DEF PortIsTheRunners
  <2>1. ASSUME NEW p \in Ports \ {runner}, OpenPort(p)  PROVE PortIsTheRunners'
    BY <2>1 DEF OpenPort
  <2>2. ASSUME NEW ok \in BOOLEAN, LaunchAsHost(ok)  PROVE PortIsTheRunners'
    BY <2>2 DEF LaunchAsHost, StopPort
  <2>3. CASE GiveBack
    BY <2>3 DEF GiveBack, StopPort
  <2>4. CASE RunnerEnds
    BY <2>4 DEF RunnerEnds
  <2>5. CASE \/ \E r \in Lobbies : Enter(r)
             \/ \E yes \in BOOLEAN : RouterAnswers(yes)
             \/ LeaveRoom \/ NameAddress \/ ProbeHost \/ ProbeEnds \/ UNCHANGED hoVars
    <3>1. UNCHANGED <<port, runner>>
      BY <2>5 DEF Enter, RouterAnswers, LeaveRoom, NameAddress, ProbeHost, ProbeEnds, hoVars
    <3>2. QED
      BY <3>1
  <2>6. QED
    BY <2>1, <2>2, <2>3, <2>4, <2>5 DEF HostRelayNext
<1>3. QED
  BY <1>1, <1>2, PTL DEF HostRelaySpec

(* The port of a hosted room; the router is asked about the one that is    *)
(* open.                                                                   *)
PortsTyped ==
    /\ {port, mapped, runner} \subseteq Ports \union {NoPort}
    /\ router \subseteq Ports /\ asked \in {"no", "asking", "done"}
    /\ asked = "asking" => port \in Ports
RelayBooleans == away \in BOOLEAN /\ open \in BOOLEAN /\ named \in BOOLEAN
GuestTyped ==
    /\ lobby \in Lobbies \union {NoLobby}
    /\ {probed, probe, verdict.of} \subseteq Addresses \union {NoAddress}
RelayTyped == PortsTyped /\ RelayBooleans /\ GuestTyped

LEMMA RelayInit == HostRelayInit => RelayTyped
<1>1. HostRelayInit => RelayBooleans
  BY Zenon DEF HostRelayInit, RelayBooleans
<1> QED
  BY <1>1 DEF HostRelayInit, RelayTyped, PortsTyped, GuestTyped

LEMMA PortsStep == PortsTyped /\ [HostRelayNext]_hoVars => PortsTyped'
<1> SUFFICES ASSUME PortsTyped, [HostRelayNext]_hoVars PROVE PortsTyped'
  OBVIOUS
<1> USE DEF PortsTyped
<1>1. CASE UNCHANGED <<port, mapped, runner, router, asked>>
  BY <1>1
<1>2. ASSUME NEW r \in Lobbies, Enter(r) PROVE PortsTyped'
  BY <1>1, <1>2 DEF Enter
<1>3. ASSUME NEW p \in Ports \ {runner}, OpenPort(p) PROVE PortsTyped'
  BY <1>3 DEF OpenPort
<1>4. ASSUME NEW yes \in BOOLEAN, RouterAnswers(yes) PROVE PortsTyped'
  BY <1>4 DEF RouterAnswers
<1>5. ASSUME NEW yes \in BOOLEAN, LaunchAsHost(yes) PROVE PortsTyped'
  BY <1>5 DEF LaunchAsHost, StopPort
<1>6. CASE GiveBack
  BY <1>6 DEF GiveBack, StopPort
<1>7. CASE RunnerEnds
  BY <1>7 DEF RunnerEnds
<1>8. CASE LeaveRoom \/ NameAddress \/ ProbeHost \/ ProbeEnds \/ UNCHANGED hoVars
  BY <1>1, <1>8 DEF LeaveRoom, NameAddress, ProbeHost, ProbeEnds, hoVars
<1> QED
  BY <1>2, <1>3, <1>4, <1>5, <1>6, <1>7, <1>8 DEF HostRelayNext

LEMMA GuestStep == GuestTyped /\ [HostRelayNext]_hoVars => GuestTyped'
<1> SUFFICES ASSUME GuestTyped, [HostRelayNext]_hoVars PROVE GuestTyped'
  OBVIOUS
<1> USE DEF GuestTyped
<1>1. CASE UNCHANGED <<lobby, probed, probe, verdict>>
  BY <1>1
<1>2. ASSUME NEW r \in Lobbies, Enter(r) PROVE GuestTyped'
  BY <1>2 DEF Enter
<1>3. CASE LeaveRoom
  BY <1>3 DEF LeaveRoom
<1>4. CASE GiveBack
  BY <1>4 DEF GiveBack, ForgetHost
<1>5. CASE ProbeHost
  BY <1>5 DEF ProbeHost, Addresses
<1>6. CASE ProbeEnds
  BY <1>6 DEF ProbeEnds
<1>7. ASSUME NEW p \in Ports \ {runner}, OpenPort(p) PROVE GuestTyped'
  BY <1>1, <1>7 DEF OpenPort
<1>8. ASSUME NEW yes \in BOOLEAN, RouterAnswers(yes) \/ LaunchAsHost(yes) PROVE GuestTyped'
  BY <1>1, <1>8 DEF RouterAnswers, LaunchAsHost
<1>9. CASE NameAddress \/ RunnerEnds \/ UNCHANGED hoVars
  BY <1>1, <1>9 DEF NameAddress, RunnerEnds, hoVars
<1> QED
  BY <1>2, <1>3, <1>4, <1>5, <1>6, <1>7, <1>8, <1>9 DEF HostRelayNext

LEMMA BooleansStep == RelayBooleans /\ [HostRelayNext]_hoVars => RelayBooleans'
<1> SUFFICES ASSUME RelayBooleans, [HostRelayNext]_hoVars PROVE RelayBooleans'
  OBVIOUS
<1> USE DEF RelayBooleans
<1>1. CASE UNCHANGED <<away, open, named>>
  BY <1>1
<1>2. ASSUME NEW r \in Lobbies, Enter(r) PROVE RelayBooleans'
  BY <1>2, Zenon DEF Enter
<1>3. ASSUME NEW p \in Ports \ {runner}, OpenPort(p) PROVE RelayBooleans'
  BY <1>3, Zenon DEF OpenPort
<1>4. ASSUME NEW yes \in BOOLEAN, RouterAnswers(yes) PROVE RelayBooleans'
  BY <1>1, <1>4 DEF RouterAnswers
<1>5. ASSUME NEW yes \in BOOLEAN, LaunchAsHost(yes) PROVE RelayBooleans'
  BY <1>5, Zenon DEF LaunchAsHost
<1>6. CASE GiveBack
  BY <1>6, Zenon DEF GiveBack
<1>7. CASE NameAddress
  BY <1>7, Zenon DEF NameAddress
<1>8. CASE LeaveRoom \/ RunnerEnds \/ ProbeHost \/ ProbeEnds \/ UNCHANGED hoVars
  BY <1>1, <1>8 DEF LeaveRoom, RunnerEnds, ProbeHost, ProbeEnds, hoVars
<1> QED
  BY <1>2, <1>3, <1>4, <1>5, <1>6, <1>7, <1>8 DEF HostRelayNext

LEMMA RelayStep == RelayTyped /\ [HostRelayNext]_hoVars => RelayTyped'
  BY PortsStep, GuestStep, BooleansStep DEF RelayTyped

LEMMA RelayTypedOK == RelayTyped => HostRelayTypeOK
<1> SUFFICES ASSUME RelayTyped PROVE HostRelayTypeOK
  OBVIOUS
<1>1. {away, open, named} \subseteq BOOLEAN
  BY Zenon DEF RelayTyped, RelayBooleans
<1> QED
  BY <1>1 DEF RelayTyped, PortsTyped, GuestTyped, HostRelayTypeOK

(* Only ports the hub had open are forwarded or bound by a match, however  *)
(* rooms, matches and the router's answers follow one another              *)
(* (netplay_nat.cpp, hub_netplay.cpp:3187-3203).                           *)
THEOREM HostRelayTyped == HostRelaySpec => []HostRelayTypeOK
  BY RelayInit, RelayStep, RelayTypedOK, PTL DEF HostRelaySpec
-----------------------------------------------------------------------------
(* Rooms on the local network.                                             *)
Probes == [of : Asked \union {Nothing}, pending : BOOLEAN, answered : BOOLEAN]
Known == Hosts \union Announcers
ListsTyped ==
    /\ up \subseteq Known /\ asks \subseteq Hosts /\ lanRooms \subseteq Known
    /\ direct \subseteq lanRooms /\ silent \subseteq lanRooms
Askable == Asked \union {Nothing}
TurnTyped ==
    queued \in Askable /\ worker \in Askable /\ deadline \in {"none", "ahead", "passed"}

LEMMA LanInitTyped == LanBrowserInit => LanBrowserTypeOK
<1>1. LanBrowserInit => reached \in BOOLEAN
  BY Zenon DEF LanBrowserInit
<1> QED
  BY <1>1 DEF LanBrowserInit, LanBrowserTypeOK

LEMMA LanStep == LanBrowserTypeOK /\ [LanBrowserNext]_lbVars => LanBrowserTypeOK'
<1> SUFFICES ASSUME LanBrowserTypeOK, [LanBrowserNext]_lbVars PROVE LanBrowserTypeOK'
  OBVIOUS
<1>0. last \in Probes /\ ListsTyped /\ TurnTyped
  BY DEF LanBrowserTypeOK, Probes, ListsTyped, Known, TurnTyped, Askable
<1>1. ASSUME NEW a \in Asked, LookUp(a) PROVE last' \in Probes /\ ListsTyped' /\ TurnTyped'
  BY <1>0, <1>1 DEF LookUp, Probes, ListsTyped, TurnTyped, Askable
<1>2. ASSUME NEW a \in Asked, OpenOrClose(a) PROVE last' \in Probes /\ ListsTyped' /\ TurnTyped'
  BY <1>0, <1>2 DEF OpenOrClose, ListsTyped, TurnTyped, Known
<1>3. ASSUME NEW a \in Asked, FallSilent(a) \/ LosePacket(a) \/ HearAnnounce(a)
      PROVE  last' \in Probes /\ ListsTyped' /\ TurnTyped'
  BY <1>0, <1>3 DEF FallSilent, LosePacket, HearAnnounce, ListsTyped, TurnTyped, Known
<1>4. ASSUME NEW a \in Asked, Beacon(a) PROVE last' \in Probes /\ ListsTyped' /\ TurnTyped'
  <2>1. last' \in Probes
    BY <1>0, <1>4 DEF Beacon, Settle, Probes
  <2>2. ListsTyped' /\ TurnTyped'
    BY <1>0, <1>4 DEF Beacon, Settle, ListsTyped, TurnTyped, Known
  <2> QED
    BY <2>1, <2>2
<1>5. ASSUME DeadlinePasses \/ Browse \/ UNCHANGED lbVars PROVE last' \in Probes /\ ListsTyped' /\ TurnTyped'
  BY <1>0, <1>5, LanBrowserAssumption DEF DeadlinePasses, Browse, lbVars, ListsTyped, TurnTyped
<1>6. ASSUME Turn PROVE last' \in Probes /\ ListsTyped' /\ TurnTyped'
  <2>1. last' \in Probes
    BY <1>0, <1>6 DEF Turn, Probes
  <2>2. ListsTyped'
    BY <1>0, <1>6 DEF Turn, Expire, ListsTyped
  <2>3. TurnTyped'
    BY <1>0, <1>6 DEF Turn, TurnTyped, Askable
  <2> QED
    BY <2>1, <2>2, <2>3
<1>7. last' \in Probes /\ ListsTyped' /\ TurnTyped'
  BY <1>1, <1>2, <1>3, <1>4, <1>5, <1>6 DEF LanBrowserNext
<1>8. reached' \in BOOLEAN
  <2>0. reached \in BOOLEAN
    BY DEF LanBrowserTypeOK
  <2>1. CASE UNCHANGED reached
    BY <2>0, <2>1
  <2>2. CASE Turn
    <3>1. reached' = (queued \in up \cap Hosts) \/ reached' = reached
      BY <2>2 DEF Turn
    <3>2. (queued \in up \cap Hosts) \in BOOLEAN
      OBVIOUS
    <3>3. ASSUME reached' = (queued \in up \cap Hosts) PROVE reached' \in BOOLEAN
      BY <3>2, <3>3, Zenon
    <3> QED
      BY <2>0, <3>1, <3>3
  <2>3. ASSUME NEW a \in Asked, LosePacket(a) PROVE reached' \in BOOLEAN
    <3>1. reached' = (reached /\ a # worker)
      BY <2>3 DEF LosePacket
    <3> QED
      BY <3>1, Zenon
  <2>4. ASSUME NEW a \in Asked,
               LookUp(a) \/ OpenOrClose(a) \/ FallSilent(a) \/ Beacon(a) \/ HearAnnounce(a)
        PROVE  reached' = reached
    BY <2>4 DEF LookUp, OpenOrClose, FallSilent, Beacon, HearAnnounce
  <2>5. CASE DeadlinePasses \/ Browse \/ UNCHANGED lbVars
    BY <2>1, <2>5 DEF DeadlinePasses, Browse, lbVars
  <2> QED
    BY <2>1, <2>2, <2>3, <2>4, <2>5 DEF LanBrowserNext
<1> QED
  BY <1>7, <1>8 DEF LanBrowserTypeOK, Probes, ListsTyped, Known, TurnTyped, Askable

(* Whatever packets are lost or late, a room marked as found by a look-up  *)
(* or as silent is on the list, and only who answers is listed             *)
(* (netplay_lan.cpp:201-335).                                              *)
THEOREM LanBrowserTyped == LanBrowserSpec => []LanBrowserTypeOK
  BY LanInitTyped, LanStep, PTL DEF LanBrowserSpec
-----------------------------------------------------------------------------
(* The paks of a Transfer Pak room.                                        *)
Snaps == UNION {[S -> Seats] : S \in SUBSET Players}
Saves == 0 .. MaxVer
Paks == [seat : Seats, ver : Saves]
PakMsgs == [op : {"pak"}, from : Players, seat : Seats, ver : Saves]
RoomMsgs == [op : {"room"}, members : Snaps]
Msgs == RoomMsgs \cup PakMsgs \cup [op : {"launch"}, slots : Snaps]
PaksTyped ==
    /\ seated \in Snaps /\ members \in [Players -> Snaps]
    /\ mail \in [Players -> Seq(Msgs)] /\ signals \in [Players -> Seq(PakMsgs)]
    /\ ver \in [Players -> Saves] /\ DOMAIN sentTo = Players
    /\ paks \in [Players -> [Players -> Paks]]

(* The last pak of q among ms is v.                                        *)
LastIs(ms, q, v) ==
    \E i \in From(ms, q) : ms[i].ver = v /\ \A j \in From(ms, q) : j <= i
(* What the host will hold of q once it has handled what is on its way.    *)
Arrives(q, v) ==
    \/ LastIs(mail[Host], q, v)
    \/ From(mail[Host], q) = {} /\ LastIs(signals[Host], q, v)
    \/ From(mail[Host], q) = {} /\ From(signals[Host], q) = {} /\ paks[Host][q].ver = v

OfRoom(m) == m.op = "room"
(* What a player with a seat has heard of it.                              *)
Heard(p) ==
    /\ \A i \in DOMAIN mail[p] : OfRoom(mail[p][i]) => p \in DOMAIN mail[p][i].members
    /\ IF members[p] = Nowhere
       THEN mail[p] # <<>> /\ OfRoom(Head(mail[p])) /\ sentTo[p] = {} /\ p # Host
       ELSE p \in DOMAIN members[p]
(* A page that took a pak has sent it and holds it itself.                 *)
Sent(p) ==
    /\ ver[p] = 0 => sentTo[p] = {}
    /\ ver[p] # 0 => paks[p][p].ver = ver[p]
    /\ From(mail[p], p) = {} /\ From(signals[p], p) = {}
PakInv ==
    /\ PaksTyped /\ Host \in DOMAIN seated
    /\ \A p \in Players : Sent(p)
    /\ \A p \in DOMAIN seated : Heard(p)
    /\ hurt \subseteq Players
    /\ \A q \in DOMAIN seated \ ({Host} \union hurt) : ver[q] # 0 => Arrives(q, ver[q])

LEMMA SnapIs ==
  ASSUME NEW m \in Snaps
  PROVE  DOMAIN m \subseteq Players /\ \A p \in DOMAIN m : m[p] \in Seats
  BY DEF Snaps

LEMMA IsSnap ==
  ASSUME NEW S \in SUBSET Players, NEW m \in [S -> Seats]
  PROVE  m \in Snaps
  BY DEF Snaps

LEMMA NoPakIs == 0 \in Saves /\ NoPak \in Paks
  BY PakRoomAssumption DEF Saves, Paks, NoPak

LEMMA PaksOf ==
  ASSUME PaksTyped, NEW p \in Players
  PROVE  /\ paks[p] \in [Players -> Paks] /\ DOMAIN paks[p] = Players
         /\ ver[p] \in Saves /\ ver[p] \in Nat
  BY DEF PaksTyped, Saves

LEMMA NowhereIs == Nowhere \in Snaps /\ DOMAIN Nowhere = {}
<1>1. Nowhere \in [{} -> Seats] /\ DOMAIN Nowhere = {}
  BY DEF Nowhere
<1> QED
  BY <1>1, IsSnap

(* What a message that comes last, or the first one that goes, changes.    *)
LEMMA AppendFrom ==
  ASSUME NEW s \in Seq(Msgs), NEW m \in Msgs, NEW q
  PROVE  /\ ~(m.op = "pak" /\ m.from = q) =>
              /\ From(Append(s, m), q) = From(s, q)
              /\ \A v : LastIs(s, q, v) => LastIs(Append(s, m), q, v)
         /\ m.op = "pak" /\ m.from = q => LastIs(Append(s, m), q, m.ver)
<1> DEFINE t == Append(s, m)
<1>1. /\ t \in Seq(Msgs) /\ Len(t) = Len(s) + 1 /\ Len(s) \in Nat
      /\ DOMAIN s = 1..Len(s) /\ DOMAIN t = 1..(Len(s) + 1)
      /\ \A i \in 1..Len(s) : t[i] = s[i]
      /\ t[Len(s) + 1] = m
  OBVIOUS
<1> HIDE DEF t
<1>2. ASSUME ~(m.op = "pak" /\ m.from = q) PROVE From(t, q) = From(s, q)
  BY <1>1, <1>2 DEF From
<1>3. ASSUME ~(m.op = "pak" /\ m.from = q), NEW v, LastIs(s, q, v) PROVE LastIs(t, q, v)
  <2>1. \A i \in From(s, q) : t[i] = s[i]
    BY <1>1 DEF From
  <2> QED
    BY <1>2, <1>3, <2>1 DEF LastIs
<1>4. ASSUME m.op = "pak", m.from = q PROVE LastIs(t, q, m.ver)
  <2>1. Len(s) + 1 \in From(t, q) /\ \A j \in From(t, q) : j <= Len(s) + 1
    BY <1>1, <1>4 DEF From
  <2> QED
    BY <1>1, <2>1 DEF LastIs
<1> QED
  BY <1>2, <1>3, <1>4 DEF t

LEMMA TailFrom ==
  ASSUME NEW s \in Seq(Msgs), s # <<>>, NEW q
  PROVE  /\ From(s, q) = {} => From(Tail(s), q) = {}
         /\ \A v : LastIs(s, q, v) =>
              \/ LastIs(Tail(s), q, v)
              \/ /\ From(Tail(s), q) = {} /\ Head(s).op = "pak"
                 /\ Head(s).from = q /\ Head(s).ver = v
<1> DEFINE t == Tail(s)
<1>1. /\ Len(s) \in Nat /\ Len(s) > 0
      /\ DOMAIN s = 1..Len(s) /\ DOMAIN t = 1..(Len(s) - 1)
      /\ \A i \in 1..(Len(s) - 1) : t[i] = s[i + 1]
      /\ Head(s) = s[1]
  OBVIOUS
<1> HIDE DEF t
<1>2. \A i \in From(t, q) : i + 1 \in From(s, q)
  BY <1>1 DEF From
<1>3. \A i \in From(s, q) : i # 1 => i - 1 \in From(t, q) /\ t[i - 1] = s[i]
  <2> SUFFICES ASSUME NEW i \in From(s, q), i # 1
               PROVE  i - 1 \in From(t, q) /\ t[i - 1] = s[i]
    OBVIOUS
  <2>1. i \in 1..Len(s) /\ i - 1 \in 1..(Len(s) - 1) /\ (i - 1) + 1 = i
    BY <1>1 DEF From
  <2>2. t[i - 1] = s[i]
    BY <1>1, <2>1
  <2> QED
    BY <1>1, <2>1, <2>2 DEF From
<1>4. ASSUME NEW v, LastIs(s, q, v), ~LastIs(t, q, v)
      PROVE  From(t, q) = {} /\ Head(s).op = "pak" /\ Head(s).from = q /\ Head(s).ver = v
  <2>1. PICK i \in From(s, q) : s[i].ver = v /\ \A j \in From(s, q) : j <= i
    BY <1>4 DEF LastIs
  <2>2. i \in 1..Len(s)
    BY <1>1 DEF From
  <2>3. i = 1
    <3> SUFFICES ASSUME i # 1 PROVE FALSE
      OBVIOUS
    <3>1. i - 1 \in From(t, q) /\ t[i - 1].ver = v
      BY <1>3, <2>1
    <3>2. \A j \in From(t, q) : j \in 1..(Len(s) - 1) /\ j + 1 <= i
      BY <1>1, <1>2, <2>1 DEF From
    <3>3. \A j \in From(t, q) : j <= i - 1
      BY <1>1, <2>2, <3>2
    <3> QED
      BY <1>4, <3>1, <3>3 DEF LastIs
  <2>4. From(t, q) = {}
    <3> SUFFICES ASSUME NEW j \in From(t, q) PROVE FALSE
      OBVIOUS
    <3>1. j \in 1..(Len(s) - 1) /\ j + 1 <= 1
      BY <1>1, <1>2, <2>1, <2>3 DEF From
    <3> QED
      BY <1>1, <3>1
  <2> QED
    BY <1>1, <2>1, <2>3, <2>4 DEF From
<1> QED
  BY <1>2, <1>4 DEF t

(* A message of the lobby server to some of the players.                   *)
LEMMA TellIs ==
  ASSUME PaksTyped, NEW who \in SUBSET Players, NEW m \in Msgs
  PROVE  /\ Tell(who, m) \in [Players -> Seq(Msgs)]
         /\ \A p \in Players : Tell(who, m)[p] = IF p \in who THEN Append(mail[p], m) ELSE mail[p]
<1>1. \A p \in Players : mail[p] \in Seq(Msgs) /\ Append(mail[p], m) \in Seq(Msgs)
  BY DEF PaksTyped
<1> QED
  BY <1>1 DEF Tell

LEMMA HeardStays ==
  ASSUME NEW p \in Players, PaksTyped, Heard(p), NEW m \in Msgs,
         OfRoom(m) => p \in DOMAIN m.members,
         mail'[p] = mail[p] \/ mail'[p] = Append(mail[p], m),
         members'[p] = members[p], sentTo'[p] = sentTo[p]
  PROVE  Heard(p)'
<1>1. CASE mail'[p] = mail[p]
  BY <1>1 DEF Heard
<1>2. CASE mail'[p] = Append(mail[p], m)
  <2> DEFINE s == mail[p]
             t == Append(s, m)
  <2>1. s \in Seq(Msgs)
    BY DEF PaksTyped
  <2>2. /\ Len(s) \in Nat /\ DOMAIN s = 1..Len(s) /\ DOMAIN t = 1..(Len(s) + 1)
        /\ \A i \in 1..Len(s) : t[i] = s[i]
        /\ t[Len(s) + 1] = m
        /\ t # <<>>
        /\ s # <<>> => Head(t) = Head(s)
    BY <2>1
  <2>3. mail'[p] = t /\ mail[p] = s
    BY <1>2
  <2> HIDE DEF s, t
  <2>4. \A i \in DOMAIN t : OfRoom(t[i]) => p \in DOMAIN t[i].members
    BY <2>2, <2>3 DEF Heard
  <2> QED
    BY <2>2, <2>3, <2>4 DEF Heard
<1> QED
  BY <1>1, <1>2

(* News of the room, or a launch, hide nobody's pak.                       *)
LEMMA NewsStep ==
  ASSUME PakInv, NEW m \in Msgs, NEW n \in Msgs, m.op # "pak", n.op # "pak",
         mail' \in [Players -> Seq(Msgs)],
         \A p \in Players : \/ mail'[p] = mail[p]
                            \/ mail'[p] = Append(mail[p], m)
                            \/ mail'[p] = Append(mail[p], n),
         UNCHANGED <<members, signals, ver, sentTo, paks>>
  PROVE  /\ \A p \in Players : Sent(p)'
         /\ \A q \in Players : Arrives(q, ver[q]) => Arrives(q, ver[q])'
<1>1. ASSUME NEW p \in Players, NEW q
      PROVE  /\ From(mail'[p], q) = From(mail[p], q)
             /\ \A v : LastIs(mail[p], q, v) => LastIs(mail'[p], q, v)
  <2>1. mail[p] \in Seq(Msgs)
    BY DEF PakInv, PaksTyped
  <2>2. CASE mail'[p] = mail[p]
    BY <2>2
  <2>3. CASE mail'[p] = Append(mail[p], m)
    BY <2>1, <2>3, AppendFrom
  <2>4. CASE mail'[p] = Append(mail[p], n)
    BY <2>1, <2>4, AppendFrom
  <2> QED
    BY <2>2, <2>3, <2>4
<1>2. ASSUME NEW p \in Players PROVE Sent(p)'
  BY <1>1 DEF PakInv, Sent
<1>3. ASSUME NEW q \in Players, Arrives(q, ver[q]) PROVE Arrives(q, ver[q])'
  BY <1>1, <1>3, PakRoomAssumption DEF Arrives
<1> QED
  BY <1>2, <1>3

LEMMA JoinStep ==
  ASSUME PakInv, NEW p \in Players, JoinSeat(p)
  PROVE  PakInv'
<1>1. PICK s \in Seats :
            /\ seated' = [q \in DOMAIN seated \union {p} |-> IF q = p THEN s ELSE seated[q]]
            /\ mail' = Tell(DOMAIN seated', RoomMsg(seated'))
  BY DEF JoinSeat, Free, Reseat
<1>2. /\ p \notin DOMAIN seated /\ mail[p] = <<>> /\ members[p] = Nowhere
      /\ paks[p] = [q \in Players |-> NoPak]
      /\ UNCHANGED <<members, signals, ver, sentTo, paks, hurt>>
  BY DEF JoinSeat, LeaveFrameDue, Reseat
<1>3. DOMAIN seated' = DOMAIN seated \cup {p} /\ seated' \in Snaps
  <2>1. DOMAIN seated' = DOMAIN seated \cup {p} /\ \A q \in DOMAIN seated' : seated'[q] \in Seats
    BY <1>1, SnapIs DEF PakInv, PaksTyped
  <2>2. seated' \in [DOMAIN seated' -> Seats]
    BY <1>1, <2>1
  <2> QED
    BY <2>1, <2>2, SnapIs, IsSnap DEF PakInv, PaksTyped
<1>4. /\ RoomMsg(seated') \in Msgs /\ RoomMsg(seated').op = "room"
      /\ RoomMsg(seated').members = seated'
  BY <1>3 DEF RoomMsg, Msgs, RoomMsgs
<1>5. DOMAIN seated' \in SUBSET Players
  BY <1>3, SnapIs
<1>6. /\ mail' \in [Players -> Seq(Msgs)]
      /\ \A q \in Players :
           mail'[q] = IF q \in DOMAIN seated' THEN Append(mail[q], RoomMsg(seated')) ELSE mail[q]
  <2> DEFINE t == Tell(DOMAIN seated', RoomMsg(seated'))
  <2>1. /\ t \in [Players -> Seq(Msgs)]
        /\ \A q \in Players :
             t[q] = IF q \in DOMAIN seated' THEN Append(mail[q], RoomMsg(seated')) ELSE mail[q]
    BY <1>4, <1>5, TellIs DEF PakInv
  <2> QED
    BY <1>1, <2>1
<1>7. /\ \A q \in Players : Sent(q)'
      /\ \A q \in Players : Arrives(q, ver[q]) => Arrives(q, ver[q])'
  BY <1>2, <1>4, <1>6, NewsStep
<1>8. ver[p] = 0 /\ sentTo[p] = {}
  BY <1>2 DEF PakInv, Sent, NoPak
<1>9. \A q \in DOMAIN seated : Heard(q)'
  BY <1>2, <1>3, <1>4, <1>5, <1>6, HeardStays DEF PakInv, OfRoom
<1>10. Heard(p)'
  <2>1. mail'[p] = <<RoomMsg(seated')>>
    BY <1>2, <1>3, <1>4, <1>6
  <2>2. p # Host
    BY <1>2 DEF PakInv
  <2> QED
    BY <1>2, <1>3, <1>4, <1>8, <2>1, <2>2 DEF Heard, OfRoom
<1> QED
  BY <1>2, <1>3, <1>5, <1>6, <1>7, <1>8, <1>9, <1>10 DEF PakInv, PaksTyped

LEMMA LeaveStep ==
  ASSUME PakInv, NEW p \in Players, LeaveSeat(p)
  PROVE  PakInv'
<1> DEFINE n == RoomMsg(Nowhere)
           t == Tell(DOMAIN seated', RoomMsg(seated'))
<1>1. /\ seated' = Restrict(seated, DOMAIN seated \ {p})
      /\ mail' = [t EXCEPT ![p] = Append(mail[p], n)]
      /\ p # Host
      /\ UNCHANGED <<members, signals, ver, sentTo, paks, hurt>>
  BY DEF LeaveSeat, Reseat
<1>2. DOMAIN seated' = DOMAIN seated \ {p} /\ seated' \in Snaps
  <2>1. seated' \in [DOMAIN seated \ {p} -> Seats]
    BY <1>1, SnapIs DEF PakInv, PaksTyped, Restrict
  <2> QED
    BY <2>1, SnapIs, IsSnap DEF PakInv, PaksTyped
<1>3. /\ RoomMsg(seated') \in Msgs /\ RoomMsg(seated').op = "room"
      /\ RoomMsg(seated').members = seated'
  BY <1>2 DEF RoomMsg, Msgs, RoomMsgs
<1>4. n \in Msgs /\ n.op = "room"
  BY NowhereIs DEF RoomMsg, Msgs, RoomMsgs
<1>5. DOMAIN seated' \in SUBSET Players
  BY <1>2, SnapIs
<1>6. /\ t \in [Players -> Seq(Msgs)]
      /\ \A q \in Players :
           t[q] = IF q \in DOMAIN seated' THEN Append(mail[q], RoomMsg(seated')) ELSE mail[q]
  BY <1>3, <1>5, TellIs DEF PakInv
<1> HIDE DEF n, t
<1>7. /\ mail' \in [Players -> Seq(Msgs)]
      /\ mail'[p] = Append(mail[p], n)
      /\ \A q \in Players \ {p} : mail'[q] = t[q]
  <2>1. Append(mail[p], n) \in Seq(Msgs)
    BY <1>4 DEF PakInv, PaksTyped
  <2> QED
    BY <1>1, <1>6, <2>1
<1>8. /\ \A q \in Players : Sent(q)'
      /\ \A q \in Players : Arrives(q, ver[q]) => Arrives(q, ver[q])'
  <2>1. \A q \in Players : \/ mail'[q] = mail[q]
                           \/ mail'[q] = Append(mail[q], RoomMsg(seated'))
                           \/ mail'[q] = Append(mail[q], n)
    BY <1>6, <1>7
  <2>2. RoomMsg(seated').op # "pak" /\ n.op # "pak"
    BY <1>3, <1>4
  <2> QED
    BY <1>1, <1>3, <1>4, <1>7, <2>1, <2>2, NewsStep
<1>9. ASSUME NEW q \in DOMAIN seated' PROVE Heard(q)'
  <2>1. q \in Players /\ q # p /\ Heard(q)
    BY <1>2, <1>5 DEF PakInv
  <2>2. mail'[q] = Append(mail[q], RoomMsg(seated'))
    BY <1>6, <1>7, <2>1
  <2> QED
    BY <1>1, <1>3, <2>1, <2>2, HeardStays DEF PakInv, OfRoom
<1> QED
  BY <1>1, <1>2, <1>5, <1>7, <1>8, <1>9 DEF PakInv, PaksTyped

LEMMA MoveStep ==
  ASSUME PakInv, NEW p \in Players, NEW s \in Seats, SeatMove(p, s)
  PROVE  PakInv'
<1>1. /\ seated' = [seated EXCEPT ![p] = s]
      /\ mail' = Tell(DOMAIN seated', RoomMsg(seated'))
      /\ UNCHANGED <<members, signals, ver, sentTo, paks, hurt>>
  BY DEF SeatMove, Reseat
<1>2. DOMAIN seated' = DOMAIN seated /\ seated' \in Snaps
  <2>1. seated' \in [DOMAIN seated -> Seats]
    BY <1>1, SnapIs DEF PakInv, PaksTyped, Snaps
  <2> QED
    BY <2>1, SnapIs, IsSnap DEF PakInv, PaksTyped
<1>3. /\ RoomMsg(seated') \in Msgs /\ RoomMsg(seated').op = "room"
      /\ RoomMsg(seated').members = seated'
  BY <1>2 DEF RoomMsg, Msgs, RoomMsgs
<1>4. DOMAIN seated' \in SUBSET Players
  BY <1>2, SnapIs
<1>5. /\ mail' \in [Players -> Seq(Msgs)]
      /\ \A q \in Players :
           mail'[q] = IF q \in DOMAIN seated' THEN Append(mail[q], RoomMsg(seated')) ELSE mail[q]
  <2> DEFINE t == Tell(DOMAIN seated', RoomMsg(seated'))
  <2>1. /\ t \in [Players -> Seq(Msgs)]
        /\ \A q \in Players :
             t[q] = IF q \in DOMAIN seated' THEN Append(mail[q], RoomMsg(seated')) ELSE mail[q]
    BY <1>3, <1>4, TellIs DEF PakInv
  <2> QED
    BY <1>1, <2>1
<1>6. /\ \A q \in Players : Sent(q)'
      /\ \A q \in Players : Arrives(q, ver[q]) => Arrives(q, ver[q])'
  BY <1>1, <1>3, <1>5, NewsStep
<1>7. \A q \in DOMAIN seated' : Heard(q)'
  BY <1>1, <1>2, <1>3, <1>4, <1>5, HeardStays DEF PakInv, OfRoom
<1> QED
  BY <1>1, <1>2, <1>4, <1>5, <1>6, <1>7 DEF PakInv, PaksTyped

LEMMA PlayStep ==
  ASSUME PakInv, Play
  PROVE  PakInv'
<1> DEFINE m == [op |-> "launch", slots |-> seated]
<1>1. /\ mail' = Tell(DOMAIN seated, m)
      /\ UNCHANGED <<seated, members, signals, ver, sentTo, paks, hurt>>
  BY DEF Play
<1>2. m \in Msgs /\ m.op = "launch"
  BY DEF PakInv, PaksTyped, Msgs
<1> HIDE DEF m
<1>3. DOMAIN seated \in SUBSET Players
  BY SnapIs DEF PakInv, PaksTyped
<1>4. /\ mail' \in [Players -> Seq(Msgs)]
      /\ \A q \in Players : mail'[q] = IF q \in DOMAIN seated THEN Append(mail[q], m) ELSE mail[q]
  BY <1>1, <1>2, <1>3, TellIs DEF PakInv
<1>5. /\ \A q \in Players : Sent(q)'
      /\ \A q \in Players : Arrives(q, ver[q]) => Arrives(q, ver[q])'
  BY <1>1, <1>2, <1>4, NewsStep
<1>6. \A q \in DOMAIN seated : Heard(q)'
  BY <1>1, <1>2, <1>3, <1>4, HeardStays DEF PakInv, OfRoom
<1> QED
  BY <1>1, <1>3, <1>4, <1>5, <1>6 DEF PakInv, PaksTyped

(* The worker takes a message: what was in the mail is among the signals.  *)
LEMMA HandleStep ==
  ASSUME PakInv, NEW p \in Players, Handle(p)
  PROVE  PakInv'
<1> DEFINE m == Head(mail[p])
           s == mail[p]
<1>1. /\ s \in Seq(Msgs) /\ s # <<>> /\ m \in Msgs /\ Tail(s) \in Seq(Msgs)
      /\ signals[p] \in Seq(PakMsgs)
  BY DEF Handle, PakInv, PaksTyped
<1>2. /\ mail' = [mail EXCEPT ![p] = Tail(s)]
      /\ members' = IF m.op = "room" THEN [members EXCEPT ![p] = m.members] ELSE members
      /\ signals' = [signals EXCEPT ![p] = KeptSignals(p, m)]
      /\ UNCHANGED <<seated, ver, sentTo, paks, hurt>>
  BY DEF Handle
<1>6. /\ s = mail[p] /\ m = s[1] /\ 1 \in DOMAIN s
      /\ \A i \in DOMAIN Tail(s) : i + 1 \in DOMAIN s /\ Tail(s)[i] = s[i + 1]
  BY <1>1
<1> HIDE DEF m, s
<1>3. /\ m.op = "pak" => m \in PakMsgs /\ KeptSignals(p, m) = Append(signals[p], m)
      /\ m.op # "pak" => KeptSignals(p, m) \in {<<>>, signals[p]}
  <2>1. m.op = "pak" => m \in PakMsgs
    BY <1>1 DEF Msgs, RoomMsgs
  <2>2. m.op = "pak" => KeptSignals(p, m) = Append(signals[p], m)
    <3>1. RoomMsg(Nowhere).op = "room"
      BY DEF RoomMsg
    <3>2. m.op = "pak" => m # RoomMsg(Nowhere)
      BY <3>1
    <3> QED
      BY <3>2 DEF KeptSignals
  <2>3. m.op # "pak" => KeptSignals(p, m) \in {<<>>, signals[p]}
    BY DEF KeptSignals
  <2> QED
    BY <2>1, <2>2, <2>3
<1>4. m.op = "room" => m.members \in Snaps
  BY <1>1 DEF Msgs, RoomMsgs, PakMsgs
<1>5. KeptSignals(p, m) \in Seq(PakMsgs)
  <2>1. m.op = "pak" => Append(signals[p], m) \in Seq(PakMsgs)
    BY <1>1, <1>3
  <2>2. <<>> \in Seq(PakMsgs)
    OBVIOUS
  <2> QED
    BY <1>1, <1>3, <2>1, <2>2
<1>7. /\ mail' \in [Players -> Seq(Msgs)] /\ mail'[p] = Tail(s)
      /\ \A q \in Players \ {p} : mail'[q] = mail[q]
  BY <1>1, <1>2 DEF PakInv, PaksTyped
<1>8. /\ members' \in [Players -> Snaps]
      /\ members'[p] = IF m.op = "room" THEN m.members ELSE members[p]
      /\ \A q \in Players \ {p} : members'[q] = members[q]
  BY <1>2, <1>4 DEF PakInv, PaksTyped
<1>9. /\ signals' \in [Players -> Seq(PakMsgs)] /\ signals'[p] = KeptSignals(p, m)
      /\ \A q \in Players \ {p} : signals'[q] = signals[q]
  BY <1>2, <1>5 DEF PakInv, PaksTyped
<1>10. PaksTyped'
  BY <1>2, <1>7, <1>8, <1>9 DEF PakInv, PaksTyped
<1>11. signals[p] \in Seq(Msgs)
  BY <1>1, ElementOfSeq DEF Msgs
<1>12. ASSUME NEW q \in Players PROVE Sent(q)'
  <2>1. Sent(q)
    BY DEF PakInv
  <2>2. CASE q # p
    BY <1>2, <1>7, <1>9, <2>1, <2>2 DEF Sent
  <2>3. CASE q = p
    <3>1. From(mail'[p], p) = {}
      BY <1>1, <1>6, <1>7, <2>1, <2>3, TailFrom DEF Sent
    <3>2. ~ (m.op = "pak" /\ m.from = p)
      BY <1>6, <2>1, <2>3 DEF Sent, From
    <3>3. From(signals'[p], p) = {}
      <4>1. CASE m.op = "pak"
        <5>1. From(Append(signals[p], m), p) = From(signals[p], p)
          BY <1>1, <1>11, <3>2, AppendFrom
        <5> QED
          BY <1>3, <1>9, <2>1, <2>3, <4>1, <5>1 DEF Sent
      <4>2. CASE m.op # "pak"
        <5>1. From(<<>>, p) = {}
          BY DEF From
        <5> QED
          BY <1>3, <1>9, <2>1, <2>3, <4>2, <5>1 DEF Sent
      <4> QED
        BY <4>1, <4>2
    <3> QED
      BY <1>2, <2>1, <2>3, <3>1, <3>3 DEF Sent
  <2> QED
    BY <2>2, <2>3
<1>13. ASSUME NEW q \in DOMAIN seated PROVE Heard(q)'
  <2>1. q \in Players /\ Heard(q)
    BY SnapIs DEF PakInv, PaksTyped
  <2>2. CASE q # p
    BY <1>2, <1>7, <1>8, <2>1, <2>2 DEF Heard
  <2>3. CASE q = p
    <3>1. \A i \in DOMAIN mail'[q] : OfRoom(mail'[q][i]) => q \in DOMAIN mail'[q][i].members
      <4>1. \A i \in DOMAIN s : OfRoom(s[i]) => p \in DOMAIN s[i].members
        BY <1>6, <2>1, <2>3 DEF Heard
      <4>2. \A i \in DOMAIN Tail(s) : OfRoom(Tail(s)[i]) => p \in DOMAIN Tail(s)[i].members
        BY <1>6, <4>1
      <4> QED
        BY <1>7, <2>3, <4>2
    <3>2. m.op = "room" => q \in DOMAIN m.members
      BY <1>6, <2>1, <2>3 DEF Heard, OfRoom
    <3>3. m.op # "room" => members[q] # Nowhere /\ q \in DOMAIN members[q]
      BY <1>6, <2>1, <2>3 DEF Heard, OfRoom, m, s
    <3>4. members'[q] # Nowhere /\ q \in DOMAIN members'[q]
      BY <1>8, <2>3, <3>2, <3>3, NowhereIs
    <3> QED
      BY <3>1, <3>4 DEF Heard
  <2> QED
    BY <2>2, <2>3
<1>14. ASSUME NEW q \in DOMAIN seated \ ({Host} \union hurt), ver[q] # 0
       PROVE  Arrives(q, ver[q])'
  <2>1. Arrives(q, ver[q])
    BY <1>14 DEF PakInv
  <2>2. CASE p # Host
    BY <1>2, <1>7, <1>9, <2>1, <2>2, PakRoomAssumption DEF Arrives
  <2>3. CASE p = Host
    <3>1. KeptSignals(p, m) = IF m.op = "pak" THEN Append(signals[Host], m) ELSE signals[Host]
      <4>1. m # RoomMsg(Nowhere)
        <5>1. Heard(Host)
          BY DEF PakInv
        <5>2. m.op = "room" => Host \in DOMAIN m.members
          BY <1>6, <2>3, <5>1 DEF Heard, OfRoom
        <5>3. RoomMsg(Nowhere).op = "room" /\ RoomMsg(Nowhere).members = Nowhere
          BY DEF RoomMsg
        <5> QED
          BY <5>2, <5>3, NowhereIs
      <4> QED
        BY <2>3, <4>1 DEF KeptSignals
    <3>2. signals'[Host] = (IF m.op = "pak" THEN Append(signals[Host], m) ELSE signals[Host])
          /\ mail'[Host] = Tail(s) /\ s = mail[Host] /\ paks' = paks /\ ver' = ver
      BY <1>2, <1>6, <1>7, <1>9, <2>3, <3>1
    <3>3. CASE LastIs(s, q, ver[q])
      <4>1. CASE LastIs(Tail(s), q, ver[q])
        BY <3>2, <4>1 DEF Arrives
      <4>2. CASE ~ LastIs(Tail(s), q, ver[q])
        <5>1. From(Tail(s), q) = {} /\ m.op = "pak" /\ m.from = q /\ m.ver = ver[q]
          BY <1>1, <3>3, <4>2, TailFrom DEF m, s
        <5>2. LastIs(signals'[Host], q, ver[q])
          <6>1. LastIs(Append(signals[p], m), q, m.ver)
            BY <1>1, <1>11, <5>1, AppendFrom
          <6> QED
            BY <2>3, <3>2, <5>1, <6>1
        <5> QED
          BY <3>2, <5>1, <5>2 DEF Arrives
      <4> QED
        BY <4>1, <4>2
    <3>4. CASE From(s, q) = {}
      <4>1. From(Tail(s), q) = {}
        BY <1>1, <3>4, TailFrom
      <4>2. ~ (m.op = "pak" /\ m.from = q)
        BY <1>6, <3>4 DEF From
      <4>3. /\ From(signals'[Host], q) = From(signals[Host], q)
            /\ LastIs(signals[Host], q, ver[q]) => LastIs(signals'[Host], q, ver[q])
        BY <1>1, <1>11, <2>3, <3>2, <4>2, AppendFrom
      <4>4. ~ LastIs(s, q, ver[q])
        BY <3>4 DEF LastIs
      <4> QED
        BY <2>1, <3>2, <4>1, <4>3, <4>4 DEF Arrives
    <3> QED
      BY <2>1, <3>2, <3>3, <3>4 DEF Arrives
  <2> QED
    BY <2>2, <2>3
<1> QED
  BY <1>2, <1>10, <1>12, <1>13, <1>14 DEF PakInv

(* Outside the room nothing is left of a pak, and who has a seat already   *)
(* had nothing.                                                            *)
LEMMA LeaveFrameStep ==
  ASSUME PakInv, NEW p \in Players, LeaveFrame(p)
  PROVE  PakInv'
<1>1. /\ members[p] = Nowhere
      /\ paks' = [paks EXCEPT ![p] = [q \in Players |-> NoPak]]
      /\ sentTo' = [sentTo EXCEPT ![p] = {}]
      /\ ver' = [ver EXCEPT ![p] = 0]
      /\ UNCHANGED <<seated, mail, members, signals, hurt>>
  BY DEF LeaveFrame, LeaveFrameDue, ForgetRoom
<1>2. p # Host
  BY <1>1 DEF PakInv, Heard
<1>3. /\ ver'[p] = 0 /\ sentTo'[p] = {}
      /\ \A q \in Players \ {p} : ver'[q] = ver[q] /\ sentTo'[q] = sentTo[q] /\ paks'[q] = paks[q]
      /\ paks'[p] = [q \in Players |-> NoPak]
  BY <1>1 DEF PakInv, PaksTyped
<1>4. PaksTyped'
  BY <1>1, <1>3, NoPakIs DEF PakInv, PaksTyped
<1>5. \A q \in Players : Sent(q)'
  BY <1>1, <1>3 DEF PakInv, Sent
<1>6. ASSUME NEW q \in DOMAIN seated PROVE Heard(q)'
  <2>1. q \in Players /\ Heard(q)
    BY SnapIs DEF PakInv, PaksTyped
  <2> QED
    BY <1>1, <1>3, <2>1 DEF Heard
<1>7. ASSUME NEW q \in DOMAIN seated \ ({Host} \union hurt), ver'[q] # 0
      PROVE  Arrives(q, ver[q])'
  <2>1. q \in Players /\ q # p /\ Arrives(q, ver[q])
    BY <1>3, <1>7, SnapIs DEF PakInv, PaksTyped
  <2> QED
    BY <1>1, <1>2, <1>3, <2>1, PakRoomAssumption DEF Arrives
<1> QED
  BY <1>1, <1>4, <1>5, <1>6, <1>7 DEF PakInv

(* What a page keeps of the paks that came.                                *)
LEMMA LargestIs ==
  ASSUME NEW n \in Nat, NEW S \in SUBSET (1 .. n), S # {}
  PROVE  Max(S) \in S
<1> DEFINE Less == {ss \in Nat \X Nat : ss[1] < ss[2]}
           Over == {u \in Nat : \A x \in S : x <= u}
<1>1. IsWellFoundedOn(Less, Nat)
  BY NatLessThanWellFounded DEF OpToRel
<1>2. n \in Over /\ Over \subseteq Nat
  OBVIOUS
<1>3. PICK u \in Over : \A y \in Over : ~ (<<y, u>> \in Less)
  <2> HIDE DEF Less, Over
  <2> QED
    BY <1>1, <1>2, WFMin
<1>4. u \in S
  <2> SUFFICES ASSUME u \notin S PROVE FALSE
    OBVIOUS
  <2>1. \A x \in S : x \in Nat /\ x >= 1 /\ x < u
    OBVIOUS
  <2>2. PICK s \in S : TRUE
    OBVIOUS
  <2>3. u \in Nat /\ s >= 1 /\ s < u /\ s \in Nat
    BY <2>1
  <2>4. u - 1 \in Nat /\ u - 1 < u /\ \A x \in S : x <= u - 1
    BY <2>1, <2>3
  <2>5. <<u - 1, u>> \in Less /\ u - 1 \in Over
    BY <2>3, <2>4
  <2> QED
    BY <1>3, <2>5
<1> QED
  BY <1>4 DEF Max

LEMMA ReceivedTyped ==
  ASSUME NEW held \in [Players -> Paks], NEW ms \in Seq(PakMsgs)
  PROVE  Received(held, ms) \in [Players -> Paks]
<1> SUFFICES ASSUME NEW q \in Players PROVE Received(held, ms)[q] \in Paks
  BY DEF Received
<1> DEFINE of == {i \in DOMAIN ms : ms[i].from = q}
<1>1. Received(held, ms)[q] = IF of = {} THEN held[q]
                              ELSE [seat |-> ms[Max(of)].seat, ver |-> ms[Max(of)].ver]
  BY DEF Received
<1>2. of # {} => Max(of) \in of
  <2>1. Len(ms) \in Nat /\ of \in SUBSET (1 .. Len(ms))
    OBVIOUS
  <2> HIDE DEF of
  <2> QED
    BY <2>1, LargestIs
<1>3. \A i \in of : ms[i] \in PakMsgs
  OBVIOUS
<1>4. \A i \in of : [seat |-> ms[i].seat, ver |-> ms[i].ver] \in Paks
  BY <1>3 DEF PakMsgs, Paks
<1> HIDE DEF of
<1> QED
  BY <1>1, <1>2, <1>4

LEMMA ReceivedIs ==
  ASSUME NEW held, NEW ms \in Seq(PakMsgs), NEW q \in Players
  PROVE  /\ DOMAIN Received(held, ms) = Players
         /\ From(ms, q) = {} => Received(held, ms)[q] = held[q]
         /\ \A v : LastIs(ms, q, v) => Received(held, ms)[q].ver = v
<1> DEFINE of == {i \in DOMAIN ms : ms[i].from = q}
<1>1. of = From(ms, q)
  <2>1. \A i \in DOMAIN ms : ms[i].op = "pak"
    <3>1. \A i \in DOMAIN ms : ms[i] \in PakMsgs
      OBVIOUS
    <3> QED
      BY <3>1 DEF PakMsgs
  <2> QED
    BY <2>1 DEF From
<1>2. Received(held, ms)[q] = IF of = {} THEN held[q]
                              ELSE [seat |-> ms[Max(of)].seat, ver |-> ms[Max(of)].ver]
  BY DEF Received
<1>3. DOMAIN Received(held, ms) = Players
  BY DEF Received
<1>4. ASSUME NEW v, LastIs(ms, q, v) PROVE of # {} /\ ms[Max(of)].ver = v
  <2>1. PICK i \in of : ms[i].ver = v /\ \A j \in of : j <= i
    BY <1>1, <1>4 DEF LastIs
  <2>2. of \subseteq Nat
    OBVIOUS
  <2>3. \A j \in of : i >= j
    BY <2>1, <2>2
  <2>4. Max(of) \in of /\ \A j \in of : Max(of) >= j
    BY <2>1, <2>3 DEF Max
  <2>5. Max(of) = i
    BY <2>1, <2>2, <2>3, <2>4
  <2> QED
    BY <2>1, <2>5
<1> HIDE DEF of
<1> QED
  BY <1>1, <1>2, <1>3, <1>4

LEMMA RoomFrameStep ==
  ASSUME PakInv, NEW p \in Players, RoomFrame(p)
  PROVE  PakInv'
<1> DEFINE own == [seat |-> members[p][p], ver |-> ver'[p]]
           held == IF Resends(p) THEN [paks[p] EXCEPT ![p] = own] ELSE paks[p]
           m == PakMsg(p, members[p][p], ver'[p])
           heard == DOMAIN seated \ {p}
<1>1. PICK v \in IF ver[p] > 0 THEN {ver[p]} ELSE 1..MaxVer : Exchange(p, v)
  BY DEF RoomFrame
<1>2. v \in Saves /\ v # 0 /\ (ver[p] # 0 => v = ver[p]) /\ p \in DOMAIN members[p]
  <2>1. ver[p] \in 0 .. MaxVer
    BY DEF PakInv, PaksTyped, Saves
  <2> QED
    BY <1>1, <2>1, PakRoomAssumption DEF RoomFrame, RoomFrameDue, Saves
<1>3. ver' = [ver EXCEPT ![p] = v] /\ ver'[p] = v /\ \A q \in Players \ {p} : ver'[q] = ver[q]
  BY <1>1 DEF Exchange, PakInv, PaksTyped
<1>4. /\ sentTo' = IF Resends(p) THEN [sentTo EXCEPT ![p] = Order(members[p])] ELSE sentTo
      /\ mail' = IF Resends(p) /\ p \in DOMAIN seated THEN Tell(heard, m) ELSE mail
      /\ paks' = [paks EXCEPT ![p] = Received(held, signals[p])]
      /\ signals' = [signals EXCEPT ![p] = <<>>]
      /\ hurt' = (IF Resends(p) THEN hurt \ {p} ELSE hurt)
      /\ UNCHANGED <<seated, members>>
  <2>1. PakMsg(p, members[p][p], v) = m /\ [seat |-> members[p][p], ver |-> v] = own
    BY <1>3
  <2> QED
    BY <1>1, <2>1 DEF Exchange, RoomFrame
<1>5. members[p][p] \in Seats /\ members[p][p] \in Nat
  BY <1>2, SnapIs, PakRoomAssumption DEF PakInv, PaksTyped
<1>6. Order(members[p]) # {}
  <2>1. <<p, p>> \in Order(members[p])
    BY <1>2, <1>5 DEF Order
  <2> QED
    BY <2>1
<1>7. m \in Msgs /\ m.op = "pak" /\ m.from = p /\ m.ver = v
  BY <1>2, <1>3, <1>5 DEF PakMsg, Msgs, PakMsgs
<1>8. heard \in SUBSET Players /\ DOMAIN seated \subseteq Players
  BY SnapIs DEF PakInv, PaksTyped
<1>9. signals[p] \in Seq(PakMsgs) /\ DOMAIN paks[p] = Players
  BY DEF PakInv, PaksTyped
<1> HIDE DEF m, held, heard
<1>10. /\ mail' \in [Players -> Seq(Msgs)]
       /\ \A q \in Players : mail'[q] \in {mail[q], Append(mail[q], m)}
       /\ mail'[p] = mail[p]
       /\ Resends(p) /\ p \in DOMAIN seated =>
            \A q \in DOMAIN seated \ {p} : mail'[q] = Append(mail[q], m)
  <2>1. /\ Tell(heard, m) \in [Players -> Seq(Msgs)]
        /\ \A q \in Players :
             Tell(heard, m)[q] = IF q \in heard THEN Append(mail[q], m) ELSE mail[q]
    BY <1>7, <1>8, TellIs DEF PakInv
  <2>2. mail \in [Players -> Seq(Msgs)]
    BY DEF PakInv, PaksTyped
  <2> QED
    BY <1>4, <1>8, <2>1, <2>2 DEF heard
<1>11. /\ DOMAIN sentTo' = Players /\ \A q \in Players \ {p} : sentTo'[q] = sentTo[q]
       /\ sentTo'[p] # {} /\ (~Resends(p) => sentTo[p] # {})
  BY <1>4, <1>6 DEF Resends, PakInv, PaksTyped
<1>12. /\ signals' \in [Players -> Seq(PakMsgs)] /\ signals'[p] = <<>>
       /\ \A q \in Players \ {p} : signals'[q] = signals[q]
  BY <1>4 DEF PakInv, PaksTyped
<1>13. /\ DOMAIN paks' = Players /\ paks'[p] = Received(held, signals[p])
       /\ \A q \in Players \ {p} : paks'[q] = paks[q]
  BY <1>4 DEF PakInv, PaksTyped
<1>14. PaksTyped'
  <2>1. own \in Paks
    BY <1>2, <1>3, <1>5 DEF Paks
  <2>2. held \in [Players -> Paks]
    BY <2>1, PaksOf DEF held, PakInv
  <2>3. paks' \in [Players -> [Players -> Paks]]
    BY <1>4, <1>9, <2>2, ReceivedTyped DEF PakInv, PaksTyped
  <2> HIDE DEF own
  <2> QED
    BY <1>2, <1>3, <1>4, <1>10, <1>11, <1>12, <2>3 DEF PakInv, PaksTyped
<1>15. ASSUME NEW r \in Players, NEW q, q # p
       PROVE  /\ From(mail'[r], q) = From(mail[r], q)
              /\ \A u : LastIs(mail[r], q, u) => LastIs(mail'[r], q, u)
  <2>1. mail[r] \in Seq(Msgs)
    BY DEF PakInv, PaksTyped
  <2>2. CASE mail'[r] = mail[r]
    BY <2>2
  <2>3. CASE mail'[r] = Append(mail[r], m)
    BY <1>7, <1>15, <2>1, <2>3, AppendFrom
  <2> QED
    BY <1>10, <2>2, <2>3
<1>16. \A q : From(<<>>, q) = {}
  BY DEF From
<1>17. ASSUME NEW q \in Players PROVE Sent(q)'
  <2>1. Sent(q)
    BY DEF PakInv
  <2>2. CASE q # p
    BY <1>3, <1>11, <1>12, <1>13, <1>15, <2>1, <2>2 DEF Sent
  <2>3. CASE q = p
    <3>1. paks'[p][p] = held[p]
      BY <1>9, <1>13, <2>1, <2>3, ReceivedIs DEF Sent
    <3>2. Resends(p) => held[p].ver = v
      BY <1>3, <1>9 DEF held
    <3>3. ~ Resends(p) => held[p].ver = v
      BY <1>2, <1>11, <2>1, <2>3 DEF held, Sent
    <3> QED
      BY <1>2, <1>3, <1>10, <1>11, <1>12, <1>16, <2>1, <2>3, <3>1, <3>2, <3>3 DEF Sent
  <2> QED
    BY <2>2, <2>3
<1>18. ASSUME NEW q \in DOMAIN seated PROVE Heard(q)'
  <2>1. q \in Players /\ Heard(q)
    BY <1>8 DEF PakInv
  <2>2. CASE q # p
    BY <1>4, <1>7, <1>10, <1>11, <2>1, <2>2, HeardStays DEF PakInv, OfRoom
  <2>3. CASE q = p
    <3>1. members[p] # Nowhere
      BY <1>2, NowhereIs
    <3> QED
      BY <1>4, <1>10, <2>1, <2>3, <3>1 DEF Heard
  <2> QED
    BY <2>2, <2>3
<1>19. ASSUME NEW q \in DOMAIN seated \ ({Host} \union hurt'), ver'[q] # 0
       PROVE  Arrives(q, ver[q])'
  <2>1. q \in Players /\ Host \in Players /\ Host \in DOMAIN seated
    BY <1>8, PakRoomAssumption DEF PakInv
  <2>2. CASE q = p
    <3>1. CASE Resends(p)
      <4>1. mail'[Host] = Append(mail[Host], m)
        BY <1>10, <2>1, <2>2, <3>1
      <4>2. mail[Host] \in Seq(Msgs)
        BY <2>1 DEF PakInv, PaksTyped
      <4>3. LastIs(mail'[Host], q, v)
        BY <1>7, <2>1, <2>2, <4>1, <4>2, AppendFrom
      <4> QED
        BY <1>3, <2>2, <4>3 DEF Arrives
    <3>2. CASE ~ Resends(p)
      <4>1. ver[p] # 0 /\ ver'[p] = ver[p] /\ mail' = mail
        BY <1>2, <1>3, <1>4, <1>11, <3>2 DEF PakInv, Sent
      <4>2. Arrives(q, ver[q])
        BY <1>4, <2>2, <3>2, <4>1 DEF PakInv
      <4> QED
        BY <1>12, <1>13, <2>1, <2>2, <4>1, <4>2 DEF Arrives
    <3> QED
      BY <3>1, <3>2
  <2>3. CASE q # p
    <3>1. ver'[q] = ver[q] /\ Arrives(q, ver[q])
      BY <1>3, <1>4, <1>19, <2>1, <2>3 DEF PakInv
    <3>2. CASE p # Host
      BY <1>12, <1>13, <1>15, <2>1, <2>3, <3>1, <3>2 DEF Arrives
    <3>3. CASE p = Host
      <4>1. held[q] = paks[p][q]
        BY <1>9, <2>1, <2>3 DEF held
      <4>2. /\ From(signals[Host], q) = {} => paks'[Host][q] = paks[Host][q]
            /\ LastIs(signals[Host], q, ver[q]) => paks'[Host][q].ver = ver[q]
        BY <1>9, <1>13, <2>1, <3>3, <4>1, ReceivedIs
      <4>3. mail'[Host] = mail[Host] /\ From(signals'[Host], q) = {}
        BY <1>10, <1>12, <1>16, <3>3
      <4> QED
        BY <3>1, <4>2, <4>3 DEF Arrives
    <3> QED
      BY <3>2, <3>3
  <2> QED
    BY <2>2, <2>3
<1>20. hurt' \subseteq Players
  BY <1>4 DEF PakInv
<1> QED
  BY <1>4, <1>14, <1>17, <1>18, <1>19, <1>20 DEF PakInv

(* A damaged pak hides its player's, unless another of his is on its way.  *)
LEMMA DamagedStep ==
  ASSUME PakInv, NEW p \in Players, Damaged(p)
  PROVE  PakInv'
<1> DEFINE s == signals[p]
           h == Head(s).from
<1>1. /\ p \in DOMAIN members[p] /\ ver[p] > 0 /\ s # <<>>
      /\ hurt' = (IF p = Host /\ From(Tail(s), h) \union From(mail[p], h) = {}
                  THEN hurt \union {h} ELSE hurt)
      /\ signals' = [signals EXCEPT ![p] = Tail(s)]
      /\ sentTo' = [sentTo EXCEPT ![p] = {}]
      /\ UNCHANGED <<seated, mail, members, ver, paks>>
  BY DEF Damaged
<1>2. /\ s \in Seq(PakMsgs) /\ Tail(s) \in Seq(PakMsgs) /\ Head(s) \in PakMsgs
      /\ DOMAIN sentTo = Players /\ DOMAIN signals = Players
  BY <1>1 DEF PakInv, PaksTyped
<1>3. s \in Seq(Msgs) /\ h \in Players /\ Head(s).op = "pak"
  <2>1. s \in Seq(Msgs)
    BY <1>2, ElementOfSeq DEF Msgs
  <2> QED
    BY <1>2, <2>1 DEF PakMsgs
<1> HIDE DEF s
<1>4. /\ signals' \in [Players -> Seq(PakMsgs)] /\ signals'[p] = Tail(s)
      /\ \A q \in Players \ {p} : signals'[q] = signals[q] /\ sentTo'[q] = sentTo[q]
      /\ sentTo'[p] = {} /\ DOMAIN sentTo' = Players
  BY <1>1, <1>2 DEF PakInv, PaksTyped
<1>5. PaksTyped'
  BY <1>1, <1>4 DEF PakInv, PaksTyped
<1>6. ASSUME NEW q \in Players PROVE Sent(q)'
  <2>1. Sent(q)
    BY DEF PakInv
  <2>2. CASE q # p
    BY <1>1, <1>4, <2>1, <2>2 DEF Sent
  <2>3. CASE q = p
    <3>1. From(s, p) = {}
      BY <2>1, <2>3 DEF Sent, s
    <3>2. From(Tail(s), p) = {}
      BY <1>1, <1>3, <3>1, TailFrom
    <3> QED
      BY <1>1, <1>4, <2>1, <2>3, <3>2 DEF Sent
  <2> QED
    BY <2>2, <2>3
<1>7. ASSUME NEW q \in DOMAIN seated PROVE Heard(q)'
  <2>1. q \in Players /\ Heard(q)
    BY SnapIs DEF PakInv, PaksTyped
  <2>2. p = q => members[q] # Nowhere
    BY <1>1, NowhereIs
  <2> QED
    BY <1>1, <1>4, <2>1, <2>2 DEF Heard
<1>8. ASSUME NEW q \in DOMAIN seated \ ({Host} \union hurt'), ver'[q] # 0
      PROVE  Arrives(q, ver[q])'
  <2>1. q \in Players /\ Host \in Players /\ q \notin hurt
    BY <1>1, <1>8, SnapIs, PakRoomAssumption DEF PakInv, PaksTyped
  <2>2. Arrives(q, ver[q])
    BY <1>1, <1>8, <2>1 DEF PakInv
  <2>3. CASE p # Host
    BY <1>1, <1>4, <2>1, <2>2, <2>3 DEF Arrives
  <2>4. CASE p = Host
    <3>1. s = signals[Host] /\ signals'[Host] = Tail(s)
      BY <1>4, <2>4 DEF s
    <3>2. CASE LastIs(mail[Host], q, ver[q])
      BY <1>1, <3>2 DEF Arrives
    <3>3. CASE From(mail[Host], q) = {} /\ LastIs(s, q, ver[q])
      <4>1. CASE LastIs(Tail(s), q, ver[q])
        BY <1>1, <3>1, <3>3, <4>1 DEF Arrives
      <4>2. CASE ~ LastIs(Tail(s), q, ver[q])
        <5>1. From(Tail(s), q) = {} /\ h = q
          BY <1>1, <1>3, <3>3, <4>2, TailFrom
        <5>2. q \in hurt'
          BY <1>1, <2>4, <3>3, <5>1
        <5> QED
          BY <1>8, <5>2
      <4> QED
        BY <4>1, <4>2
    <3>4. CASE From(mail[Host], q) = {} /\ From(s, q) = {} /\ paks[Host][q].ver = ver[q]
      <4>1. From(Tail(s), q) = {}
        BY <1>1, <1>3, <3>4, TailFrom
      <4> QED
        BY <1>1, <3>1, <3>4, <4>1 DEF Arrives
    <3> QED
      BY <2>2, <3>1, <3>2, <3>3, <3>4 DEF Arrives
  <2> QED
    BY <2>3, <2>4
<1>9. hurt' \subseteq Players
  BY <1>1, <1>3 DEF PakInv
<1> QED
  BY <1>1, <1>5, <1>6, <1>7, <1>8, <1>9 DEF PakInv

LEMMA PakInit == PakRoomInit => PakInv
<1> SUFFICES ASSUME PakRoomInit PROVE PakInv
  OBVIOUS
<1>1. /\ seated = [p \in {Host} |-> 0]
      /\ members = [p \in Players |-> IF p = Host THEN seated ELSE Nowhere]
      /\ mail = [p \in Players |-> <<>>] /\ signals = mail
      /\ ver = [p \in Players |-> 0] /\ sentTo = [p \in Players |-> {}]
      /\ paks = [p \in Players |-> [q \in Players |-> NoPak]] /\ hurt = {}
  BY DEF PakRoomInit
<1>2. seated \in Snaps /\ DOMAIN seated = {Host}
  <2>1. seated \in [{Host} -> Seats]
    BY <1>1, PakRoomAssumption
  <2> QED
    BY <2>1, IsSnap, PakRoomAssumption
<1>3. PaksTyped
  BY <1>1, <1>2, NowhereIs, NoPakIs DEF PaksTyped
<1>4. \A p \in Players : Sent(p)
  BY <1>1 DEF Sent, From
<1>5. Heard(Host)
  BY <1>1, <1>2, NowhereIs, PakRoomAssumption DEF Heard
<1> QED
  BY <1>1, <1>2, <1>3, <1>4, <1>5 DEF PakInv

LEMMA PakStep == PakInv /\ [PakRoomNext]_prVars => PakInv'
<1> SUFFICES ASSUME PakInv, [PakRoomNext]_prVars PROVE PakInv'
  OBVIOUS
<1>1. CASE Play
  BY <1>1, PlayStep
<1>2. CASE \E p \in Players : \/ JoinSeat(p) \/ LeaveSeat(p) \/ Handle(p)
                              \/ LeaveFrame(p) \/ RoomFrame(p) \/ Damaged(p)
                              \/ \E s \in Seats : SeatMove(p, s)
  BY <1>2, JoinStep, LeaveStep, HandleStep, LeaveFrameStep, RoomFrameStep, DamagedStep, MoveStep
<1>3. CASE UNCHANGED prVars
  BY <1>3 DEF prVars, PakInv, PaksTyped, Sent, Heard, Arrives
<1> QED
  BY <1>1, <1>2, <1>3 DEF PakRoomNext

(* For any number of players, seats and saves: when nothing is in flight   *)
(* the host holds the save every member took for this room, also of one    *)
(* who left and came back with another (hub_netplay.cpp:3080-3165), unless *)
(* his last pak came damaged.                                              *)
THEOREM HostHoldsAllThroughout == PakRoomSpec => []HostHoldsAll
<1>1. PakInv => HostHoldsAll
  <2> SUFFICES ASSUME PakInv, Settled, NEW q \in DOMAIN seated \ hurt
               PROVE  paks[Host][q].ver = ver[q]
    BY DEF HostHoldsAll
  <2>1. q \in Players /\ Host \in Players /\ Host \in DOMAIN seated
    BY SnapIs, PakRoomAssumption DEF PakInv, PaksTyped
  <2>2. \A p \in DOMAIN seated : p \in Players => p \in DOMAIN members[p] /\ mail[p] = <<>>
    BY DEF PakInv, Heard, Settled
  <2>3. ver[q] # 0 /\ signals[Host] = <<>> /\ mail[Host] = <<>>
    BY <2>1, <2>2 DEF Settled, RoomFrameDue
  <2>4. CASE q = Host
    BY <2>1, <2>3, <2>4 DEF PakInv, Sent
  <2>5. CASE q # Host
    <3>1. Arrives(q, ver[q])
      BY <2>3, <2>5 DEF PakInv
    <3>2. From(<<>>, q) = {}
      BY DEF From
    <3> QED
      BY <2>3, <3>1, <3>2 DEF Arrives, LastIs
  <2> QED
    BY <2>4, <2>5
<1> QED
  BY <1>1, PakInit, PakStep, PTL DEF PakRoomSpec

LEMMA PakTypedOK == PakInv => PakRoomTypeOK
<1> SUFFICES ASSUME PakInv PROVE PakRoomTypeOK
  OBVIOUS
<1>1. DOMAIN seated \subseteq Players /\ Range(seated) \subseteq Seats
  BY SnapIs DEF PakInv, PaksTyped, Range
<1>2. ASSUME NEW p \in Players
      PROVE  /\ DOMAIN members[p] \subseteq Players /\ ver[p] \in 0 .. MaxVer
             /\ \A q \in Players : paks[p][q] \in [seat : Seats, ver : 0 .. MaxVer]
  <2>1. members[p] \in Snaps /\ paks[p] \in [Players -> Paks] /\ ver[p] \in Saves
    BY DEF PakInv, PaksTyped
  <2> QED
    BY <2>1, SnapIs DEF Paks, Saves
<1> QED
  BY <1>1, <1>2 DEF PakInv, PakRoomTypeOK

(* Whoever comes, goes, moves and plays, every pak a hub holds is one some *)
(* player brought, for a seat of the room (hub_netplay.cpp:3080-3165).     *)
THEOREM PakRoomTyped == PakRoomSpec => []PakRoomTypeOK
  BY PakInit, PakStep, PakTypedOK, PTL DEF PakRoomSpec

-----------------------------------------------------------------------------
(* The five together: one runs, and a room that is not chosen is empty.    *)
SessionsInv ==
    /\ HubTyped /\ WorkTyped /\ RelayTyped /\ LanBrowserTypeOK
    /\ IF Chosen("paks") THEN PakInv ELSE EmptyPakRoom
    /\ Chosen("lobby") => LobbyInv

LEMMA SessionsInitInv == SessionsInit => SessionsInv
  BY UpdateInitTyped, RelayInit, LanInitTyped, PakInit, LobbyInitInv DEF SessionsInit, SessionsInv

LEMMA SessionsStep == SessionsInv /\ [SessionsNext]_sessionVars => SessionsInv'
<1> SUFFICES ASSUME SessionsInv, [SessionsNext]_sessionVars PROVE SessionsInv'
  OBVIOUS
<1>1. /\ protocol' = protocol
      /\ [SelfUpdateNext]_suVars /\ [HostRelayNext]_hoVars /\ [LanBrowserNext]_lbVars
  BY DEF SessionsNext, sessionVars
<1>2. HubTyped' /\ WorkTyped' /\ RelayTyped' /\ LanBrowserTypeOK'
  BY <1>1, HubStaysTyped, WorkStaysTyped, RelayStep, LanStep DEF SessionsInv
<1>3. CASE Chosen("paks")
  <2>1. Chosen("paks")' /\ ~Chosen("lobby")' /\ [PakRoomNext]_prVars
    BY <1>1, <1>3 DEF SessionsNext, sessionVars, Chosen
  <2> QED
    BY <1>2, <1>3, <2>1, PakStep DEF SessionsInv
<1>4. CASE ~Chosen("paks")
  <2>1. ~Chosen("paks")' /\ UNCHANGED prVars
    BY <1>1, <1>4 DEF SessionsNext, sessionVars, Chosen
  <2>2. EmptyPakRoom'
    BY <1>4, <2>1 DEF SessionsInv, EmptyPakRoom, prVars
  <2>3. Chosen("lobby")' => Chosen("lobby") /\ [LobbySessionNext]_lsVars
    BY <1>1 DEF SessionsNext, sessionVars, Chosen
  <2> QED
    BY <1>2, <2>1, <2>2, <2>3, LobbyStep DEF SessionsInv
<1> QED
  BY <1>3, <1>4

LEMMA EmptyPakTyped == EmptyPakRoom => PakRoomTypeOK
<1> SUFFICES ASSUME EmptyPakRoom PROVE PakRoomTypeOK
  OBVIOUS
<1>1. /\ seated = Nowhere /\ members = [p \in Players |-> Nowhere] /\ ver = [p \in Players |-> 0]
      /\ paks = [p \in Players |-> [q \in Players |-> NoPak]]
  BY DEF EmptyPakRoom
<1>2. hurt \subseteq Players
  BY DEF EmptyPakRoom
<1> QED
  BY <1>1, <1>2, NowhereIs, NoPakIs DEF PakRoomTypeOK, Range, Saves, Paks

(* Whichever of the protocols runs, its state keeps its types.             *)
THEOREM SessionsTyped == SessionsSpec => []SessionsTypeOK
<1>1. SessionsInv => SessionsTypeOK
  BY UpdateTypedOK, RelayTypedOK, PakTypedOK, EmptyPakTyped, LobbyTypedOK
  DEF SessionsInv, SessionsTypeOK
<1> QED
  BY <1>1, SessionsInitInv, SessionsStep, PTL DEF SessionsSpec
=============================================================================
