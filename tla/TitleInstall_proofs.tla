------------------------ MODULE TitleInstall_proofs ------------------------
(***************************************************************************)
(* Proofs about the folder of TitleInstall, for every set of releases and  *)
(* builds, every number of plays, and every number of crashes and failed   *)
(* file operations; and about the folders of InstallRoots, for every set   *)
(* of roots, and every number of releases, plays, accidents and edits.     *)
(***************************************************************************)
EXTENDS TitleInstall, InstallRoots, FiniteSetTheorems, WellFoundedInduction, TLAPS

(* The job's steps, by what the release it is to keep must be there for.   *)
Clearing == {"clear", "clearstash", "unlink", "cleardirs"}
Placing == {"fetch", "stage", "promote", "incoming", "aside"}
Placed == {"point", "restore", "record", "write", "prune"}

(* The steps that follow the placing of a release find it runnable, and a  *)
(* cleanup finds the one that it keeps so: what prune spares can be run.   *)
KeptRuns ==
  pc \in Placed \/ (pc = "stash" /\ job.kind = "cleanup") =>
    job.name \in Names /\ rel[job.name].has = "game"

(* A job that places a release places it under its own tag.                *)
PlacesTag ==
  /\ pc \in Placing \cup {"movein", "flip"} =>
       job.kind # "cleanup" /\ \E t \in Tags : job.name = Live(t)
  /\ pc = "stash" /\ job.kind # "cleanup" => \E t \in Tags : job.name = Live(t)
  /\ pc \in Clearing /\ job.kind = "install" => \E t \in Tags : job.name = Live(t)

(* Until the new release moves in, the one that ran is at a tag, or moved  *)
(* aside; then what ran is not in the places that moving in rewrites.      *)
OldRuns ==
  /\ had /\ pc \in Placing => \E t \in Tags : rel[Live(t)].has = "game"
  /\ had /\ pc = "stash" /\ job.kind # "cleanup" => \E t \in Tags : rel[Live(t)].has = "game"
  /\ had /\ pc = "movein" =>
       \E n \in Names : n \notin {job.name, Incoming(job.name)} /\ rel[n].has = "game"

(* Moving in finds the release's place free.                               *)
AsideFree == pc = "movein" => rel[job.name] = NoDir

(* A folder is cleared only for a title that did not run.                  *)
ClearsIdle == pc \in Clearing => ~had

(* What there is to prove of a step, apart from the types. *)
Safe == StaysPlayable /\ KeptRuns /\ PlacesTag /\ OldRuns /\ AsideFree /\ ClearsIdle

IInv == TypeOK /\ Safe
-----------------------------------------------------------------------------
(* The names a job uses for its tag are names of directories, and differ.  *)
LEMMA NamesOfTag ==
  ASSUME NEW t \in Tags
  PROVE  /\ Live(t) \in Names /\ Live(t)[1] = t
         /\ Incoming(Live(t)) \in Names /\ Staged(Live(t)) \in Names
         /\ <<t, "old1">> \in Names /\ <<t, "old2">> \in Names
         /\ \A u \in Tags : /\ Live(u) # Incoming(Live(t)) /\ Live(u) # Staged(Live(t))
                            /\ Live(u) # <<t, "old1">> /\ Live(u) # <<t, "old2">>
         /\ Incoming(Live(t)) # <<t, "old1">> /\ Incoming(Live(t)) # <<t, "old2">>
  BY DEF Live, Incoming, Staged, Names

(* What packages ship is a version, and what is put in a directory is the  *)
(* contents of one.                                                        *)
LEMMA ContentsTyped ==
  /\ Shipped \in Versions /\ 0 \in Versions
  /\ NoDir \in Contents /\ NoDir.has = "nothing"
  /\ \A h \in {"files", "game"} : Package(h) \in Contents /\ Built(h) \in Contents
  /\ \A c \in Contents : PartsOf(c) \subseteq Contents
  /\ NoFiles \in Files
<1>1. Shipped \in Versions /\ 0 \in Versions
  BY InstallAssumption DEF Versions
<1>2. \A c \in Contents : PartsOf(c) \subseteq Contents
  BY <1>1 DEF PartsOf, Contents
<1> QED
  BY <1>1, <1>2 DEF NoDir, Package, Built, Contents, NoFiles, Files

(* Records are records. *)
LEMMA RecordsTyped ==
  /\ NoRecord \in Records /\ NoRecord.name = None
  /\ \A r \in Records : r.name \in Names \cup {None} /\ r.method \in {"zip", "build"}
  /\ \A n \in Names \cup {None}, m \in {"zip", "build"} : [name |-> n, method |-> m] \in Records
  /\ \A k \in Kinds, n \in Names \cup {None} :
       [kind |-> k, name |-> n] \in [kind : Kinds, name : Names \cup {None}]
  /\ NoJob \in [kind : Kinds, name : Names \cup {None}]
  BY DEF NoRecord, Records, NoJob, Kinds

(* A pick is a directory with the launch binary; its record is a record.   *)
LEMMA PicksTyped ==
  ASSUME TypeOK, NEW n \in Best
  PROVE  n \in Names /\ rel[n].has = "game" /\ RecordFor(n) \in Records
<1>1. n \in Names /\ rel[n].has = "game"
  BY DEF Best, Candidates
<1>2. record.method \in {"zip", "build"}
  BY RecordsTyped DEF TypeOK
<1> QED
  BY <1>1, <1>2, RecordsTyped DEF RecordFor

(* A look leaves a link and a record. *)
LEMMA InspectTyped ==
  ASSUME TypeOK, Inspect
  PROVE  current' \in Names \cup {None} /\ record' \in Records
  BY PicksTyped DEF Inspect, TypeOK

(* A sweep leaves files of the versions there are. *)
LEMMA SweepsTyped ==
  ASSUME TypeOK
  PROVE  Sweeps \subseteq Files
<1> SUFFICES ASSUME NEW c \in LastSwept("config"), NEW k \in LastSwept("card")
             PROVE  [config |-> Swept("config", c), card |-> Swept("card", k)] \in Files
  BY DEF Sweeps
<1>1. preserved.config \in Versions /\ preserved.card \in Versions
  BY DEF TypeOK, Files
<1>2. \A n \in Names : rel[n].config \in Versions /\ rel[n].card \in Versions
  BY DEF TypeOK, Contents
<1>3. c = None \/ c \in Names
  BY DEF LastSwept, Dirs
<1>4. k = None \/ k \in Names
  BY DEF LastSwept, Dirs
<1>5. Swept("config", c) \in Versions
  BY <1>1, <1>2, <1>3 DEF Swept
<1>6. Swept("card", k) \in Versions
  BY <1>1, <1>2, <1>4 DEF Swept
<1> QED
  BY <1>5, <1>6 DEF Files

(* What a job's next step is, and what it counts, keep their types. *)
LEMMA StepTyped ==
  ASSUME TypeOK, NEW from \in Steps, NEW to \in Steps, Step(from, to), Fail \/ Fine
  PROVE  /\ pc' \in Steps
         /\ job' \in [kind : Kinds, name : Names \cup {None}]
         /\ faults' \in 0..MaxFaults
         /\ disturbed' \in {"no", "retry", "yes"}
  BY RecordsTyped, InstallAssumption DEF Step, Fail, Fine, TypeOK

(* The folder is well typed to begin with. *)
LEMMA InitTyped == Init => TypeOK
<1> SUFFICES ASSUME Init PROVE TypeOK
  OBVIOUS
<1>1. 0 \in 0..MaxFaults
  BY InstallAssumption
<1>2. rel \in [Names -> Contents] /\ preserved \in Files
  BY ContentsTyped DEF Init
<1>3. current \in Names \cup {None} /\ record \in Records /\ ui \in Records
      /\ outgoing \in Names \cup {None}
  BY RecordsTyped DEF Init
<1>4. pc \in Steps /\ job \in [kind : Kinds, name : Names \cup {None}]
  BY RecordsTyped DEF Init, Steps
<1> QED
  BY <1>1, <1>2, <1>3, <1>4, ContentsTyped DEF Init, TypeOK

(* The UI thread's looks and Play keep the types. *)
LEMMA UiTyped == TypeOK /\ (UiLook \/ UiHeal \/ Play) => TypeOK'
<1> SUFFICES ASSUME TypeOK, UiLook \/ UiHeal \/ Play PROVE TypeOK'
  OBVIOUS
<1> USE DEF TypeOK, disk, history
<1>1. CASE UiLook
  BY <1>1, PicksTyped DEF UiLook
<1>2. CASE UiHeal
  BY <1>2, RecordsTyped DEF UiHeal, Worst
<1>3. CASE Play
  <2>1. PICK v \in Versions, n \in Best :
          /\ current' = n /\ record' = RecordFor(n)
          /\ rel' = [rel EXCEPT ![n] = [has |-> "game", config |-> v, card |-> v]]
          /\ wrote' = v
    BY <1>3 DEF Play, NextSave
  <2>2. [has |-> "game", config |-> v, card |-> v] \in Contents
    BY DEF Contents
  <2> QED
    BY <1>3, <2>1, <2>2, PicksTyped DEF Play, NextSave, Worst
<1> QED
  BY <1>1, <1>2, <1>3

(* A job that begins with a look, as Begin has it, keeps the types. *)
LEMMA BeginTyped ==
  ASSUME TypeOK, NEW kind \in Kinds, NEW n \in Names \cup {None}, NEW step \in Steps,
         Begin(kind, n, step), had' \in BOOLEAN,
         current' \in Names \cup {None}, record' \in Records
  PROVE  TypeOK'
  BY RecordsTyped DEF Begin, TypeOK

(* Every beginning of a job keeps the types. *)
LEMMA BeginningsTyped ==
  ASSUME TypeOK
  PROVE  /\ \A t \in Tags : BeginInstall(t) \/ BeginUpdate(t) => TypeOK'
         /\ \A kind \in {"uninstall", "purge"} : BeginUninstall(kind) => TypeOK'
         /\ BeginCleanup => TypeOK'
<1> USE DEF Kinds, Steps
<1>1. ASSUME NEW t \in Tags, BeginInstall(t) PROVE TypeOK'
  BY <1>1, NamesOfTag, InspectTyped, BeginTyped DEF BeginInstall
<1>2. ASSUME NEW t \in Tags, BeginUpdate(t) PROVE TypeOK'
  BY <1>2, NamesOfTag, InspectTyped, BeginTyped DEF BeginUpdate, RunsProper
<1>3. ASSUME NEW kind \in {"uninstall", "purge"}, BeginUninstall(kind) PROVE TypeOK'
  BY <1>3, InspectTyped, BeginTyped DEF BeginUninstall
<1>4. ASSUME BeginCleanup PROVE TypeOK'
  BY <1>4, PicksTyped, BeginTyped DEF BeginCleanup, RunsProper
<1> QED
  BY <1>1, <1>2, <1>3, <1>4

(* A stash keeps the types. *)
LEMMA StashTyped ==
  ASSUME TypeOK, NEW from \in Steps, NEW to \in Steps, StashThen(from, to)
  PROVE  /\ preserved' \in Files
         /\ pc' \in Steps /\ job' \in [kind : Kinds, name : Names \cup {None}]
         /\ faults' \in 0..MaxFaults /\ disturbed' \in {"no", "retry", "yes"}
<1>1. "idle" \in Steps
  BY DEF Steps
<1>2. preserved' \in Files
  BY SweepsTyped DEF StashThen, TypeOK
<1> QED
  BY <1>1, <1>2, StepTyped DEF StashThen

(* Clearing a folder keeps the types. *)
LEMMA ClearingTyped ==
  TypeOK /\ (ForgetPreserved \/ ClearStash \/ Unlink \/ ClearDirs) => TypeOK'
<1> SUFFICES ASSUME TypeOK, ForgetPreserved \/ ClearStash \/ Unlink \/ ClearDirs
             PROVE  TypeOK'
  OBVIOUS
<1>1. Clearing \subseteq Steps /\ "fetch" \in Steps /\ "idle" \in Steps
  BY DEF Clearing, Steps
<1>2. CASE ForgetPreserved
  BY <1>1, <1>2, StepTyped, ContentsTyped DEF ForgetPreserved, Still, TypeOK, Clearing
<1>3. CASE ClearStash
  BY <1>1, <1>3, StashTyped DEF ClearStash, Still, TypeOK, Clearing
<1>4. CASE Unlink
  BY <1>1, <1>4, StepTyped DEF Unlink, Still, TypeOK, Clearing
<1>5. CASE ClearDirs
  BY <1>1, <1>5, StepTyped, ContentsTyped, RecordsTyped DEF ClearDirs, TypeOK, Clearing
<1> QED
  BY <1>2, <1>3, <1>4, <1>5

(* Fetching a release, and stashing before it is placed, keep the types.   *)
LEMMA FetchingTyped ==
  TypeOK /\ (Fetch \/ FetchNoBinary \/ FetchFails \/ Stash) => TypeOK'
<1> SUFFICES ASSUME TypeOK, Fetch \/ FetchNoBinary \/ FetchFails \/ Stash
             PROVE  TypeOK'
  OBVIOUS
<1>1. {"fetch", "stash", "stage", "promote", "restore", "idle"} \subseteq Steps
  BY DEF Steps
<1>2. CASE Fetch
  BY <1>1, <1>2, StepTyped DEF Fetch, Still, TypeOK
<1>3. CASE FetchNoBinary
  BY <1>1, <1>3, StepTyped DEF FetchNoBinary, Still, TypeOK
<1>4. CASE FetchFails
  BY <1>1, <1>4, RecordsTyped DEF FetchFails, Step, Worst, Still, TypeOK
<1>5. CASE Stash
  BY <1>1, <1>5, StashTyped, InspectTyped DEF Stash, Still, TypeOK
<1> QED
  BY <1>2, <1>3, <1>4, <1>5

(* Of a directory, what it holds is the contents of one. *)
LEMMA HeldTyped ==
  ASSUME TypeOK
  PROVE  /\ \A n \in Names : rel[n] \in Contents
         /\ \A n \in Names, c \in Contents : [rel EXCEPT ![n] = c] \in [Names -> Contents]
         /\ \A n, m \in Names, c, d \in Contents :
              [rel EXCEPT ![n] = c, ![m] = d] \in [Names -> Contents]
  BY DEF TypeOK

(* What is about to land is the contents of a directory. *)
LEMMA LandingTyped ==
  ASSUME TypeOK, NEW t \in Tags, job.name = Live(t)
  PROVE  Landing \in Contents
<1>1. rel[Staged(job.name)] \in Contents
  BY NamesOfTag, HeldTyped
<1>2. Package("game") \in Contents /\ Package("files") \in Contents
  BY ContentsTyped
<1> QED
  BY <1>1, <1>2 DEF Landing

(* Placing a release keeps the types. *)
LEMMA PlacingTyped ==
  /\ TypeOK /\ PlacesTag
  /\ StageBuild \/ DropIncoming \/ LandIncoming \/ MoveAside \/ NothingAside \/ MoveIn
  => TypeOK'
<1> SUFFICES ASSUME TypeOK, PlacesTag,
                    StageBuild \/ DropIncoming \/ LandIncoming \/ MoveAside
                    \/ NothingAside \/ MoveIn
             PROVE  TypeOK'
  OBVIOUS
<1>1. Placing \cup {"movein", "flip", "idle"} \subseteq Steps
  BY DEF Placing, Steps
<1>2. PICK t \in Tags : job.name = Live(t)
  BY DEF PlacesTag, Placing, StageBuild, DropIncoming, LandIncoming, MoveAside,
         NothingAside, MoveIn, Step
<1>3. /\ job.name \in Names /\ Incoming(job.name) \in Names /\ Staged(job.name) \in Names
      /\ FreeAside \in Names
  BY <1>2, NamesOfTag DEF FreeAside
<1>4. CASE StageBuild
  <2>1. PICK c \in {Built("game")} \cup PartsOf(Built("game")) :
          rel' = [rel EXCEPT ![Staged(job.name)] = c]
    BY <1>4 DEF StageBuild
  <2>2. rel' \in [Names -> Contents]
    BY <2>1, <1>3, HeldTyped, ContentsTyped
  <2> QED
    BY <1>1, <1>4, <2>2, StepTyped DEF StageBuild, Still, TypeOK, Placing
<1>5. CASE DropIncoming
  <2>1. rel' \in [Names -> Contents]
    BY <1>3, <1>5, HeldTyped, ContentsTyped DEF DropIncoming
  <2> QED
    BY <1>1, <1>5, <2>1, StepTyped DEF DropIncoming, Still, TypeOK, Placing
<1>6. CASE LandIncoming
  <2>1. Landing \in Contents
    BY <1>2, LandingTyped
  <2>2. rel' \in [Names -> Contents]
    BY <1>3, <1>6, <2>1, HeldTyped, ContentsTyped DEF LandIncoming, TypeOK
  <2> QED
    BY <1>1, <1>6, <2>2, StepTyped DEF LandIncoming, Still, TypeOK, Placing
<1>7. CASE MoveAside
  <2>1. rel' \in [Names -> Contents]
    BY <1>3, <1>7, HeldTyped, ContentsTyped DEF MoveAside
  <2> QED
    BY <1>1, <1>3, <1>7, <2>1, StepTyped DEF MoveAside, Still, TypeOK, Placing
<1>8. CASE NothingAside
  BY <1>1, <1>8, StepTyped DEF NothingAside, Still, TypeOK, Placing, disk
<1>9. CASE MoveIn
  <2> DEFINE dropped == [rel EXCEPT ![Incoming(job.name)] = NoDir]
  <2>1. dropped \in [Names -> Contents]
    BY <1>3, HeldTyped, ContentsTyped
  <2>2. MovedBack \subseteq [Names -> Contents]
    BY <1>3, <2>1, HeldTyped, ContentsTyped DEF MovedBack, TypeOK
  <2>3. MovedIn \in [Names -> Contents]
    BY <1>3, HeldTyped, ContentsTyped DEF MovedIn
  <2> QED
    BY <1>1, <1>9, <2>2, <2>3, StepTyped DEF MoveIn, Still, TypeOK, Placing
<1> QED
  BY <1>4, <1>5, <1>6, <1>7, <1>8, <1>9

(* What follows the placing keeps the types. *)
LEMMA PlacedTyped ==
  /\ TypeOK /\ PlacesTag /\ KeptRuns
  /\ \/ FlipPartial \/ Flip \/ Point \/ Restore \/ OpenRecord \/ WriteRecord
     \/ Prune \/ PruneDone \/ Finish
  => TypeOK'
<1> SUFFICES ASSUME TypeOK, PlacesTag, KeptRuns,
                    \/ FlipPartial \/ Flip \/ Point \/ Restore \/ OpenRecord \/ WriteRecord
                    \/ Prune \/ PruneDone \/ Finish
             PROVE  TypeOK'
  OBVIOUS
<1>1. Placed \cup {"flip", "inspect", "idle"} \subseteq Steps
  BY DEF Placed, Steps
<1>2. CASE FlipPartial
  <2>1. job.name \in Names
    BY <1>2, NamesOfTag DEF FlipPartial, Step, PlacesTag
  <2> QED
    BY <1>1, <1>2, <2>1, StepTyped, RecordsTyped DEF FlipPartial, Still, TypeOK
<1>3. CASE Flip
  BY <1>1, <1>3, StepTyped DEF Flip, Still, TypeOK, Placed
<1>4. CASE Point
  BY <1>1, <1>4, StepTyped DEF Point, Still, TypeOK, Placed, KeptRuns, Step
<1>5. CASE Restore
  <2>1. \A n \in Names : Restored(n) \in [Names -> Contents]
    <3>1. preserved.config \in Versions
      BY DEF TypeOK, Files
    <3>2. \A n \in Names : [rel[n] EXCEPT !.config = preserved.config] \in Contents
      BY <3>1 DEF TypeOK, Contents
    <3> QED
      BY <3>2 DEF Restored, TypeOK
  <2>2. rel' \in [Names -> Contents]
    BY <1>5, <2>1 DEF Restore, TypeOK, KeptRuns, Placed, Step
  <2> QED
    BY <1>1, <1>5, <2>2, StepTyped DEF Restore, Still, TypeOK, Placed
<1>6. CASE OpenRecord
  BY <1>1, <1>6, StepTyped, RecordsTyped DEF OpenRecord, Still, TypeOK, Placed
<1>7. CASE WriteRecord
  <2>1. job.name \in Names
    BY <1>7 DEF WriteRecord, Step, KeptRuns, Placed
  <2> QED
    BY <1>1, <1>7, <2>1, StepTyped, RecordsTyped DEF WriteRecord, Still, TypeOK, Placed
<1>8. CASE Prune
  <2>1. rel' \in [Names -> Contents]
    BY <1>8, HeldTyped, ContentsTyped DEF Prune, Stale, Dirs, TypeOK
  <2>2. CASE UNCHANGED <<pc, job>> /\ Fine
    BY <1>8, <2>1, <2>2 DEF Prune, Still, Fine, TypeOK
  <2>3. CASE Step("prune", "inspect") /\ Fail
    BY <1>1, <1>8, <2>1, <2>3, StepTyped DEF Prune, Still, TypeOK, Placed
  <2> QED
    BY <1>8, <2>2, <2>3 DEF Prune
<1>9. CASE PruneDone
  BY <1>1, <1>9, StepTyped DEF PruneDone, Still, TypeOK, Placed, disk
<1>10. CASE Finish
  BY <1>1, <1>10, StepTyped, InspectTyped DEF Finish, Still, TypeOK
<1> QED
  BY <1>2, <1>3, <1>4, <1>5, <1>6, <1>7, <1>8, <1>9, <1>10
-----------------------------------------------------------------------------
(* Nothing is lost where every directory that could be run still can. *)
LEMMA NoneLostPlayable ==
  ASSUME StaysPlayable, had' = had,
         \A n \in Names : rel[n].has = "game" => rel'[n].has = "game"
  PROVE  StaysPlayable'
  BY DEF StaysPlayable, Candidates

(* A runnable release under a tag makes the title playable. *)
LEMMA TagPlayable ==
  ASSUME NEW t \in Tags, rel'[Live(t)].has = "game"
  PROVE  StaysPlayable'
  BY NamesOfTag DEF StaysPlayable, Candidates

(* The UI thread and Play take nothing away. *)
LEMMA UiSafe == IInv /\ (UiLook \/ UiHeal \/ Play) => Safe'
<1> SUFFICES ASSUME IInv, UiLook \/ UiHeal \/ Play PROVE Safe'
  OBVIOUS
<1>1. pc' = pc /\ job' = job /\ had' = had
  BY DEF UiLook, UiHeal, Play, NextSave, history
<1>2. /\ \A n \in Names : rel[n].has = "game" => rel'[n].has = "game"
      /\ pc = "movein" => rel'[job.name] = NoDir
  <2>1. CASE UiLook \/ UiHeal
    BY <2>1 DEF UiLook, UiHeal, disk, IInv, Safe, AsideFree
  <2>2. CASE Play
    <3>1. PICK v \in Versions, n \in Best :
            rel' = [rel EXCEPT ![n] = [has |-> "game", config |-> v, card |-> v]]
      BY <2>2 DEF Play, NextSave
    <3>2. rel[n].has = "game"
      BY PicksTyped DEF IInv, Safe
    <3>3. pc = "movein" => job.name # n
      BY <3>2, ContentsTyped DEF IInv, Safe, AsideFree
    <3>4. rel \in [Names -> Contents]
      BY DEF IInv, Safe, TypeOK
    <3> QED
      BY <3>1, <3>2, <3>3, <3>4 DEF IInv, Safe, AsideFree
  <2> QED
    BY <2>1, <2>2
<1>3. StaysPlayable'
  BY <1>1, <1>2, NoneLostPlayable DEF IInv, Safe
<1>4. KeptRuns'
  BY <1>1, <1>2 DEF IInv, Safe, KeptRuns
<1>5. PlacesTag' /\ ClearsIdle'
  BY <1>1 DEF IInv, Safe, PlacesTag, ClearsIdle
<1>6. OldRuns'
  <2>1. had /\ pc \in Placing => \E t \in Tags : rel'[Live(t)].has = "game"
    BY <1>2, NamesOfTag DEF IInv, Safe, OldRuns
  <2>2. had /\ pc = "stash" /\ job.kind # "cleanup" =>
          \E t \in Tags : rel'[Live(t)].has = "game"
    BY <1>2, NamesOfTag DEF IInv, Safe, OldRuns
  <2>3. had /\ pc = "movein" =>
          \E n \in Names : n \notin {job.name, Incoming(job.name)} /\ rel'[n].has = "game"
    BY <1>2 DEF IInv, Safe, OldRuns
  <2> QED
    BY <1>1, <2>1, <2>2, <2>3 DEF OldRuns, Incoming
<1>7. AsideFree'
  BY <1>1, <1>2 DEF AsideFree
<1> QED
  BY <1>3, <1>4, <1>5, <1>6, <1>7 DEF Safe

(* A job that begins for a title that runs from its own tag finds it there.*)
LEMMA ProperRuns ==
  ASSUME TypeOK, RunsProper
  PROVE  \E t \in Tags : rel[Live(t)].has = "game"
<1>1. PICK n \in Best : n[2] = "live"
  BY DEF RunsProper
<1>2. n \in Names /\ rel[n].has = "game"
  BY PicksTyped
<1>3. n[1] \in Tags /\ n = Live(n[1])
  BY <1>1, <1>2 DEF Names, Live
<1> QED
  BY <1>2, <1>3

(* Every beginning of a job is safe. *)
LEMMA BeginningsSafe ==
  ASSUME IInv
  PROVE  /\ \A t \in Tags : BeginInstall(t) \/ BeginUpdate(t) => Safe'
         /\ \A kind \in {"uninstall", "purge"} : BeginUninstall(kind) => Safe'
         /\ BeginCleanup => Safe'
<1> USE DEF Safe, StaysPlayable, KeptRuns, PlacesTag, OldRuns, AsideFree, ClearsIdle,
            Placing, Placed, Clearing
<1>1. ASSUME NEW t \in Tags, BeginInstall(t) PROVE Safe'
  BY <1>1 DEF BeginInstall, Begin
<1>2. ASSUME NEW t \in Tags, BeginUpdate(t) PROVE Safe'
  <2>1. pc' = "fetch" /\ job' = [kind |-> "update", name |-> Live(t)]
        /\ rel' = rel /\ had' = RunsProper
    BY <1>2 DEF BeginUpdate, Begin
  <2>2. had' => \E u \in Tags : rel'[Live(u)].has = "game"
    BY <2>1, ProperRuns DEF IInv, Safe
  <2>3. StaysPlayable'
    BY <2>2, TagPlayable
  <2> QED
    BY <2>1, <2>2, <2>3
<1>3. ASSUME NEW kind \in {"uninstall", "purge"}, BeginUninstall(kind) PROVE Safe'
  BY <1>3 DEF BeginUninstall, Begin
<1>4. ASSUME BeginCleanup PROVE Safe'
  <2>1. PICK n \in Best : /\ pc' = "stash" /\ job' = [kind |-> "cleanup", name |-> n]
                          /\ rel' = rel
    BY <1>4 DEF BeginCleanup, Begin
  <2>2. n \in Names /\ rel'[n].has = "game"
    BY <2>1, PicksTyped DEF IInv, Safe
  <2> QED
    BY <2>1, <2>2 DEF Candidates
<1> QED
  BY <1>1, <1>2, <1>3, <1>4

(* A folder is cleared only where nothing ran; what was to be installed is *)
(* then fetched for its tag.                                               *)
LEMMA ClearingSafe ==
  IInv /\ (ForgetPreserved \/ ClearStash \/ Unlink \/ ClearDirs) => Safe'
<1> SUFFICES ASSUME IInv, ForgetPreserved \/ ClearStash \/ Unlink \/ ClearDirs PROVE Safe'
  OBVIOUS
<1>1. pc \in Clearing /\ had' = had
  BY DEF ForgetPreserved, ClearStash, StashThen, Unlink, ClearDirs, Step, Still, Clearing
<1>2. ~had'
  BY <1>1 DEF IInv, Safe, ClearsIdle
<1>3. /\ pc' \in Clearing \cup {"fetch", "idle"}
      /\ pc' \in Clearing => job' = job
      /\ pc' = "fetch" => job' = job /\ job.kind = "install"
  BY DEF ForgetPreserved, ClearStash, StashThen, Unlink, ClearDirs, Step, Clearing
<1>4. PlacesTag'
  BY <1>1, <1>3 DEF IInv, Safe, PlacesTag, Placing, Clearing
<1>5. KeptRuns' /\ AsideFree'
  BY <1>3 DEF KeptRuns, AsideFree, Placed, Clearing
<1> QED
  BY <1>2, <1>4, <1>5 DEF Safe, StaysPlayable, OldRuns, ClearsIdle

(* Fetching and stashing touch no release. *)
LEMMA FetchingSafe ==
  IInv /\ (Fetch \/ FetchNoBinary \/ FetchFails \/ Stash) => Safe'
<1> SUFFICES ASSUME IInv, Fetch \/ FetchNoBinary \/ FetchFails \/ Stash PROVE Safe'
  OBVIOUS
<1>1. rel' = rel /\ had' = had
  BY DEF Fetch, FetchNoBinary, FetchFails, Stash, Still
<1>2. StaysPlayable'
  BY <1>1, NoneLostPlayable DEF IInv, Safe
<1>3. CASE pc' = "idle"
  BY <1>2, <1>3 DEF Safe, KeptRuns, PlacesTag, OldRuns, AsideFree, ClearsIdle,
                    Placing, Placed, Clearing
<1>4. CASE pc' # "idle" /\ pc = "fetch"
  <2>1. pc' \in {"stash", "promote"} /\ job' = job
    BY <1>4 DEF Fetch, FetchNoBinary, FetchFails, Stash, StashThen, Step
  <2>2. job.kind # "cleanup" /\ \E t \in Tags : job.name = Live(t)
    BY <1>4 DEF IInv, Safe, PlacesTag, Placing
  <2> QED
    BY <1>1, <1>2, <1>4, <2>1, <2>2
    DEF IInv, Safe, KeptRuns, PlacesTag, OldRuns, AsideFree, ClearsIdle,
        Placing, Placed, Clearing
<1>5. CASE pc' # "idle" /\ pc # "fetch"
  <2>1. pc = "stash" /\ job' = job
        /\ pc' = IF job.kind = "cleanup" THEN "restore"
                 ELSE IF IsBuild(job.name) THEN "stage" ELSE "promote"
    BY <1>5 DEF Fetch, FetchNoBinary, FetchFails, Stash, StashThen, Step
  <2>2. CASE job.kind = "cleanup"
    BY <1>1, <1>2, <2>1, <2>2
    DEF IInv, Safe, KeptRuns, PlacesTag, OldRuns, AsideFree, ClearsIdle,
        Placing, Placed, Clearing
  <2>3. CASE job.kind # "cleanup"
    BY <1>1, <1>2, <2>1, <2>3
    DEF IInv, Safe, KeptRuns, PlacesTag, OldRuns, AsideFree, ClearsIdle,
        Placing, Placed, Clearing
  <2> QED
    BY <2>2, <2>3
<1> QED
  BY <1>3, <1>4, <1>5

(* Placing a release by steps that leave every tag as it is: what ran runs.*)
LEMMA StagingSafe ==
  IInv /\ (StageBuild \/ DropIncoming \/ LandIncoming \/ NothingAside) => Safe'
<1> SUFFICES ASSUME IInv, StageBuild \/ DropIncoming \/ LandIncoming \/ NothingAside
             PROVE  Safe'
  OBVIOUS
<1>1. pc \in Placing /\ had' = had
  BY DEF StageBuild, DropIncoming, LandIncoming, NothingAside, Step, Still, Placing
<1>2. job.kind # "cleanup" /\ \E t \in Tags : job.name = Live(t)
  BY <1>1 DEF IInv, Safe, PlacesTag
<1>3. /\ pc' \in {"promote", "incoming", "aside", "movein", "idle"}
      /\ pc' # "idle" => job' = job
      /\ pc' = "movein" => rel' = rel /\ rel[job.name] = NoDir
  BY DEF StageBuild, DropIncoming, LandIncoming, NothingAside, Step, disk
<1>4. \A u \in Tags : rel'[Live(u)] = rel[Live(u)]
  <2>1. PICK t \in Tags : job.name = Live(t)
    BY <1>2
  <2>2. \A u \in Tags : Live(u) # Incoming(job.name) /\ Live(u) # Staged(job.name)
                        /\ Live(u) \in Names
    BY <2>1, NamesOfTag
  <2>3. rel \in [Names -> Contents]
    BY DEF IInv, Safe, TypeOK
  <2>4. CASE StageBuild
    BY <2>2, <2>3, <2>4 DEF StageBuild
  <2>5. CASE DropIncoming
    BY <2>2, <2>3, <2>5 DEF DropIncoming
  <2>6. CASE LandIncoming
    BY <2>2, <2>3, <2>6 DEF LandIncoming
  <2>7. CASE NothingAside
    BY <2>7 DEF NothingAside, disk
  <2> QED
    BY <2>4, <2>5, <2>6, <2>7
<1>5. had => \E t \in Tags : rel'[Live(t)].has = "game"
  BY <1>1, <1>4 DEF IInv, Safe, OldRuns
<1>6. StaysPlayable'
  BY <1>1, <1>5, TagPlayable DEF StaysPlayable
<1>7. pc' = "movein" /\ had' =>
        \E n \in Names : n \notin {job.name, Incoming(job.name)} /\ rel'[n].has = "game"
  <2> SUFFICES ASSUME pc' = "movein", had'
               PROVE  \E n \in Names : n \notin {job.name, Incoming(job.name)}
                                       /\ rel'[n].has = "game"
    OBVIOUS
  <2>1. PICK t \in Tags : job.name = Live(t)
    BY <1>2
  <2>2. PICK u \in Tags : rel'[Live(u)].has = "game"
    BY <1>1, <1>5
  <2>3. Live(u) # job.name
    BY <1>3, <2>2, ContentsTyped
  <2>4. Live(u) \in Names /\ Live(u) # Incoming(job.name)
    BY <2>1, NamesOfTag
  <2> QED
    BY <2>2, <2>3, <2>4
<1>8. OldRuns'
  BY <1>1, <1>3, <1>5, <1>7 DEF OldRuns, Placing, Incoming
<1>9. AsideFree'
  BY <1>3 DEF AsideFree
<1>10. KeptRuns' /\ PlacesTag' /\ ClearsIdle'
  BY <1>2, <1>3 DEF KeptRuns, PlacesTag, ClearsIdle, Placing, Placed, Clearing
<1> QED
  BY <1>6, <1>8, <1>9, <1>10 DEF Safe

(* A release that ran is moved aside, not removed; if it cannot be moved   *)
(* it stays.                                                               *)
LEMMA MoveAsideSafe == IInv /\ MoveAside => Safe'
<1> SUFFICES ASSUME IInv, MoveAside PROVE Safe'
  OBVIOUS
<1>1. pc = "aside" /\ had' = had
  BY DEF MoveAside, Still
<1>2. job.kind # "cleanup"
  BY <1>1 DEF IInv, Safe, PlacesTag, Placing
<1>3. PICK t \in Tags : job.name = Live(t)
  BY <1>1 DEF IInv, Safe, PlacesTag, Placing
<1>4. /\ FreeAside \in Names /\ FreeAside # job.name /\ FreeAside # Incoming(job.name)
      /\ \A u \in Tags : Live(u) # FreeAside
      /\ Incoming(job.name) \in Names /\ job.name \in Names
  BY <1>3, NamesOfTag DEF FreeAside
<1>5. rel \in [Names -> Contents]
  BY DEF IInv, Safe, TypeOK
<1>6. had => \E u \in Tags : rel[Live(u)].has = "game"
  BY <1>1 DEF IInv, Safe, OldRuns, Placing
<1>7. CASE pc' = "movein"
  <2>1. job' = job /\ rel' = [rel EXCEPT ![FreeAside] = rel[job.name], ![job.name] = NoDir]
    BY <1>7 DEF MoveAside, Step
  <2>2. rel'[job.name] = NoDir /\ rel'[FreeAside] = rel[job.name]
    BY <1>4, <1>5, <2>1
  <2>3. had => \E n \in Names : n \notin {job.name, Incoming(job.name)}
                                /\ rel'[n].has = "game"
    <3> SUFFICES ASSUME had
                 PROVE  \E n \in Names : n \notin {job.name, Incoming(job.name)}
                                         /\ rel'[n].has = "game"
      OBVIOUS
    <3>1. PICK u \in Tags : rel[Live(u)].has = "game"
      BY <1>6
    <3>2. CASE Live(u) = job.name
      BY <1>4, <2>2, <3>1, <3>2
    <3>3. CASE Live(u) # job.name
      <4>1. Live(u) \in Names /\ Live(u) # Incoming(job.name)
        BY <1>3, NamesOfTag
      <4>2. rel'[Live(u)] = rel[Live(u)]
        BY <1>4, <1>5, <2>1, <3>3, <4>1
      <4> QED
        BY <3>1, <3>3, <4>1, <4>2
    <3> QED
      BY <3>2, <3>3
  <2> QED
    BY <1>1, <1>2, <1>3, <1>7, <2>1, <2>2, <2>3
    DEF Safe, StaysPlayable, Candidates, KeptRuns, PlacesTag, OldRuns, AsideFree,
        ClearsIdle, Placing, Placed, Clearing, Incoming
<1>8. CASE pc' = "idle"
  <2>1. rel' = [rel EXCEPT ![Incoming(job.name)] = NoDir]
    BY <1>8 DEF MoveAside, Step
  <2>2. \A u \in Tags : rel'[Live(u)] = rel[Live(u)]
    BY <1>3, <1>4, <1>5, <2>1, NamesOfTag
  <2>3. StaysPlayable'
    BY <1>1, <1>6, <2>2, TagPlayable DEF StaysPlayable
  <2> QED
    BY <1>8, <2>3 DEF Safe, KeptRuns, PlacesTag, OldRuns, AsideFree, ClearsIdle,
                      Placing, Placed, Clearing
<1> QED
  BY <1>7, <1>8 DEF MoveAside, Step

(* Moving the new release in rewrites its own two places, and what was set *)
(* aside at most moves back.                                               *)
LEMMA MoveInSafe == IInv /\ MoveIn => Safe'
<1> SUFFICES ASSUME IInv, MoveIn PROVE Safe'
  OBVIOUS
<1>1. pc = "movein" /\ had' = had
  BY DEF MoveIn, Step, Still
<1>2. job.kind # "cleanup" /\ \E t \in Tags : job.name = Live(t)
  BY <1>1 DEF IInv, Safe, PlacesTag
<1>3. job.name \in Names /\ Incoming(job.name) \in Names
  BY <1>2, NamesOfTag
<1>4. rel \in [Names -> Contents] /\ (outgoing = None \/ outgoing \in Names)
  BY DEF IInv, Safe, TypeOK
<1>5. StaysPlayable'
  <2> SUFFICES ASSUME had PROVE \E n \in Names : rel'[n].has = "game"
    BY <1>1 DEF StaysPlayable, Candidates
  <2>1. PICK n \in Names : n \notin {job.name, Incoming(job.name)} /\ rel[n].has = "game"
    BY <1>1 DEF IInv, Safe, OldRuns
  <2>2. CASE rel' = MovedIn
    BY <1>3, <1>4, <2>1, <2>2 DEF MovedIn
  <2>3. CASE rel' \in MovedBack
    <3> DEFINE dropped == [rel EXCEPT ![Incoming(job.name)] = NoDir]
    <3>1. dropped \in [DOMAIN rel -> {dropped[m] : m \in Names}] /\ DOMAIN dropped = Names
      BY <1>4
    <3>2. dropped[n] = rel[n]
      BY <1>4, <2>1
    <3>3. CASE rel' = dropped \/ \E c \in PartsOf(rel[Incoming(job.name)]) :
                                   rel' = [dropped EXCEPT ![job.name] = c]
      BY <2>1, <3>1, <3>2, <3>3
    <3>4. CASE outgoing # None /\ rel' = [dropped EXCEPT ![job.name] = rel[outgoing],
                                                        ![outgoing] = NoDir]
      <4>1. CASE n = outgoing
        BY <1>3, <1>4, <2>1, <3>1, <3>4, <4>1
      <4>2. CASE n # outgoing
        BY <1>3, <1>4, <2>1, <3>1, <3>2, <3>4, <4>2
      <4> QED
        BY <4>1, <4>2
    <3> QED
      BY <2>3, <3>3, <3>4 DEF MovedBack
  <2> QED
    BY <2>2, <2>3 DEF MoveIn
<1>6. pc' \in {"flip", "idle"} /\ (pc' = "flip" => job' = job)
  BY DEF MoveIn, Step
<1> QED
  BY <1>2, <1>5, <1>6 DEF Safe, KeptRuns, PlacesTag, OldRuns, AsideFree, ClearsIdle,
                          Placing, Placed, Clearing

(* Linking and recording a release, and restoring files into it, leave     *)
(* every launch binary; pruning spares the one release known to run.       *)
LEMMA PlacedSafe ==
  /\ IInv
  /\ \/ FlipPartial \/ Flip \/ Point \/ Restore \/ OpenRecord \/ WriteRecord
     \/ Prune \/ PruneDone \/ Finish
  => Safe'
<1> SUFFICES ASSUME IInv,
                    \/ FlipPartial \/ Flip \/ Point \/ Restore \/ OpenRecord \/ WriteRecord
                    \/ Prune \/ PruneDone \/ Finish
             PROVE  Safe'
  OBVIOUS
<1>1. had' = had
  BY DEF FlipPartial, Flip, Point, Restore, OpenRecord, WriteRecord, Prune, PruneDone,
         Finish, Still
<1>2. /\ pc \in Placed \cup {"flip", "inspect"} /\ pc' \in Placed \cup {"inspect", "idle"}
      /\ pc' \in Placed => job' = job /\ (pc \in Placed \/ rel[job.name].has = "game")
  BY DEF FlipPartial, Flip, Point, Restore, OpenRecord, WriteRecord, Prune, PruneDone,
         Finish, Step, Placed
<1>3. \A n \in Names : rel'[n].has = rel[n].has \/ (n # job.name /\ pc = "prune")
  <2>1. rel \in [Names -> Contents]
    BY DEF IInv, Safe, TypeOK
  <2>2. CASE Restore
    <3>1. \A n, m \in Names : Restored(n)[m].has = rel[m].has
      <4> SUFFICES ASSUME NEW n \in Names, NEW m \in Names
                   PROVE  Restored(n)[m].has = rel[m].has
        OBVIOUS
      <4>1. rel[n] \in Contents
        BY <2>1
      <4>2. [rel[n] EXCEPT !.config = preserved.config].has = rel[n].has
        BY <4>1 DEF Contents
      <4> QED
        BY <2>1, <4>2 DEF Restored
    <3>2. job.name \in Names
      BY <2>2 DEF Restore, Step, IInv, Safe, KeptRuns, Placed
    <3>3. rel' \in {Restored(n) : n \in Names}
      BY <2>2, <3>2 DEF Restore, IInv, Safe, TypeOK
    <3> QED
      BY <3>1, <3>3
  <2>3. CASE Prune
    BY <2>1, <2>3 DEF Prune, Stale, Dirs
  <2>4. CASE ~Restore /\ ~Prune
    BY <2>4 DEF FlipPartial, Flip, Point, OpenRecord, WriteRecord, PruneDone, Finish, disk
  <2> QED
    BY <2>2, <2>3, <2>4
<1>4. pc \in Placed => job.name \in Names /\ rel'[job.name].has = "game"
  BY <1>3 DEF IInv, Safe, KeptRuns
<1>5. StaysPlayable'
  <2>1. CASE pc = "prune"
    BY <1>4, <2>1 DEF StaysPlayable, Candidates, Placed
  <2>2. CASE pc # "prune"
    BY <1>1, <1>3, <2>2, NoneLostPlayable DEF IInv, Safe
  <2> QED
    BY <2>1, <2>2
<1>6. KeptRuns'
  <2> SUFFICES ASSUME pc' \in Placed
               PROVE  job'.name \in Names /\ rel'[job'.name].has = "game"
    BY <1>2 DEF KeptRuns, Placed
  <2>1. CASE pc \in Placed
    BY <1>2, <1>4, <2>1
  <2>2. CASE pc = "flip"
    <3>1. job.name \in Names
      BY <2>2, NamesOfTag DEF IInv, Safe, PlacesTag
    <3> QED
      BY <1>2, <1>3, <2>2, <3>1 DEF Placed
  <2>3. CASE pc = "inspect"
    BY <2>3 DEF FlipPartial, Flip, Point, Restore, OpenRecord, WriteRecord, Prune,
                PruneDone, Finish, Step, Placed
  <2> QED
    BY <1>2, <2>1, <2>2, <2>3
<1> QED
  BY <1>2, <1>5, <1>6 DEF Safe, PlacesTag, OldRuns, AsideFree, ClearsIdle,
                          Placing, Placed, Clearing
-----------------------------------------------------------------------------
(* The invariant holds of the empty folder. *)
LEMMA InitInvariant == Init => IInv
<1>1. Init => Safe
  BY DEF Init, Safe, StaysPlayable, KeptRuns, PlacesTag, OldRuns, AsideFree, ClearsIdle,
         Placing, Placed, Clearing
<1> QED
  BY <1>1, InitTyped DEF IInv, Safe

(* Every step keeps the invariant, and so does none. *)
LEMMA NextInvariant == IInv /\ [Next]_vars => IInv'
<1> SUFFICES ASSUME IInv, [Next]_vars PROVE TypeOK' /\ Safe'
  BY DEF IInv, Safe
<1>1. CASE UiLook \/ UiHeal \/ Play
  BY <1>1, UiTyped, UiSafe DEF IInv, Safe
<1>2. CASE \/ BeginCleanup
           \/ \E t \in Tags : BeginInstall(t) \/ BeginUpdate(t)
           \/ \E kind \in {"uninstall", "purge"} : BeginUninstall(kind)
  BY <1>2, BeginningsTyped, BeginningsSafe DEF IInv, Safe
<1>3. CASE Crash
  <2>1. TypeOK'
    BY <1>3, RecordsTyped, InstallAssumption DEF Crash, Fail, IInv, Safe, TypeOK, disk, Steps
  <2>2. StaysPlayable'
    BY <1>3 DEF Crash, IInv, Safe, StaysPlayable, Candidates, disk
  <2> QED
    BY <1>3, <2>1, <2>2 DEF Crash, Safe, KeptRuns, PlacesTag, OldRuns, AsideFree,
                            ClearsIdle, Placing, Placed, Clearing
<1>4. CASE ForgetPreserved \/ ClearStash \/ Unlink \/ ClearDirs
  BY <1>4, ClearingTyped, ClearingSafe DEF IInv, Safe
<1>5. CASE Fetch \/ FetchNoBinary \/ FetchFails \/ Stash
  BY <1>5, FetchingTyped, FetchingSafe DEF IInv, Safe
<1>6. CASE StageBuild \/ DropIncoming \/ LandIncoming \/ MoveAside \/ NothingAside \/ MoveIn
  BY <1>6, PlacingTyped, StagingSafe, MoveAsideSafe, MoveInSafe DEF IInv, Safe
<1>7. CASE \/ FlipPartial \/ Flip \/ Point \/ Restore \/ OpenRecord \/ WriteRecord
           \/ Prune \/ PruneDone \/ Finish
  BY <1>7, PlacedTyped, PlacedSafe DEF IInv, Safe
<1>8. CASE UNCHANGED vars
  BY <1>8 DEF vars, disk, history, IInv, Safe, TypeOK, StaysPlayable, Candidates, KeptRuns,
              PlacesTag, OldRuns, AsideFree, ClearsIdle, Incoming
<1> QED
  BY <1>1, <1>2, <1>3, <1>4, <1>5, <1>6, <1>7, <1>8 DEF Next, JobStep

(* The invariant holds throughout, whatever the process, the file system   *)
(* and the player do.                                                      *)
THEOREM Invariant == Spec => []IInv
  BY InitInvariant, NextInvariant, PTL DEF Spec

(* The folder, its record and the job are always well typed. *)
THEOREM TypeCorrect == Spec => []TypeOK
<1>1. IInv => TypeOK
  BY DEF IInv, Safe
<1> QED
  BY <1>1, Invariant, PTL

(* No update, rebuild or cleanup, however it is cut short or fails, takes  *)
(* from the player a title that could be run when it began.                *)
THEOREM PlayableThroughout == Spec => []StaysPlayable
<1>1. IInv => StaysPlayable
  BY DEF IInv, Safe
<1> QED
  BY <1>1, Invariant, PTL
-----------------------------------------------------------------------------
(***************************************************************************)
(* Where an undisturbed run keeps the newest saves, and what it holds to   *)
(* be installed.  Until a job stashes, the folder is empty and the saves   *)
(* are in preserved/, or one release alone is there, linked, recorded and  *)
(* with the saves in it.  From the stash on they are in preserved/, and    *)
(* after the restore in the release the job keeps too, which by then runs. *)
(***************************************************************************)
Undisturbed == disturbed = "no"
Lone(n) == Dirs = {n} /\ rel[n].has = "game" /\ \E t \in Tags : n = Live(t)
Linked(n) == current = n /\ record.name = n /\ (IsBuild(n) => record.method = "build")
EmptyFolder == Dirs = {} /\ current = None /\ record = NoRecord
Saved == wrote # 0 => preserved.config = wrote
InPlace(n) == wrote # 0 => rel[n].config = wrote
Told == \/ EmptyFolder /\ Saved
        \/ \E n \in Names : Lone(n) /\ Linked(n) /\ InPlace(n)

(* What a look of the UI thread is about to write is a record of a pick.   *)
UiMeans == ui # NoRecord => ui.name \in Names /\ (IsBuild(ui.name) => ui.method = "build")

(* The steps, by how far a job has come with what is there.                *)
Resting == {"idle", "fetch", "stash"}
Leaving == {"clear", "clearstash"}
Removing == {"unlink", "cleardirs"}
Making == {"stage", "promote", "incoming", "aside", "movein", "flip", "point", "restore"}
Wrapping == {"record", "write", "prune", "inspect"}
(* What holds at each.                                                     *)
Story ==
  /\ pc \in Resting \cup {"clear", "clearstash"} => Told
  /\ pc \in {"idle", "fetch"} /\ Dirs = {} => staging = "none"
  /\ pc \in {"clear", "clearstash"} => job.kind = "uninstall" /\ Dirs # {}
  /\ pc \in Removing =>
       \/ job.kind = "uninstall" /\ Saved
       \/ job.kind = "purge" /\ (Saved \/ \E n \in Names : InPlace(n))
  /\ pc \notin {"idle"} \cup Leaving \cup Removing =>
       job.kind \in {"install", "update"} /\ \E t \in Tags : job.name = Live(t)
  /\ pc \in Making \cup Wrapping => Saved
  /\ pc \in {"stash", "promote", "incoming"} /\ ~IsBuild(job.name) => staging = "whole"
  /\ pc = "stage" => IsBuild(job.name)
  /\ pc \in {"promote", "incoming"} /\ IsBuild(job.name) => rel[Staged(job.name)].has = "game"
  /\ pc \in {"aside", "movein"} => rel[Incoming(job.name)].has = "game"
  /\ pc \in {"flip", "point", "restore"} \cup Wrapping => rel[job.name].has = "game"
  /\ pc \in Wrapping => InPlace(job.name)
  /\ pc = "inspect" => Dirs = {job.name}
StoryInv == UiMeans /\ (Undisturbed => Story)
-----------------------------------------------------------------------------
(* What a look picks, of no release and of one.                            *)
LEMMA EmptyPicks == ASSUME Dirs = {} PROVE Candidates = {} /\ Best = {}
  BY DEF Dirs, Candidates, Best, NoDir

LEMMA LonePicks ==
  ASSUME TypeOK, NEW n \in Names, Lone(n)
  PROVE  Candidates = {n} /\ Best = {n}
<1>1. Candidates = {n}
  BY DEF Lone, Dirs, Candidates, NoDir
<1>2. Score(n) >= Score(n)
  BY DEF Score
<1> QED
  BY <1>1, <1>2 DEF Best

(* What a look leaves at rest tells the same story.                        *)
LEMMA LookTold ==
  ASSUME TypeOK, Told, Inspect, UNCHANGED <<rel, preserved, wrote>>
  PROVE  Told'
<1>1. CASE EmptyFolder /\ Saved
  <2>1. UNCHANGED <<current, record>>
    BY <1>1, EmptyPicks DEF EmptyFolder, Inspect
  <2> QED
    BY <1>1, <2>1 DEF Told, EmptyFolder, Saved, Dirs
<1>2. ASSUME NEW n \in Names, Lone(n), Linked(n), InPlace(n) PROVE Told'
  <2>1. current' = n /\ record' = RecordFor(n)
    BY <1>2, LonePicks DEF Inspect
  <2>2. Linked(n)'
    BY <2>1 DEF Linked, RecordFor
  <2> QED
    BY <1>2, <2>2 DEF Told, Lone, InPlace, Dirs
<1> QED
  BY <1>1, <1>2 DEF Told

(* A stash takes the newest saves.                                         *)
LEMMA SweptTold ==
  ASSUME TypeOK, Told, NEW swept \in Sweeps
  PROVE  wrote # 0 => swept.config = wrote
<1>1. PICK c \in LastSwept("config") : swept.config = Swept("config", c)
  BY DEF Sweeps
<1>2. CASE EmptyFolder /\ Saved
  <2>1. c = None
    BY <1>1, <1>2 DEF LastSwept, EmptyFolder
  <2> QED
    BY <1>1, <1>2, <2>1 DEF Swept, Saved
<1>3. ASSUME NEW n \in Names, Lone(n), InPlace(n), wrote # 0 PROVE swept.config = wrote
  <2>1. rel[n].config = wrote /\ wrote > 0 /\ n \in Dirs
    BY <1>3 DEF InPlace, Lone, TypeOK, Versions
  <2>2. c = n /\ c # None
    BY <1>1, <1>3, <2>1, NoneAssumption DEF LastSwept, Lone
  <2> QED
    BY <1>1, <2>1, <2>2 DEF Swept
<1> QED
  BY <1>2, <1>3 DEF Told

(***************************************************************************)
(* An undisturbed step, action by action                                   *)
(***************************************************************************)
Calm == TypeOK /\ Story /\ Undisturbed /\ Undisturbed'

LEMMA CalmSteps ==
  ASSUME Calm
  PROVE  ~Fail /\ (Worst("retry") # disturbed' /\ Worst("yes") # disturbed')
  BY DEF Calm, Undisturbed, Fail, Worst

(* At rest with nothing begun.                                             *)
LEMMA ToldIdle ==
  ASSUME TypeOK, UNCHANGED <<rel, preserved, wrote, current, record>>, Told
  PROVE  Told'
  BY DEF Told, EmptyFolder, Saved, Lone, Linked, InPlace, Dirs

LEMMA UiStory ==
  ASSUME Calm, UiMeans, UiLook \/ UiHeal \/ Play PROVE Story'
<1> USE DEF Calm
<1>1. CASE UiLook
  <2>1. UNCHANGED <<disk, pc, job, wrote>>
    BY <1>1 DEF UiLook, history
  <2> QED
    BY <2>1 DEF disk, Story, Told, EmptyFolder, Saved, Lone, Linked, InPlace, Dirs, Incoming, Staged
<1>2. CASE UiHeal
  <2>1. ui.name \in Best /\ ui # NoRecord
    BY <1>2 DEF UiHeal, Worst, Undisturbed
  <2>2. UNCHANGED <<rel, preserved, staging, pc, job, wrote>> /\ current' = ui.name /\ record' = ui
    BY <1>2 DEF UiHeal
  <2>3. Told => Told'
    <3>1. ~EmptyFolder
      BY <2>1, EmptyPicks DEF EmptyFolder
    <3>2. ASSUME NEW n \in Names, Lone(n), InPlace(n) PROVE Told'
      <4>1. ui.name = n
        BY <2>1, <3>2, LonePicks
      <4>2. Linked(n)'
        BY <2>1, <2>2, <4>1 DEF Linked, UiMeans
      <4> QED
        BY <2>2, <3>2, <4>2 DEF Told, Lone, InPlace, Dirs
    <3> QED
      BY <3>1, <3>2 DEF Told
  <2> QED
    BY <2>2, <2>3 DEF Story, Saved, InPlace, Dirs, Incoming, Staged
<1>3. CASE Play
  <2>1. pc = "idle" /\ UNCHANGED <<pc, job, staging, preserved>>
    BY <1>3 DEF Play, NextSave, Worst, Undisturbed
  <2> DEFINE v == IF wrote = 0 THEN 2 ELSE wrote + 1
  <2>2. PICK n \in Best :
          /\ current' = n /\ record' = RecordFor(n) /\ wrote' = v
          /\ rel' = [rel EXCEPT ![n] = [has |-> "game", config |-> v, card |-> v]]
    BY <1>3 DEF Play, NextSave
  <2> HIDE DEF v
  <2>3. PICK m \in Names : Lone(m)
    BY <2>1, <2>2, EmptyPicks DEF Story, Told, Resting, EmptyFolder
  <2>4. n = m
    BY <2>2, <2>3, LonePicks
  <2>5. rel'[n].has = "game" /\ rel'[n].config = v /\ \A o \in Names \ {n} : rel'[o] = rel[o]
    BY <2>2, <2>3, <2>4 DEF TypeOK
  <2>6. Dirs' = {n}
    BY <2>3, <2>4, <2>5 DEF Lone, Dirs, NoDir
  <2>7. Linked(n)'
    BY <2>2 DEF Linked, RecordFor
  <2>8. Told'
    BY <2>2, <2>3, <2>4, <2>5, <2>6, <2>7 DEF Told, Lone, InPlace
  <2> QED
    BY <2>1, <2>6, <2>8 DEF Story, Resting, Leaving, Removing, Making, Wrapping
<1> QED
  BY <1>1, <1>2, <1>3

LEMMA BeginningsStory ==
  ASSUME Calm
  PROVE  /\ \A t \in Tags : BeginInstall(t) \/ BeginUpdate(t) => Story'
         /\ \A kind \in {"uninstall", "purge"} : BeginUninstall(kind) => Story'
         /\ BeginCleanup => Story'
<1> USE DEF Calm
<1>1. ASSUME pc = "idle" PROVE Told /\ (Dirs = {} => staging = "none")
  BY <1>1 DEF Story, Resting
<1>2. ASSUME NEW kind, NEW n, NEW step, Begin(kind, n, step), Inspect
      PROVE  pc = "idle" /\ Told' /\ Dirs' = Dirs /\ staging' = staging
             /\ pc' = step /\ job'.kind = kind /\ job'.name = n
  BY <1>1, <1>2, LookTold DEF Begin, Dirs
<1>3. ASSUME NEW t \in Tags, BeginInstall(t) PROVE Story'
  <2>1. pc = "idle" /\ Best = {} /\ Inspect /\ Begin("install", Live(t), IF Present THEN "clear" ELSE "fetch")
    BY <1>3 DEF BeginInstall, Begin
  <2>2. EmptyFolder /\ staging = "none"
    BY <1>1, <2>1, LonePicks DEF Told, EmptyFolder
  <2>3. ~Present
    BY <2>2 DEF Present, EmptyFolder
  <2> QED
    BY <1>1, <1>2, <2>1, <2>3 DEF Story, Resting, Leaving, Removing, Making, Wrapping
<1>4. ASSUME NEW t \in Tags, BeginUpdate(t) PROVE Story'
  <2>1. pc = "idle" /\ Inspect /\ Begin("update", Live(t), "fetch")
    BY <1>4 DEF BeginUpdate, Begin
  <2> QED
    BY <1>1, <1>2, <2>1 DEF Story, Resting, Leaving, Removing, Making, Wrapping
<1>5. ASSUME NEW kind \in {"uninstall", "purge"}, BeginUninstall(kind) PROVE Story'
  <2>1. pc = "idle" /\ Inspect /\ Begin(kind, None, IF kind = "uninstall" THEN "clear" ELSE "unlink")
    BY <1>5 DEF BeginUninstall, Begin
  <2>2. CASE kind = "uninstall"
    <3>1. Present
      BY <1>5, <2>2 DEF BeginUninstall
    <3>2. Dirs # {}
      BY <1>1, <2>1, <3>1 DEF Told, EmptyFolder, Present, Lone
    <3> QED
      BY <1>1, <1>2, <2>1, <2>2, <3>2 DEF Story, Resting, Leaving, Removing, Making, Wrapping
  <2>3. CASE kind = "purge"
    <3>1. Saved' \/ \E n \in Names : InPlace(n)'
      BY <1>2, <2>1 DEF Told
    <3> QED
      BY <1>1, <1>2, <2>1, <2>3, <3>1 DEF Story, Resting, Leaving, Removing, Making, Wrapping
  <2> QED
    BY <2>2, <2>3
<1>6. ASSUME BeginCleanup PROVE FALSE
  <2>1. pc = "idle" /\ Cardinality(Dirs) > 1
    BY <1>6 DEF BeginCleanup, Begin
  <2>2. Dirs = {} \/ \E n \in Names : Dirs = {n}
    BY <1>1, <2>1 DEF Told, EmptyFolder, Lone
  <2>3. Cardinality(Dirs) \in {0, 1}
    BY <2>2, FS_EmptySet, FS_Singleton
  <2> QED
    BY <2>1, <2>3
<1> QED
  BY <1>3, <1>4, <1>5, <1>6

LEMMA ClearingStory ==
  ASSUME Calm, ForgetPreserved \/ ClearStash \/ Unlink \/ ClearDirs PROVE Story'
<1> USE DEF Calm
<1>1. CASE ForgetPreserved
  <2>1. /\ pc = "clear" /\ pc' = "clearstash" /\ job' = job
        /\ UNCHANGED <<rel, staging, current, record, wrote>>
    BY <1>1 DEF ForgetPreserved, Step, Still
  <2>2. \E n \in Names : Lone(n) /\ Linked(n) /\ InPlace(n)
    BY <2>1 DEF Story, Told, EmptyFolder
  <2>3. Told'
    BY <2>1, <2>2 DEF Told, Lone, Linked, InPlace, Dirs
  <2> QED
    BY <2>1, <2>3 DEF Story, Resting, Leaving, Removing, Making, Wrapping, Dirs
<1>2. CASE ClearStash
  <2>1. /\ pc = "clearstash" /\ pc' = "unlink" /\ job' = job /\ preserved' \in Sweeps
        /\ UNCHANGED wrote
    BY <1>2, CalmSteps DEF ClearStash, StashThen, Step, Still
  <2>2. Told /\ job.kind = "uninstall"
    BY <2>1 DEF Story
  <2>3. Saved'
    BY <2>1, <2>2, SweptTold DEF Saved
  <2> QED
    BY <2>1, <2>2, <2>3 DEF Story, Resting, Leaving, Removing, Making, Wrapping
<1>3. CASE Unlink
  <2>1. /\ pc = "unlink" /\ pc' = "cleardirs" /\ job' = job
        /\ UNCHANGED <<rel, preserved, wrote>>
    BY <1>3 DEF Unlink, Step, Still
  <2> QED
    BY <2>1 DEF Story, Resting, Leaving, Removing, Making, Wrapping, Saved, InPlace
<1>4. CASE ClearDirs
  <2>1. /\ pc = "cleardirs" /\ rel' = [n \in Names |-> NoDir] /\ current' = None
        /\ record' = NoRecord /\ staging' = "none"
        /\ preserved' = (IF job.kind = "purge" THEN NoFiles ELSE preserved)
        /\ wrote' = (IF job.kind = "purge" THEN 0 ELSE wrote)
        /\ pc' = IF job.kind = "install" THEN "fetch" ELSE "idle"
    BY <1>4 DEF ClearDirs, Step
  <2>2. Dirs' = {}
    BY <2>1 DEF Dirs
  <2>3. Saved' /\ pc' = "idle"
    BY <2>1 DEF Story, Removing, Saved
  <2>4. Told'
    BY <2>1, <2>2, <2>3 DEF Told, EmptyFolder
  <2> QED
    BY <2>1, <2>3, <2>4 DEF Story, Resting, Leaving, Removing, Making, Wrapping
<1> QED
  BY <1>1, <1>2, <1>3, <1>4

LEMMA FetchingStory ==
  ASSUME Calm, Fetch \/ FetchNoBinary \/ FetchFails \/ Stash PROVE Story'
<1> USE DEF Calm
<1>1. CASE Fetch
  <2>1. /\ pc = "fetch" /\ pc' = "stash" /\ job' = job
        /\ staging' = (IF IsBuild(job.name) THEN "partial" ELSE "whole")
        /\ UNCHANGED <<rel, preserved, current, record, wrote>>
    BY <1>1 DEF Fetch, Step, Still
  <2>2. Told'
    BY <2>1, ToldIdle DEF Story, Resting
  <2> QED
    BY <2>1, <2>2 DEF Story, Resting, Leaving, Removing, Making, Wrapping
<1>2. CASE FetchNoBinary
  BY <1>2, CalmSteps DEF FetchNoBinary
<1>3. CASE FetchFails
  <2>1. /\ pc = "fetch" /\ pc' = "idle" /\ UNCHANGED <<rel, preserved, current, record, wrote>>
        /\ Candidates # {} \/ staging' = "none"
    BY <1>3 DEF FetchFails, Step, Still, Undisturbed, Worst
  <2>2. Told'
    BY <2>1, ToldIdle DEF Story, Resting
  <2>3. Dirs' = {} => staging' = "none"
    BY <2>1, EmptyPicks DEF Dirs
  <2> QED
    BY <2>1, <2>2, <2>3 DEF Story, Resting, Leaving, Removing, Making, Wrapping
<1>4. CASE Stash
  <2>1. pc = "stash" /\ Told /\ job.kind \in {"install", "update"}
        /\ (\E t \in Tags : job.name = Live(t)) /\ (~IsBuild(job.name) => staging = "whole")
    BY <1>4 DEF Stash, StashThen, Step, Story, Resting, Leaving, Removing
  <2>2. /\ pc' = (IF IsBuild(job.name) THEN "stage" ELSE "promote") /\ job' = job
        /\ preserved' \in Sweeps /\ UNCHANGED <<wrote, staging>>
    BY <1>4, <2>1, CalmSteps DEF Stash, StashThen, Step, Still
  <2>3. Saved'
    BY <2>1, <2>2, SweptTold DEF Saved
  <2> QED
    BY <2>1, <2>2, <2>3 DEF Story, Resting, Leaving, Removing, Making, Wrapping
<1> QED
  BY <1>1, <1>2, <1>3, <1>4

LEMMA PlacingStory ==
  ASSUME Calm, StageBuild \/ DropIncoming \/ LandIncoming \/ MoveAside \/ NothingAside \/ MoveIn
  PROVE  Story'
<1> USE DEF Calm
<1>1. job.kind \in {"install", "update"} /\ Saved /\ \E t \in Tags : job.name = Live(t)
  BY DEF StageBuild, DropIncoming, LandIncoming, MoveAside, NothingAside, MoveIn, Step, Story,
         Leaving, Removing, Making, Wrapping
<1>2. /\ job.name \in Names /\ Incoming(job.name) \in Names /\ Staged(job.name) \in Names
      /\ Incoming(job.name) # job.name /\ Staged(job.name) # job.name
      /\ Incoming(job.name) # Staged(job.name) /\ FreeAside # Incoming(job.name)
      /\ FreeAside \in Names
  BY <1>1 DEF Live, Incoming, Staged, Names, FreeAside
<1>3. UNCHANGED <<wrote, preserved>> /\ rel \in [Names -> Contents]
  BY DEF StageBuild, DropIncoming, LandIncoming, MoveAside, NothingAside, MoveIn, Still, disk, TypeOK
<1>4. Saved'
  BY <1>1, <1>3 DEF Saved
<1>5. CASE StageBuild
  <2>1. /\ pc = "stage" /\ pc' = "promote" /\ job' = job
        /\ rel' = [rel EXCEPT ![Staged(job.name)] = Built("game")]
    BY <1>5, CalmSteps DEF StageBuild, Step
  <2>2. rel'[Staged(job.name)].has = "game"
    BY <1>2, <1>3, <2>1 DEF Built
  <2>3. IsBuild(job.name)
    BY <2>1 DEF Story
  <2> QED
    BY <1>1, <1>4, <2>1, <2>2, <2>3 DEF Story, Resting, Leaving, Removing, Making, Wrapping, Staged
<1>6. CASE DropIncoming
  <2>1. /\ pc = "promote" /\ pc' = "incoming" /\ job' = job /\ UNCHANGED staging
        /\ rel' = [rel EXCEPT ![Incoming(job.name)] = NoDir]
    BY <1>6 DEF DropIncoming, Step
  <2>2. rel'[Staged(job.name)] = rel[Staged(job.name)]
    BY <1>2, <1>3, <2>1
  <2> QED
    BY <1>1, <1>4, <2>1, <2>2 DEF Story, Resting, Leaving, Removing, Making, Wrapping, Staged
<1>7. CASE LandIncoming
  <2>1. pc = "incoming" /\ pc' = "aside" /\ job' = job
    BY <1>7, CalmSteps DEF LandIncoming, Step
  <2>2. Landing.has = "game"
    BY <2>1 DEF Story, Landing, Package
  <2>3. rel'[Incoming(job.name)] = Landing
    <3>1. CASE IsBuild(job.name)
      <4>1. rel' = [rel EXCEPT ![Incoming(job.name)] = Landing, ![Staged(job.name)] = NoDir]
        BY <1>7, <3>1, CalmSteps DEF LandIncoming
      <4> QED
        BY <1>2, <1>3, <4>1
    <3>2. CASE ~IsBuild(job.name)
      <4>1. rel' = [rel EXCEPT ![Incoming(job.name)] = Landing]
        BY <1>7, <3>2, CalmSteps DEF LandIncoming
      <4> QED
        BY <1>2, <1>3, <4>1
    <3> QED
      BY <3>1, <3>2
  <2> QED
    BY <1>1, <1>4, <2>1, <2>2, <2>3 DEF Story, Resting, Leaving, Removing, Making, Wrapping, Incoming
<1>8. CASE MoveAside \/ NothingAside
  <2>1. pc = "aside" /\ pc' = "movein" /\ job' = job
    BY <1>8, CalmSteps DEF MoveAside, NothingAside, Step
  <2>2. rel'[Incoming(job.name)] = rel[Incoming(job.name)]
    <3>1. CASE NothingAside
      BY <3>1 DEF NothingAside, disk
    <3>2. CASE MoveAside
      <4>1. rel' = [rel EXCEPT ![FreeAside] = rel[job.name], ![job.name] = NoDir]
        BY <3>2, CalmSteps DEF MoveAside
      <4> QED
        BY <1>2, <1>3, <4>1
    <3> QED
      BY <1>8, <3>1, <3>2
  <2> QED
    BY <1>1, <1>4, <2>1, <2>2 DEF Story, Resting, Leaving, Removing, Making, Wrapping, Incoming
<1>9. CASE MoveIn
  <2>1. pc = "movein" /\ pc' = "flip" /\ job' = job /\ rel' = MovedIn
    BY <1>9, CalmSteps DEF MoveIn, Step
  <2>2. rel'[job.name] = rel[Incoming(job.name)]
    BY <1>2, <1>3, <2>1 DEF MovedIn
  <2> QED
    BY <1>1, <1>4, <2>1, <2>2 DEF Story, Resting, Leaving, Removing, Making, Wrapping
<1> QED
  BY <1>5, <1>6, <1>7, <1>8, <1>9

LEMMA PlacedStory ==
  ASSUME Calm, \/ FlipPartial \/ Flip \/ Point \/ Restore \/ OpenRecord \/ WriteRecord
               \/ Prune \/ PruneDone \/ Finish
  PROVE  Story'
<1> USE DEF Calm
<1>1. /\ job.kind \in {"install", "update"} /\ Saved /\ \E t \in Tags : job.name = Live(t)
      /\ rel[job.name].has = "game"
  BY DEF FlipPartial, Flip, Point, Restore, OpenRecord, WriteRecord, Prune, PruneDone, Finish,
         Step, Story, Leaving, Removing, Making, Wrapping
<1>2. job.name \in Names /\ rel \in [Names -> Contents] /\ rel[job.name] # NoDir
  BY <1>1 DEF Live, Names, TypeOK, NoDir
<1>3. UNCHANGED <<wrote, preserved>>
  BY DEF FlipPartial, Flip, Point, Restore, OpenRecord, WriteRecord, Prune, PruneDone, Finish,
         Still, disk
<1>4. Saved'
  BY <1>1, <1>3 DEF Saved
<1>5. CASE FlipPartial
  BY <1>1, <1>5 DEF FlipPartial
<1>6. CASE Flip \/ Point
  <2>1. pc' \in {"point", "restore"} /\ job' = job /\ UNCHANGED rel
    BY <1>6 DEF Flip, Point, Step
  <2> QED
    BY <1>1, <1>4, <2>1 DEF Story, Resting, Leaving, Removing, Making, Wrapping
<1>7. CASE Restore
  <2>1. pc' = "record" /\ job' = job /\ rel' = Restored(job.name)
    BY <1>1, <1>7 DEF Restore, Step
  <2>2. rel'[job.name].has = "game" /\ (preserved.config # 0 => rel'[job.name].config = preserved.config)
    <3>1. CASE preserved.config = 0
      BY <1>1, <2>1, <3>1 DEF Restored
    <3>2. CASE preserved.config # 0
      <4>1. rel' = [rel EXCEPT ![job.name].config = preserved.config]
        BY <1>2, <2>1, <3>2 DEF Restored
      <4>2. rel'[job.name] = [rel[job.name] EXCEPT !.config = preserved.config]
        BY <1>2, <4>1
      <4> QED
        BY <1>1, <1>2, <4>2 DEF Contents
    <3> QED
      BY <3>1, <3>2
  <2>3. InPlace(job.name)'
    BY <1>1, <1>3, <2>1, <2>2 DEF InPlace, Saved
  <2> QED
    BY <1>1, <1>4, <2>1, <2>2, <2>3 DEF Story, Resting, Leaving, Removing, Making, Wrapping, InPlace
<1>8. CASE OpenRecord \/ WriteRecord
  <2>1. pc \in {"record", "write"} /\ pc' \in {"write", "prune"} /\ job' = job /\ UNCHANGED rel
    BY <1>8, CalmSteps DEF OpenRecord, WriteRecord, Step
  <2> QED
    BY <1>1, <1>3, <1>4, <2>1 DEF Story, Resting, Leaving, Removing, Making, Wrapping, InPlace
<1>9. CASE Prune
  <2>1. PICK n \in Stale : rel' = [rel EXCEPT ![n] = NoDir] /\ UNCHANGED <<pc, job>> /\ pc = "prune"
    BY <1>9, CalmSteps DEF Prune
  <2>2. rel'[job.name] = rel[job.name]
    BY <1>2, <2>1 DEF Stale
  <2> QED
    BY <1>1, <1>3, <1>4, <2>1, <2>2 DEF Story, Resting, Leaving, Removing, Making, Wrapping, InPlace
<1>10. CASE PruneDone
  <2>1. pc = "prune" /\ pc' = "inspect" /\ job' = job /\ UNCHANGED rel /\ Stale = {}
    BY <1>10 DEF PruneDone, Step, disk
  <2>2. Dirs' = {job.name}
    BY <1>2, <2>1 DEF Dirs, Stale
  <2> QED
    BY <1>1, <1>3, <1>4, <2>1, <2>2 DEF Story, Resting, Leaving, Removing, Making, Wrapping, InPlace
<1>11. CASE Finish
  <2>1. pc = "inspect" /\ pc' = "idle" /\ Inspect /\ UNCHANGED rel
    BY <1>11 DEF Finish, Step
  <2>2. Dirs = {job.name} /\ InPlace(job.name)
    BY <2>1 DEF Story, Wrapping
  <2>3. Lone(job.name)
    BY <1>1, <2>2 DEF Lone
  <2>4. current' = job.name /\ record' = RecordFor(job.name)
    BY <1>2, <2>1, <2>3, LonePicks DEF Inspect
  <2>5. Told'
    <3>1. PICK n \in Names : n = job.name
      BY <1>2
    <3>2. Lone(n)' /\ InPlace(n)'
      BY <1>3, <2>1, <2>2, <2>3, <3>1 DEF Lone, InPlace, Dirs
    <3>3. Linked(n)'
      BY <2>4, <3>1 DEF Linked, RecordFor
    <3> QED
      BY <3>2, <3>3 DEF Told
  <2>6. Dirs' # {}
    BY <2>1, <2>2 DEF Dirs
  <2> QED
    BY <2>1, <2>5, <2>6 DEF Story, Resting, Leaving, Removing, Making, Wrapping
<1> QED
  BY <1>5, <1>6, <1>7, <1>8, <1>9, <1>10, <1>11

(* The UI thread writes a record that a look of it made.                   *)
LEMMA UiMeansStep == ASSUME TypeOK, UiMeans, [Next]_vars PROVE UiMeans'
<1>1. CASE UiLook
  BY <1>1, PicksTyped DEF UiLook, UiMeans, RecordFor
<1>2. ui' = ui => UiMeans'
  BY DEF UiMeans
<1>3. ui' = NoRecord => UiMeans'
  BY DEF UiMeans
<1>4. CASE UiHeal \/ Crash
  BY <1>3, <1>4 DEF UiHeal, Crash
<1>5. CASE Play \/ UNCHANGED vars
  BY <1>2, <1>5 DEF Play, NextSave, vars
<1>6. CASE BeginCleanup \/ (\E t \in Tags : BeginInstall(t) \/ BeginUpdate(t))
           \/ \E kind \in {"uninstall", "purge"} : BeginUninstall(kind)
  BY <1>2, <1>6 DEF BeginCleanup, BeginInstall, BeginUpdate, BeginUninstall, Begin
<1>7. CASE JobStep
  <2>1. UNCHANGED ui
    BY <1>7 DEF JobStep, ForgetPreserved, ClearStash, Unlink, ClearDirs, Fetch, FetchNoBinary,
       FetchFails, Stash, StageBuild, DropIncoming, LandIncoming, MoveAside, NothingAside, MoveIn,
       FlipPartial, Flip, Point, Restore, OpenRecord, WriteRecord, Prune, PruneDone, Finish, Still
  <2> QED
    BY <1>2, <2>1
<1> QED
  BY <1>1, <1>4, <1>5, <1>6, <1>7 DEF Next

(* What has once disturbed a run does not cease to.                        *)
LEMMA DisturbedStays == ASSUME [Next]_vars, Undisturbed' PROVE Undisturbed
<1>1. CASE \/ UNCHANGED disturbed \/ Fail
           \/ \E d \in {"no", "retry", "yes"} : disturbed' = Worst(d)
  BY <1>1 DEF Undisturbed, Fail, Worst
<1>2. CASE UiLook \/ UiHeal \/ Play \/ Crash \/ UNCHANGED vars
  BY <1>1, <1>2 DEF UiLook, UiHeal, Play, NextSave, Crash, vars, history
<1>3. CASE BeginCleanup \/ (\E t \in Tags : BeginInstall(t) \/ BeginUpdate(t))
           \/ \E kind \in {"uninstall", "purge"} : BeginUninstall(kind)
  BY <1>1, <1>3 DEF BeginCleanup, BeginInstall, BeginUpdate, BeginUninstall, Begin
<1>4. CASE JobStep
  <2>1. CASE ForgetPreserved \/ ClearStash \/ Unlink \/ ClearDirs \/ Fetch \/ FetchNoBinary
             \/ FetchFails \/ Stash \/ StageBuild \/ DropIncoming \/ LandIncoming
    BY <1>1, <2>1 DEF ForgetPreserved, ClearStash, Unlink, ClearDirs, Fetch, FetchNoBinary,
       FetchFails, Stash, StashThen, StageBuild, DropIncoming, LandIncoming, Fine
  <2>2. CASE \/ MoveAside \/ NothingAside \/ MoveIn \/ FlipPartial \/ Flip \/ Point \/ Restore
             \/ OpenRecord \/ WriteRecord \/ Prune \/ PruneDone \/ Finish
    BY <1>1, <2>2 DEF MoveAside, NothingAside, MoveIn, FlipPartial, Flip, Point, Restore,
       OpenRecord, WriteRecord, Prune, PruneDone, Finish, Fine
  <2> QED
    BY <1>4, <2>1, <2>2 DEF JobStep
<1> QED
  BY <1>2, <1>3, <1>4 DEF Next

LEMMA StoryStep == ASSUME TypeOK, StoryInv, [Next]_vars PROVE StoryInv'
<1> SUFFICES ASSUME Undisturbed' PROVE Story'
  BY UiMeansStep DEF StoryInv
<1>1. Calm /\ UiMeans
  BY DisturbedStays DEF Calm, StoryInv
<1>2. CASE UiLook \/ UiHeal \/ Play
  BY <1>1, <1>2, UiStory
<1>3. CASE BeginCleanup \/ (\E t \in Tags : BeginInstall(t) \/ BeginUpdate(t))
           \/ \E kind \in {"uninstall", "purge"} : BeginUninstall(kind)
  BY <1>1, <1>3, BeginningsStory
<1>4. CASE Crash
  BY <1>1, <1>4, CalmSteps DEF Crash
<1>5. CASE JobStep
  BY <1>1, <1>5, ClearingStory, FetchingStory, PlacingStory, PlacedStory DEF JobStep
<1>6. CASE UNCHANGED vars
  BY <1>1, <1>6 DEF vars, disk, history, Calm, Story, Told, EmptyFolder, Saved, Lone, Linked, InPlace, Dirs,
     Incoming, Staged
<1> QED
  BY <1>2, <1>3, <1>4, <1>5, <1>6 DEF Next

LEMMA StoryInit == Init => StoryInv
<1> SUFFICES ASSUME Init PROVE StoryInv
  OBVIOUS
<1>1. Told
  BY DEF Init, Told, EmptyFolder, Saved, Dirs
<1>2. UiMeans
  BY DEF Init, UiMeans
<1> QED
  BY <1>1, <1>2 DEF Init, StoryInv, Story, Resting, Leaving, Removing, Making, Wrapping

(* The story holds as long as nothing disturbs the run.                    *)
THEOREM StoryHolds == Spec => [](TypeOK /\ StoryInv)
<1>1. Init => TypeOK /\ StoryInv
  BY InitTyped, StoryInit
<1>2. IInv /\ StoryInv /\ [Next]_vars => StoryInv'
  BY StoryStep DEF IInv
<1>3. IInv => TypeOK
  BY DEF IInv
<1> QED
  BY <1>1, <1>2, <1>3, Invariant, PTL DEF Spec

(* As long as nothing disturbs the run, the newest saves are on disk at    *)
(* every step of every job, and between jobs the game finds them.          *)
THEOREM SavesFollowThroughout == Spec => []SavesFollow
<1>1. ASSUME TypeOK, StoryInv PROVE SavesFollow
  <2> SUFFICES ASSUME Undisturbed, wrote # 0
               PROVE  OnDisk("config", wrote)
                      /\ (pc = "idle" => \A n \in Candidates : rel[n].config = wrote)
    BY DEF SavesFollow, NewestSaveKept, GameSeesNewest, Undisturbed
  <2>1. Story
    BY <1>1 DEF StoryInv
  <2>2. Saved \/ \E n \in Names : InPlace(n)
    BY <1>1, <2>1 DEF Story, Told, Resting, Leaving, Removing, Making, Wrapping, TypeOK, Steps
  <2>3. ASSUME pc = "idle", NEW n \in Candidates PROVE rel[n].config = wrote
    <3>1. Told
      BY <2>1, <2>3 DEF Story, Resting
    <3> QED
      BY <1>1, <2>3, <3>1, EmptyPicks, LonePicks DEF Told, EmptyFolder, InPlace
  <2> QED
    BY <2>2, <2>3 DEF OnDisk, Saved, InPlace
<1> QED
  BY <1>1, StoryHolds, PTL

(* ... and between jobs the record, the link and the folder agree.         *)
THEOREM OneStoryThroughout == Spec => []OneStory
<1>1. ASSUME TypeOK, StoryInv PROVE OneStory
  <2> SUFFICES ASSUME Undisturbed, pc = "idle"
               PROVE  \/ Dirs = {} /\ current = None /\ record = NoRecord
                      \/ Dirs = {current} /\ record = RecordFor(current)
    BY DEF OneStory, Undisturbed
  <2>1. Told
    BY <1>1 DEF StoryInv, Story, Resting
  <2>2. ASSUME NEW n \in Names, Lone(n), Linked(n) PROVE Dirs = {current} /\ record = RecordFor(current)
    <3>1. Dirs = {current} /\ record \in Records /\ record.name = current
          /\ (IsBuild(current) => record.method = "build")
      BY <1>1, <2>2 DEF Lone, Linked, TypeOK
    <3> QED
      BY <3>1 DEF Records, RecordFor
  <2> QED
    BY <2>1, <2>2 DEF Told, EmptyFolder
<1> QED
  BY <1>1, StoryHolds, PTL

-----------------------------------------------------------------------------
(* ---- one title, several roots ---- *)

(* A nonempty set has an element of least weight.                          *)
LEMMA Lightest ==
  ASSUME NEW S, S # {}, NEW w \in [S -> Nat]
  PROVE  \E x \in S : \A y \in S : ~(w[y] < w[x])
  <1> DEFINE W == {w[x] : x \in S}
             Less == {ss \in Nat \X Nat : ss[1] < ss[2]}
  <1>1. W \subseteq Nat /\ W # {}
    OBVIOUS
  <1>2. IsWellFoundedOn(Less, Nat)
    BY NatLessThanWellFounded DEF OpToRel
  <1>3. \E n \in W : \A m \in W : ~(<<m, n>> \in Less)
    <2> HIDE DEF W, Less
    <2> QED
      BY <1>1, <1>2, WFMin
  <1>4. PICK n \in W : \A m \in W : ~(m < n)
    BY <1>1, <1>3
  <1>5. PICK x \in S : w[x] = n
    OBVIOUS
  <1> QED
    BY <1>4, <1>5

(* The roots that are scanned are those that are listed and the builtin.   *)
LEMMA RootsListed ==
  ASSUME NEW l \in Seq(InRoots), rootList = l
  PROVE  /\ Effective \in Seq(InRoots) /\ Len(Effective) >= 1
         /\ Scanned \in Seq(InRoots) /\ Len(Scanned) >= 1
         /\ Rooted(Effective) \subseteq Rooted(Scanned)
         /\ Rooted(Scanned) = Rooted(l) \cup {BuiltinApps}
         /\ Rooted(Scanned) \subseteq InRoots
  <1>1. Effective \in Seq(InRoots) /\ Len(Effective) >= 1
    BY RootsAssumption DEF Effective
  <1>2. Rooted(l) \subseteq InRoots
    BY DEF Rooted
  <1>3. Rooted(Effective) = IF l = <<>> THEN {BuiltinApps} ELSE Rooted(l)
    BY DEF Effective, Rooted
  <1>4. Rooted(Effective) \cup {BuiltinApps} = Rooted(l) \cup {BuiltinApps}
    <2>1. l = <<>> => Rooted(l) = {}
      BY DEF Rooted
    <2> QED
      BY <1>3, <2>1
  <1>5. CASE \E i \in DOMAIN Effective : Effective[i] = BuiltinApps
    <2>1. Scanned = Effective /\ BuiltinApps \in Rooted(Effective)
      BY <1>5 DEF Scanned, Rooted
    <2> QED
      BY <2>1, <1>1, <1>2, <1>4, RootsAssumption
  <1>6. CASE ~(\E i \in DOMAIN Effective : Effective[i] = BuiltinApps)
    <2> DEFINE e == Effective
    <2>1. Scanned = <<BuiltinApps>> \o e
      BY <1>6 DEF Scanned
    <2> HIDE DEF e
    <2>2. e \in Seq(InRoots) /\ BuiltinApps \in InRoots
      BY <1>1, RootsAssumption DEF e
    <2>3. /\ Scanned \in Seq(InRoots) /\ Len(Scanned) = Len(e) + 1
          /\ Scanned[1] = BuiltinApps
          /\ \A i \in 1 .. Len(e) : Scanned[i + 1] = e[i]
      BY <2>1, <2>2
    <2>4. DOMAIN Scanned = 1 .. Len(e) + 1 /\ DOMAIN e = 1 .. Len(e) /\ Len(e) \in Nat
      BY <2>2, <2>3
    <2>5. Rooted(Scanned) \subseteq Rooted(e) \cup {BuiltinApps}
      <3> SUFFICES ASSUME NEW i \in DOMAIN Scanned
                   PROVE  Scanned[i] \in Rooted(e) \cup {BuiltinApps}
        BY DEF Rooted
      <3>1. i # 1 => i - 1 \in 1 .. Len(e) /\ Scanned[i] = e[i - 1]
        BY <2>3, <2>4
      <3> QED
        BY <3>1, <2>3, <2>4 DEF Rooted
    <2>6. Rooted(e) \subseteq Rooted(Scanned)
      <3> SUFFICES ASSUME NEW i \in DOMAIN e
                   PROVE  e[i] \in Rooted(Scanned)
        BY DEF Rooted
      <3>1. i + 1 \in DOMAIN Scanned /\ Scanned[i + 1] = e[i]
        BY <2>3, <2>4
      <3> QED
        BY <3>1 DEF Rooted
    <2>7. BuiltinApps \in Rooted(Scanned)
      BY <2>3, <2>4 DEF Rooted
    <2> QED
      BY <2>3, <2>4, <2>5, <2>6, <2>7, <1>1, <1>2, <1>4, RootsAssumption DEF e
  <1> QED
    BY <1>5, <1>6

LEMMA PreferredListed ==
  ASSUME rootList \in Seq(InRoots)
  PROVE  Preferred \in Rooted(Scanned) /\ Preferred \in InRoots
  <1>1. /\ Effective \in Seq(InRoots) /\ Len(Effective) >= 1
        /\ Rooted(Effective) \subseteq Rooted(Scanned)
        /\ Rooted(Scanned) \subseteq InRoots
    BY RootsListed
  <1>2. Effective[1] \in Rooted(Effective)
    BY <1>1 DEF Rooted
  <1> QED
    BY <1>1, <1>2 DEF Preferred

LEMMA TurnCounts ==
  ASSUME rootList \in Seq(InRoots), NEW r \in Rooted(Scanned)
  PROVE  Turn(r) \in Nat /\ Turn(r) \in DOMAIN Scanned /\ Scanned[Turn(r)] = r
  <1>1. Scanned \in Seq(InRoots)
    BY RootsListed
  <1>2. \E i \in DOMAIN Scanned : Scanned[i] = r
    BY DEF Rooted
  <1> QED
    BY <1>1, <1>2 DEF Turn

(* Of installs in several roots, one is not beaten by any.                 *)
LEMMA SomeBest ==
  ASSUME rootList \in Seq(InRoots), homes \in [InRoots -> Folder],
         NEW S \in SUBSET Rooted(Scanned), S # {}
  PROVE  \E r \in S : \A s \in S : ~Better(s, r)
  <1> DEFINE b(x) == IF homes[x].game = "build" THEN 1 ELSE 0
             p(x) == IF x = Preferred THEN 1 ELSE 0
  <1>1. \A x \in S : /\ homes[x].tag \in 0 .. MaxTag
                     /\ Turn(x) \in Nat
    <2> SUFFICES ASSUME NEW x \in S
                 PROVE  homes[x].tag \in 0 .. MaxTag /\ Turn(x) \in Nat
      OBVIOUS
    <2>1. x \in InRoots
      BY RootsListed
    <2> QED
      BY <2>1, TurnCounts DEF Folder
  <1>2. PICK x1 \in S : \A y \in S : ~(b(y) > b(x1))
    <2> DEFINE w == [x \in S |-> 1 - b(x)]
    <2>1. w \in [S -> Nat]
      OBVIOUS
    <2>2. PICK x \in S : \A y \in S : ~(w[y] < w[x])
      <3> HIDE DEF w
      <3> QED
        BY <2>1, Lightest
    <2> QED
      BY <2>2
  <1> DEFINE S1 == {y \in S : b(y) = b(x1)}
  <1>3. PICK x2 \in S1 : \A y \in S1 : ~(homes[y].tag > homes[x2].tag)
    <2> DEFINE w == [x \in S1 |-> MaxTag - homes[x].tag]
    <2>1. w \in [S1 -> Nat] /\ S1 # {}
      <3>1. x1 \in S1
        OBVIOUS
      <3>2. \A x \in S1 : MaxTag - homes[x].tag \in Nat
        BY <1>1, RootsAssumption
      <3> QED
        BY <3>1, <3>2
    <2>2. PICK x \in S1 : \A y \in S1 : ~(w[y] < w[x])
      <3> HIDE DEF w, S1
      <3> QED
        BY <2>1, Lightest
    <2>3. \A y \in S1 : homes[y].tag \in Int /\ w[y] = MaxTag - homes[y].tag
      BY <1>1
    <2>4. MaxTag \in Int
      BY RootsAssumption
    <2>5. \A y \in S1 : ~(homes[y].tag > homes[x].tag)
      <3> HIDE DEF w, S1
      <3> QED
        BY <2>2, <2>3, <2>4
    <2> QED
      BY <2>5
  <1> DEFINE S2 == {y \in S1 : homes[y].tag = homes[x2].tag}
  <1>4. PICK x3 \in S2 : \A y \in S2 : ~(p(y) > p(x3))
    <2> DEFINE w == [x \in S2 |-> 1 - p(x)]
    <2>1. w \in [S2 -> Nat] /\ S2 # {}
      <3>1. x2 \in S2
        OBVIOUS
      <3> QED
        BY <3>1
    <2>2. PICK x \in S2 : \A y \in S2 : ~(w[y] < w[x])
      <3> HIDE DEF w, S2
      <3> QED
        BY <2>1, Lightest
    <2> QED
      BY <2>2
  <1> DEFINE S3 == {y \in S2 : p(y) = p(x3)}
  <1>5. PICK x4 \in S3 : \A y \in S3 : ~(Turn(y) < Turn(x4))
    <2> DEFINE w == [x \in S3 |-> Turn(x)]
    <2>1. w \in [S3 -> Nat] /\ S3 # {}
      <3>1. x3 \in S3
        OBVIOUS
      <3> QED
        BY <3>1, <1>1
    <2>2. PICK x \in S3 : \A y \in S3 : ~(w[y] < w[x])
      <3> HIDE DEF w, S3
      <3> QED
        BY <2>1, Lightest
    <2> QED
      BY <2>2
  <1>6. ASSUME NEW s \in S
        PROVE  ~Better(s, x4)
    <2>1. /\ b(x4) = b(x1) /\ homes[x4].tag = homes[x2].tag /\ p(x4) = p(x3)
          /\ ~(b(s) > b(x1))
          /\ b(s) = b(x1) => ~(homes[s].tag > homes[x2].tag)
          /\ b(s) = b(x1) /\ homes[s].tag = homes[x2].tag => ~(p(s) > p(x3))
          /\ b(s) = b(x1) /\ homes[s].tag = homes[x2].tag /\ p(s) = p(x3) => ~(Turn(s) < Turn(x4))
      BY <1>2, <1>3, <1>4, <1>5
    <2>2. b(s) \in Int /\ b(x4) \in Int /\ p(s) \in Int /\ p(x4) \in Int
      OBVIOUS
    <2>3. SUFFICES ASSUME Better(s, x4) PROVE FALSE
      OBVIOUS
    <2>4. \/ b(s) > b(x4)
          \/ b(s) = b(x4) /\ homes[s].tag > homes[x4].tag
          \/ b(s) = b(x4) /\ homes[s].tag = homes[x4].tag /\ p(s) > p(x4)
          \/ b(s) = b(x4) /\ homes[s].tag = homes[x4].tag /\ p(s) = p(x4) /\ Turn(s) < Turn(x4)
      BY <2>3, Zenon DEF Better
    <2> HIDE DEF b, p
    <2> QED
      BY <2>1, <2>2, <2>4
  <1>7. x4 \in S
    OBVIOUS
  <1> QED
    BY <1>6, <1>7

LEMMA SomeFirst ==
  ASSUME rootList \in Seq(InRoots), NEW S \in SUBSET Rooted(Scanned), S # {}
  PROVE  \E r \in S : \A s \in S : ~(Turn(s) < Turn(r))
  <1> DEFINE w == [x \in S |-> Turn(x)]
  <1>1. w \in [S -> Nat]
    BY TurnCounts
  <1>2. PICK x \in S : \A y \in S : ~(w[y] < w[x])
    <2> HIDE DEF w
    <2> QED
      BY <1>1, Lightest
  <1> QED
    BY <1>2

(* What a job finds: a root that has something, if one has.                *)
LEMMA PickedFinds ==
  ASSUME rootList \in Seq(InRoots), homes \in [InRoots -> Folder]
  PROVE  /\ Picked \in InRoots /\ Picked \in Rooted(Scanned)
         /\ (\E r \in Rooted(Scanned) : homes[r] # Nothing) => homes[Picked] # Nothing
         /\ (\A r \in Rooted(Scanned) : homes[r] = Nothing) => Picked = Preferred
  <1> DEFINE partial == {r \in Rooted(Scanned) : homes[r] # Nothing}
             live == {r \in partial : HasGame(homes[r])}
  <1>1. CASE live # {}
    <2>1. live \in SUBSET Rooted(Scanned)
      OBVIOUS
    <2>2. \E r \in live : \A s \in live : ~Better(s, r)
      <3> HIDE DEF live
      <3> QED
        BY <1>1, <2>1, SomeBest
    <2>3. Picked = CHOOSE r \in live : \A s \in live : ~Better(s, r)
      BY <1>1 DEF Picked
    <2>4. Picked \in live
      <3> HIDE DEF live
      <3> QED
        BY <2>2, <2>3
    <2> QED
      BY <2>4, RootsListed
  <1>2. CASE live = {} /\ partial # {}
    <2>1. partial \in SUBSET Rooted(Scanned)
      OBVIOUS
    <2>2. \E r \in partial : \A s \in partial : ~(Turn(s) < Turn(r))
      <3> HIDE DEF partial
      <3> QED
        BY <1>2, <2>1, SomeFirst
    <2>3. Picked = CHOOSE r \in partial : \A s \in partial : ~(Turn(s) < Turn(r))
      BY <1>2 DEF Picked
    <2>4. Picked \in partial
      <3> HIDE DEF partial
      <3> QED
        BY <2>2, <2>3
    <2> QED
      BY <2>4, RootsListed
  <1>3. CASE partial = {}
    <2>1. Picked = Preferred
      BY <1>3 DEF Picked
    <2> QED
      BY <1>3, <2>1, PreferredListed
  <1> QED
    BY <1>1, <1>2, <1>3

(* With one folder there is no choice.                                     *)
LEMMA PickedAlone ==
  ASSUME rootList \in Seq(InRoots), homes \in [InRoots -> Folder],
         NEW r \in Rooted(Scanned), homes[r] # Nothing,
         \A s \in InRoots \ {r} : homes[s] = Nothing
  PROVE  Picked = r
  BY PickedFinds

(* What is made of folders are folders.                                    *)
LEMMA FoldersMade ==
  /\ Nothing \in Folder
  /\ \A d, s \in Folder, P \in SUBSET Pieces : Mix(d, s, P) \in Folder
  /\ \A v \in 0 .. MaxSaves : StashOnly(v) \in Folder
  /\ \A d \in Folder, keep \in BOOLEAN : Removed(d, keep) \in Folder
  /\ \A d \in Folder : Stashed(d) \in 0 .. MaxSaves
  /\ \A d \in Folder, shape \in Shapes, t \in 1 .. MaxTag : PlacedIn(d, shape, t) \in Folder
  <1>1. Nothing \in Folder
    BY RootsAssumption DEF Nothing, Folder
  <1>2. \A d, s \in Folder, P \in SUBSET Pieces : Mix(d, s, P) \in Folder
    BY DEF Mix, Folder
  <1>3. \A v \in 0 .. MaxSaves : StashOnly(v) \in Folder
    BY <1>1 DEF StashOnly, Folder, Nothing
  <1>4. \A d \in Folder, keep \in BOOLEAN : Removed(d, keep) \in Folder
    BY <1>1, <1>3 DEF Removed, Folder
  <1>5. \A d \in Folder : Stashed(d) \in 0 .. MaxSaves
    BY DEF Stashed, Folder
  <1>6. \A d \in Folder, shape \in Shapes, t \in 1 .. MaxTag : PlacedIn(d, shape, t) \in Folder
    BY RootsAssumption DEF PlacedIn, Folder
  <1> QED
    BY <1>1, <1>2, <1>3, <1>4, <1>5, <1>6

(* The pieces of a stash, of a mixture and of nothing.                     *)
LEMMA StashIs ==
  ASSUME NEW v
  PROVE  StashOnly(v) = [game |-> "none", tag |-> 0, rel |-> 0, app |-> 0, kept |-> v]
  BY DEF StashOnly, Nothing

LEMMA MixNone ==
  ASSUME NEW d \in Folder, NEW s \in Folder
  PROVE  /\ Mix(d, s, {}) = d
         /\ Mix(d, s, Pieces) = s
         /\ Mix(Nothing, Nothing, Pieces) = Nothing
         /\ \A P : Mix(Nothing, Nothing, P) = Nothing
  BY DEF Mix, Nothing, Folder, Pieces

(* A copy, and a removal, that goes on by one piece.                       *)
LEMMA MixOn ==
  ASSUME NEW d \in Folder, NEW L \in SUBSET Pieces, NEW p \in L
  PROVE  /\ Mix(Mix(d, Nothing, L), d, {p}) = Mix(d, Nothing, L \ {p})
         /\ ~HasPiece(d, p) => Mix(d, Nothing, L) = Mix(d, Nothing, L \ {p})
         /\ d = Mix(Nothing, d, L) =>
              Mix(d, Nothing, {p}) = Mix(Nothing, Mix(d, Nothing, {p}), L \ {p})
  <1>1. p \in Pieces
    OBVIOUS
  <1>2. CASE p = "game"
    BY <1>2 DEF Mix, Nothing, Folder, Pieces, HasPiece
  <1>3. CASE p = "rel"
    BY <1>3 DEF Mix, Nothing, Folder, Pieces, HasPiece
  <1>4. CASE p = "app"
    BY <1>4 DEF Mix, Nothing, Folder, Pieces, HasPiece
  <1>5. CASE p = "kept"
    BY <1>5 DEF Mix, Nothing, Folder, Pieces, HasPiece
  <1> QED
    BY <1>1, <1>2, <1>3, <1>4, <1>5 DEF Pieces

(* The saves of a folder that one piece was copied into, or taken from.    *)
LEMMA MixSaves ==
  ASSUME NEW d \in Folder, NEW s \in Folder, NEW P \in SUBSET Pieces
  PROVE  /\ Mix(d, s, P).rel = IF "rel" \in P THEN s.rel ELSE d.rel
         /\ Mix(d, s, P).app = IF "app" \in P THEN s.app ELSE d.app
         /\ Mix(d, s, P).kept = IF "kept" \in P THEN s.kept ELSE d.kept
  BY DEF Mix

LEMMA PieceSaves ==
  ASSUME NEW d \in Folder
  PROVE  /\ HasPiece(d, "rel") <=> d.rel # 0
         /\ HasPiece(d, "app") <=> d.app # 0
         /\ HasPiece(d, "kept") <=> d.kept # 0
  BY DEF HasPiece, Mix, Nothing

-----------------------------------------------------------------------------
(* Types.                                                                  *)
LEMMA RemoveFromTyped ==
  ASSUME InstallRootsTypeOK, NEW S, NEW keep \in BOOLEAN, RemoveFrom(S, keep)
  PROVE  homes' \in [InRoots -> Folder] /\ owed' \in 0 .. MaxSaves /\ owed' <= saved
  <1>1. homes' \in [InRoots -> Folder]
    BY FoldersMade DEF RemoveFrom, InstallRootsTypeOK
  <1>2. owed' \in {0, owed}
    BY DEF RemoveFrom, Owed
  <1> QED
    BY <1>1, <1>2, RootsAssumption DEF InstallRootsTypeOK

LEMMA PlaceInTyped ==
  ASSUME InstallRootsTypeOK, NEW r \in InRoots, NEW shape \in Shapes, NEW t \in 1 .. MaxTag,
         PlaceIn(r, shape, t)
  PROVE  homes' \in [InRoots -> Folder] /\ owed' \in 0 .. MaxSaves /\ owed' <= saved
  <1> DEFINE d == homes[Picked]
             swept == [homes EXCEPT ![Picked] = Mix(@, StashOnly(Stashed(@)), {"kept"})]
  <1>1. Picked \in InRoots
    BY PickedFinds DEF InstallRootsTypeOK
  <1>2. d \in Folder
    BY <1>1 DEF InstallRootsTypeOK
  <1>3. Mix(d, StashOnly(Stashed(d)), {"kept"}) \in Folder
    <2>1. StashOnly(Stashed(d)) \in Folder /\ {"kept"} \in SUBSET Pieces
      BY <1>2, FoldersMade DEF Pieces
    <2> QED
      BY <1>2, <2>1, FoldersMade
  <1>4. swept \in [InRoots -> Folder]
    BY <1>3 DEF InstallRootsTypeOK
  <1>5. homes' = [swept EXCEPT ![r] = PlacedIn(@, shape, t)]
    BY DEF PlaceIn
  <1>6. homes' \in [InRoots -> Folder]
    <2> HIDE DEF swept
    <2> QED
      BY <1>4, <1>5, FoldersMade
  <1>7. owed' \in {0, owed}
    BY DEF PlaceIn, Owed
  <1> QED
    BY <1>6, <1>7, RootsAssumption DEF InstallRootsTypeOK

LEMMA RootsTypeInit == InstallRootsInit => InstallRootsTypeOK
  <1> SUFFICES ASSUME InstallRootsInit PROVE InstallRootsTypeOK
    OBVIOUS
  <1>1. rootList \in Seq(InRoots)
    BY DEF InstallRootsInit, RootLists
  <1>2. rootDefault \in InRoots \cup {NoRoot}
    BY <1>1 DEF InstallRootsInit, Rooted
  <1>3. homes \in [InRoots -> Folder]
    BY FoldersMade DEF InstallRootsInit
  <1> QED
    BY <1>1, <1>2, <1>3, RootsAssumption
    DEF InstallRootsInit, InstallRootsTypeOK, NoRequest, Idle, InMove, Pieces

LEMMA SettingsTyped ==
  ASSUME InstallRootsTypeOK,
         \/ \E list \in RootLists, default \in InRoots \cup {NoRoot} : EditRoots(list, default)
         \/ CatalogTurns
  PROVE  InstallRootsTypeOK'
  <1>1. CASE CatalogTurns
    BY <1>1, RootsAssumption DEF InstallRootsTypeOK, CatalogTurns, InMove
  <1>2. ASSUME NEW list \in RootLists, NEW default \in InRoots \cup {NoRoot}, EditRoots(list, default)
        PROVE  InstallRootsTypeOK'
    <2>1. list \in Seq(InRoots)
      BY DEF RootLists
    <2>2. rootList' \in Seq(InRoots)
      BY <1>2, <2>1 DEF EditRoots
    <2>3. rootDefault' \in InRoots \cup {NoRoot}
      BY <1>2 DEF EditRoots
    <2>4. tidy' \in BOOLEAN
      BY <1>2, Zenon DEF EditRoots
    <2> QED
      BY <1>2, <2>2, <2>3, <2>4, RootsAssumption DEF InstallRootsTypeOK, EditRoots, InMove
  <1> QED
    BY <1>1, <1>2

LEMMA PlayTyped == InstallRootsTypeOK /\ PlayThere => InstallRootsTypeOK'
  <1> SUFFICES ASSUME InstallRootsTypeOK, PlayThere PROVE InstallRootsTypeOK'
    OBVIOUS
  <1> DEFINE r == Picked
             new == [Nothing EXCEPT !.rel = saved + 1, !.app = saved + 1]
  <1>1. r \in InRoots
    BY PickedFinds DEF InstallRootsTypeOK
  <1>2. new \in Folder
    <2>1. saved + 1 \in 0 .. MaxSaves
      <3>1. saved < MaxSaves
        BY Zenon DEF PlayThere
      <3>2. saved \in 0 .. MaxSaves
        BY DEF InstallRootsTypeOK
      <3> QED
        BY <3>1, <3>2, RootsAssumption
    <2> QED
      BY <2>1, FoldersMade DEF Folder
  <1>3. homes' \in [InRoots -> Folder]
    <2>1. homes' = [homes EXCEPT ![r] = Mix(@, new, IF @.game = "appimage" THEN {"app"} ELSE {"rel"})]
      BY DEF PlayThere
    <2>2. {"app"} \in SUBSET Pieces /\ {"rel"} \in SUBSET Pieces
      BY DEF Pieces
    <2> HIDE DEF new, r
    <2> QED
      BY <1>1, <1>2, <2>1, <2>2, FoldersMade DEF InstallRootsTypeOK
  <1>4. tidy' \in BOOLEAN
    BY DEF PlayThere
  <1> QED
    BY <1>3, <1>4, RootsAssumption DEF InstallRootsTypeOK, PlayThere, InMove

LEMMA RemovalTyped ==
  ASSUME InstallRootsTypeOK,
         (\E keep \in BOOLEAN : Uninstall(keep) \/ CleanOrphans(keep)) \/ DeleteAll \/ ClearGame
  PROVE  InstallRootsTypeOK'
  <1>1. homes' \in [InRoots -> Folder] /\ owed' \in 0 .. MaxSaves /\ owed' <= saved
    BY RemoveFromTyped DEF Uninstall, CleanOrphans, DeleteAll, ClearGame, InstallRootsTypeOK
  <1>2. CASE ClearGame
    BY <1>1, <1>2, RootsAssumption DEF InstallRootsTypeOK, ClearGame, InMove
  <1>3. CASE (\E keep \in BOOLEAN : Uninstall(keep) \/ CleanOrphans(keep)) \/ DeleteAll
    <2>1. UNCHANGED <<rootList, rootDefault, request, mv, saved, tidy, inCatalog, mvFaults, edits>>
      BY <1>3 DEF Uninstall, CleanOrphans, DeleteAll
    <2> QED
      BY <1>1, <2>1 DEF InstallRootsTypeOK, InMove
  <1> QED
    BY <1>2, <1>3

LEMMA RootPlacingTyped ==
  ASSUME InstallRootsTypeOK, NEW shape \in Shapes, NEW t \in 1 .. MaxTag,
         Update(shape, t) \/ CliInstall(shape, t) \/ Place(shape, t)
  PROVE  InstallRootsTypeOK'
  <1>1. Picked \in InRoots /\ Preferred \in InRoots
    BY PickedFinds, PreferredListed DEF InstallRootsTypeOK
  <1>2. homes' \in [InRoots -> Folder] /\ owed' \in 0 .. MaxSaves /\ owed' <= saved
    BY <1>1, PlaceInTyped DEF Update, CliInstall, Place, InstallRootsTypeOK
  <1>3. CASE Update(shape, t)
    BY <1>2, <1>3 DEF InstallRootsTypeOK, InMove, Update
  <1>4. CASE CliInstall(shape, t)
    <2>1. tidy' \in BOOLEAN
      BY <1>4, Zenon DEF CliInstall
    <2> QED
      BY <1>2, <1>4, <2>1 DEF InstallRootsTypeOK, InMove, CliInstall
  <1>5. CASE Place(shape, t)
    <2>1. tidy' \in BOOLEAN
      BY <1>5, Zenon DEF Place
    <2> QED
      BY <1>2, <1>5, <2>1 DEF InstallRootsTypeOK, InMove, Place, Idle
  <1> QED
    BY <1>3, <1>4, <1>5

LEMMA MovingTyped ==
  ASSUME InstallRootsTypeOK,
         \/ \E jb \in {"move", "install"}, r \in InRoots : Confirm(jb, r)
         \/ NoMove \/ MoveRefused \/ Rename \/ CopyBegins
         \/ CopyDone \/ ClearEnds \/ InstallFails \/ CrashRoots
  PROVE  InstallRootsTypeOK'
  <1>1. Picked \in InRoots
    BY PickedFinds DEF InstallRootsTypeOK
  <1>2. CASE \E jb \in {"move", "install"}, r \in InRoots : Confirm(jb, r)
    BY <1>1, <1>2 DEF InstallRootsTypeOK, Confirm, InMove
  <1>3. CASE NoMove
    BY <1>3 DEF InstallRootsTypeOK, NoMove, Begins, InMove, Idle, NoRequest
  <1>4. CASE MoveRefused
    BY <1>4 DEF InstallRootsTypeOK, MoveRefused, ToMove, Begins, InMove, NoRequest
  <1>5. CASE Rename
    <2>1. request.to \in InRoots /\ request' = NoRequest
      BY <1>5 DEF InstallRootsTypeOK, Rename, ToMove, Begins, NoRequest
    <2>2. homes' \in [InRoots -> Folder]
      BY <1>5, <2>1, <1>1, FoldersMade DEF InstallRootsTypeOK, Rename
    <2> QED
      BY <1>5, <2>1, <2>2 DEF InstallRootsTypeOK, Rename, Onward, InMove, Idle, NoRequest
  <1>6. CASE CopyBegins
    BY <1>1, <1>6 DEF InstallRootsTypeOK, CopyBegins, ToMove, Begins, InMove, NoRequest
  <1>7. CASE CopyDone
    BY <1>7 DEF InstallRootsTypeOK, CopyDone, InMove
  <1>8. CASE ClearEnds
    <2>1. tidy' \in BOOLEAN /\ mvFaults' \in 0 .. MaxMoveFaults
      BY <1>8, RootsAssumption DEF ClearEnds, InstallRootsTypeOK
    <2> QED
      BY <1>8, <2>1 DEF InstallRootsTypeOK, ClearEnds, Onward, InMove, Idle
  <1>9. CASE InstallFails
    BY <1>9 DEF InstallRootsTypeOK, InstallFails, InMove, Idle
  <1>10. CASE CrashRoots
    <2>1. tidy' \in BOOLEAN /\ mvFaults' \in 0 .. MaxMoveFaults
      BY <1>10, RootsAssumption DEF CrashRoots, InstallRootsTypeOK
    <2> QED
      BY <1>10, <2>1 DEF InstallRootsTypeOK, CrashRoots, InMove, Idle, NoRequest
  <1> QED
    BY <1>2, <1>3, <1>4, <1>5, <1>6, <1>7, <1>8, <1>9, <1>10

LEMMA PiecesTyped ==
  ASSUME InstallRootsTypeOK,
         \/ \E p \in Pieces : CopyPiece(p) \/ ClearPiece(p)
         \/ \E P \in SUBSET Pieces : CopyFails(P)
  PROVE  InstallRootsTypeOK'
  <1>1. \A p \in Pieces : {p} \in SUBSET Pieces
    OBVIOUS
  <1>2. ASSUME NEW p \in Pieces, CopyPiece(p)
        PROVE  InstallRootsTypeOK'
    <2>1. mv.from \in InRoots /\ mv.to \in InRoots
      BY <1>2 DEF InstallRootsTypeOK, CopyPiece, InMove
    <2>2. Mix(homes[mv.to], homes[mv.from], {p}) \in Folder
      BY <2>1, <1>1, FoldersMade DEF InstallRootsTypeOK
    <2>3. homes' \in [InRoots -> Folder]
      BY <1>2, <2>2 DEF CopyPiece, InstallRootsTypeOK
    <2> QED
      BY <1>2, <2>3 DEF InstallRootsTypeOK, CopyPiece, InMove
  <1>3. ASSUME NEW p \in Pieces, ClearPiece(p)
        PROVE  InstallRootsTypeOK'
    <2>1. mv.from \in InRoots
      BY <1>3 DEF InstallRootsTypeOK, ClearPiece, InMove
    <2>2. Mix(homes[mv.from], Nothing, {p}) \in Folder
      BY <2>1, <1>1, FoldersMade DEF InstallRootsTypeOK
    <2>3. homes' \in [InRoots -> Folder]
      BY <1>3, <2>2 DEF ClearPiece, InstallRootsTypeOK
    <2> QED
      BY <1>3, <2>3 DEF InstallRootsTypeOK, ClearPiece, InMove
  <1>4. ASSUME NEW P \in SUBSET Pieces, CopyFails(P)
        PROVE  InstallRootsTypeOK'
    <2>1. mv.to \in InRoots
      BY <1>4 DEF InstallRootsTypeOK, CopyFails, InMove
    <2>2. Mix(Nothing, homes[mv.to], P) \in Folder
      BY <2>1, FoldersMade DEF InstallRootsTypeOK
    <2>3. homes' \in [InRoots -> Folder]
      BY <1>4, <2>2 DEF CopyFails, InstallRootsTypeOK
    <2>4. tidy' \in BOOLEAN /\ mvFaults' \in 0 .. MaxMoveFaults
      BY <1>4, RootsAssumption DEF CopyFails, InstallRootsTypeOK
    <2>5. mv' = IF mv.again THEN Idle ELSE [mv EXCEPT !.left = Pieces, !.again = TRUE]
      BY <1>4 DEF CopyFails
    <2>6. UNCHANGED <<rootList, rootDefault, request, owed, saved, inCatalog, edits>>
      BY <1>4 DEF CopyFails
    <2> QED
      BY <2>3, <2>4, <2>5, <2>6 DEF InstallRootsTypeOK, InMove, Idle
  <1> QED
    BY <1>2, <1>3, <1>4

LEMMA RootsTypeStep == InstallRootsTypeOK /\ [InstallRootsNext]_irVars => InstallRootsTypeOK'
  <1> SUFFICES ASSUME InstallRootsTypeOK, [InstallRootsNext]_irVars
               PROVE  InstallRootsTypeOK'
    OBVIOUS
  <1>1. CASE UNCHANGED irVars
    BY <1>1 DEF irVars, InstallRootsTypeOK, InMove
  <1> QED
    BY <1>1, SettingsTyped, PlayTyped, RemovalTyped, RootPlacingTyped, MovingTyped, PiecesTyped
    DEF InstallRootsNext

(* The roots, the folders and the move under way keep their types, for any *)
(* roots, releases and saves, and any number of crashes and changes.       *)
THEOREM InstallRootsTyped == InstallRootsSpec => []InstallRootsTypeOK
  BY RootsTypeInit, RootsTypeStep, PTL DEF InstallRootsSpec
-----------------------------------------------------------------------------
(* Where the save is that is owed.  While a folder is copied, a piece with *)
(* it is still to be copied or has been; while the source is removed, it   *)
(* is not there alone.                                                     *)
Listed == Rooted(rootList) \cup {BuiltinApps}
Carried ==
    LET s == homes[mv.from]
        d == homes[mv.to] IN
    \/ s.rel >= owed /\ ("rel" \in mv.left \/ d.rel >= owed)
    \/ s.app >= owed /\ ("app" \in mv.left \/ d.app >= owed)
    \/ s.kept >= owed /\ ("kept" \in mv.left \/ d.kept >= owed)
HasBeside(R) == \E r \in InRoots \ R : Has(homes[r], owed)
SaveSafe ==
    /\ mv.at = "copy" => HasBeside({mv.from, mv.to}) \/ Carried
    /\ mv.at = "clear" => HasBeside({mv.from})
    /\ ~InMove => SafeIn(homes, owed)

(* A folder that no accident has touched: its game reads what is owed, and *)
(* without a game there is only the stash.                                 *)
TidyFolder(d, v) ==
    /\ Has(d, v)
    /\ IF HasGame(d) THEN Reads(d) >= v ELSE d.rel = 0 /\ d.app = 0
    /\ d.game = "appimage" => d.rel = 0
Sole(r) ==
    /\ r \in Listed /\ r \in InRoots /\ TidyFolder(homes[r], owed)
    /\ \A s \in InRoots \ {r} : homes[s] = Nothing
MoveTidy ==
    /\ mv.at \in {"ready", "place"} => Sole(mv.to)
    /\ InMove => /\ mv.to \in Listed /\ \A s \in InRoots \ {mv.from, mv.to} : homes[s] = Nothing
    /\ mv.at = "copy" => /\ mv.from \in Listed /\ TidyFolder(homes[mv.from], owed)
                         /\ homes[mv.to] = Mix(homes[mv.from], Nothing, mv.left)
    /\ mv.at = "clear" => /\ TidyFolder(homes[mv.to], owed)
                          /\ homes[mv.from] = Mix(Nothing, homes[mv.from], mv.left)
TidyInv ==
    tidy => /\ request.job # "none" => request.to \in Listed
            /\ mv.at = "idle" => \E r \in InRoots : Sole(r)
            /\ MoveTidy
RootsInv == InstallRootsTypeOK /\ SaveSafe /\ TidyInv

-----------------------------------------------------------------------------
LEMMA ListedScanned ==
  ASSUME InstallRootsTypeOK
  PROVE  /\ Listed = Rooted(Scanned) /\ Listed \subseteq InRoots
         /\ BuiltinApps \in Listed /\ BuiltinApps \in InRoots
         /\ Preferred \in Listed /\ Picked \in Listed /\ Rooted(Effective) \subseteq Listed
  <1>1. rootList \in Seq(InRoots) /\ homes \in [InRoots -> Folder]
    BY DEF InstallRootsTypeOK
  <1>2. Listed = Rooted(Scanned) /\ Listed \subseteq InRoots /\ Rooted(Effective) \subseteq Listed
    BY <1>1, RootsListed DEF Listed
  <1> QED
    BY <1>1, <1>2, PreferredListed, PickedFinds, RootsAssumption DEF Listed

(* The saves of a folder are numbers.                                      *)
LEMMA SavesAre ==
  ASSUME NEW d \in Folder
  PROVE  d.rel \in Nat /\ d.app \in Nat /\ d.kept \in Nat /\ d.tag \in Nat
  BY RootsAssumption DEF Folder

LEMMA TidyLess ==
  ASSUME NEW d \in Folder, NEW v \in Nat, NEW u \in Nat, u <= v, TidyFolder(d, v)
  PROVE  TidyFolder(d, u)
  BY SavesAre DEF TidyFolder, Has, Reads

LEMMA NothingHas ==
  ASSUME NEW v \in Nat
  PROVE  /\ Has(Nothing, v) <=> v = 0
         /\ TidyFolder(Nothing, v) <=> v = 0
  BY DEF Nothing, Has, TidyFolder, HasGame, Reads

(* Where one folder is, every job finds it; where none is, nothing is owed.*)
LEMMA SoleFound ==
  ASSUME InstallRootsTypeOK, NEW r \in InRoots, Sole(r)
  PROVE  /\ homes[r] # Nothing => Picked = r
         /\ homes[r] = Nothing => owed = 0 /\ \A s \in InRoots : homes[s] = Nothing
         /\ homes[Picked] # Nothing => Picked = r
         /\ homes[Picked] = Nothing => homes[r] = Nothing
  <1>1. r \in Rooted(Scanned) /\ rootList \in Seq(InRoots) /\ homes \in [InRoots -> Folder]
    BY ListedScanned DEF Sole, InstallRootsTypeOK
  <1>2. homes[r] # Nothing => Picked = r
    BY <1>1, PickedAlone DEF Sole
  <1>3. homes[r] = Nothing => owed = 0 /\ \A s \in InRoots : homes[s] = Nothing
    <2>1. owed \in Nat
      BY RootsAssumption DEF InstallRootsTypeOK
    <2> QED
      BY <2>1, NothingHas DEF Sole
  <1>4. Picked \in InRoots
    BY <1>1, PickedFinds
  <1> QED
    BY <1>2, <1>3, <1>4

LEMMA NothingOwed ==
  ASSUME InstallRootsTypeOK, owed = 0, NEW r \in Listed,
         \A s \in InRoots : homes[s] = Nothing
  PROVE  Sole(r)
  <1>1. r \in InRoots
    BY ListedScanned
  <1> QED
    BY <1>1, NothingHas DEF Sole

LEMMA SafeAtNone ==
  ASSUME NEW h \in [InRoots -> Folder]
  PROVE  SafeIn(h, 0)
  <1>1. h[BuiltinApps] \in Folder /\ BuiltinApps \in InRoots
    BY RootsAssumption
  <1> QED
    BY <1>1, SavesAre DEF SafeIn, Has

-----------------------------------------------------------------------------
(* Removals.                                                               *)
LEMMA RemovedIs ==
  ASSUME NEW d \in Folder, NEW keep \in BOOLEAN
  PROVE  /\ Removed(d, keep).kept = IF keep THEN d.rel ELSE 0
         /\ Removed(d, keep).rel = 0 /\ Removed(d, keep).app = 0
         /\ ~HasGame(Removed(d, keep)) /\ Removed(d, keep).game # "appimage"
         /\ Removed(Nothing, keep) = Nothing
  <1>1. Removed(d, keep) = IF keep THEN StashOnly(d.rel) ELSE Nothing
    BY DEF Removed
  <1>2. Removed(Nothing, keep) = IF keep THEN StashOnly(0) ELSE Nothing
    BY DEF Removed, Nothing
  <1> QED
    BY <1>1, <1>2, StashIs DEF HasGame, Nothing

LEMMA RemoveSafe ==
  ASSUME InstallRootsTypeOK, NEW S, NEW keep \in BOOLEAN, RemoveFrom(S, keep),
         tidy => \E r \in InRoots : Sole(r)
  PROVE  SafeIn(homes', owed')
  <1>1. homes' \in [InRoots -> Folder] /\ owed' \in 0 .. MaxSaves
    BY RemoveFromTyped
  <1>2. CASE ~keep
    <2>1. owed' = 0
      BY <1>2 DEF RemoveFrom
    <2> QED
      BY <1>1, <2>1, SafeAtNone
  <1>3. CASE keep
    <2> DEFINE sure == tidy /\ \A r \in S : homes[r].rel # 0
    <2>1. owed' = IF sure \/ SafeIn(homes', owed) THEN owed ELSE 0
      BY <1>3 DEF RemoveFrom, Owed
    <2>2. CASE sure
      <3>1. PICK r \in InRoots : Sole(r)
        BY <2>2
      <3>2. homes[r] \in Folder /\ TidyFolder(homes[r], owed) /\ owed \in Nat
        BY <3>1, RootsAssumption DEF Sole, InstallRootsTypeOK
      <3>3. homes'[r] = IF r \in S THEN Removed(homes[r], TRUE) ELSE homes[r]
        BY <1>3 DEF RemoveFrom
      <3>4. CASE r \in S
        <4>1. homes[r].rel # 0
          BY <2>2, <3>4
        <4>2. homes[r].rel >= owed
          BY <3>2, <4>1 DEF TidyFolder, Reads
        <4>3. homes'[r].kept = homes[r].rel
          BY <3>2, <3>3, <3>4, RemovedIs
        <4>4. Has(homes'[r], owed)
          BY <4>2, <4>3 DEF Has
        <4> QED
          BY <2>1, <2>2, <4>4 DEF SafeIn
      <3>5. CASE r \notin S
        BY <2>1, <2>2, <3>2, <3>3, <3>5 DEF SafeIn, TidyFolder
      <3> QED
        BY <3>4, <3>5
    <2>3. CASE ~sure /\ SafeIn(homes', owed)
      BY <2>1, <2>3
    <2>4. CASE ~sure /\ ~SafeIn(homes', owed)
      BY <2>1, <2>4, <1>1, SafeAtNone
    <2> QED
      BY <2>2, <2>3, <2>4
  <1> QED
    BY <1>2, <1>3

LEMMA RemoveTidy ==
  ASSUME InstallRootsTypeOK, NEW S, NEW keep \in BOOLEAN, RemoveFrom(S, keep),
         SafeIn(homes', owed'), NEW r \in InRoots, Sole(r), rootList' = rootList
  PROVE  Sole(r)'
  <1>1. homes' \in [InRoots -> Folder] /\ owed' \in Nat
    BY RemoveFromTyped, RootsAssumption
  <1>2. \A s \in InRoots : homes'[s] = IF s \in S THEN Removed(homes[s], keep) ELSE homes[s]
    BY DEF RemoveFrom
  <1>3. \A s \in InRoots \ {r} : homes'[s] = Nothing
    BY <1>2, RemovedIs, FoldersMade DEF Sole
  <1>4. Has(homes'[r], owed')
    <2>1. PICK s \in InRoots : Has(homes'[s], owed')
      BY DEF SafeIn
    <2>2. CASE s = r
      BY <2>1, <2>2
    <2>3. CASE s # r
      <3>1. owed' = 0
        BY <1>1, <1>3, <2>1, <2>3, NothingHas
      <3> QED
        BY <3>1, <1>1, SavesAre DEF Has
    <2> QED
      BY <2>2, <2>3
  <1>5. TidyFolder(homes'[r], owed')
    <2>1. CASE r \in S
      <3>1. homes'[r] = Removed(homes[r], keep) /\ homes[r] \in Folder
        BY <1>2, <2>1 DEF InstallRootsTypeOK
      <3> QED
        BY <3>1, <1>4, RemovedIs DEF TidyFolder
    <2>2. CASE r \notin S
      <3>1. homes'[r] = homes[r] /\ homes[r] \in Folder /\ owed \in Nat /\ TidyFolder(homes[r], owed)
        BY <1>2, <2>2, RootsAssumption DEF InstallRootsTypeOK, Sole
      <3>2. owed' <= owed
        BY <3>1, RootsAssumption DEF RemoveFrom, Owed
      <3> QED
        BY <1>1, <3>1, <3>2, TidyLess
    <2> QED
      BY <2>1, <2>2
  <1> QED
    BY <1>3, <1>5 DEF Sole, Listed, Rooted

-----------------------------------------------------------------------------
(* A release placed.                                                       *)
Stashing(d) == Mix(d, StashOnly(Stashed(d)), {"kept"})

LEMMA StashingIs ==
  ASSUME NEW d \in Folder
  PROVE  /\ Stashing(d) \in Folder
         /\ Stashing(d).kept = Stashed(d) /\ Stashing(d).app = d.app
         /\ Stashing(Nothing) = Nothing
  <1>1. Stashed(d) \in 0 .. MaxSaves /\ StashOnly(Stashed(d)) \in Folder /\ {"kept"} \in SUBSET Pieces
    BY FoldersMade DEF Pieces
  <1>2. StashOnly(Stashed(d)).kept = Stashed(d)
    BY StashIs
  <1>3. Stashed(Nothing) = 0
    BY DEF Stashed, Nothing
  <1>4. Stashing(Nothing) = Nothing
    BY <1>3, StashIs DEF Stashing, Mix, Nothing
  <1> QED
    BY <1>1, <1>2, <1>4, FoldersMade, MixSaves DEF Stashing

LEMMA PlacedKeeps ==
  ASSUME NEW d \in Folder, NEW shape \in Shapes, NEW t \in 1 .. MaxTag, NEW v \in Nat
  PROVE  LET e == PlacedIn(Stashing(d), shape, t) IN
         /\ Has(e, v) => TidyFolder(e, v)
         /\ TidyFolder(d, v) /\ (d.game = "appimage" \/ d.app = 0) => Has(e, v)
  <1> DEFINE e == PlacedIn(Stashing(d), shape, t)
             k == Stashed(d)
  <1>1. /\ e.game = shape /\ e.kept = k
        /\ e.rel = IF shape = "appimage" THEN 0 ELSE k
        /\ e.app = IF shape = "appimage" /\ k # 0 THEN k ELSE d.app
    BY StashingIs DEF PlacedIn
  <1>2. HasGame(e)
    BY <1>1, RootsAssumption DEF HasGame
  <1>3. k = IF d.app # 0 THEN d.app
            ELSE IF d.game # "appimage" /\ d.rel # 0 THEN d.rel ELSE d.kept
    BY DEF Stashed
  <1>4. d.rel \in Nat /\ d.app \in Nat /\ d.kept \in Nat
    BY SavesAre
  <1> HIDE DEF e, k
  <1>5. Has(e, v) => TidyFolder(e, v)
    BY <1>1, <1>2, <1>3, <1>4 DEF TidyFolder, Has, Reads
  <1>6. TidyFolder(d, v) /\ (d.game = "appimage" \/ d.app = 0) => Has(e, v)
    BY <1>1, <1>3, <1>4 DEF TidyFolder, Has, Reads, HasGame
  <1> QED
    BY <1>5, <1>6 DEF e

(* What PlaceIn does to the folders, when it is in the one folder or there *)
(* was none.                                                               *)
LEMMA PlaceInIs ==
  ASSUME InstallRootsTypeOK, NEW r \in InRoots, NEW shape \in Shapes, NEW t \in 1 .. MaxTag,
         PlaceIn(r, shape, t), NEW q \in InRoots, Sole(q),
         Picked = r \/ homes[Picked] = Nothing
  PROVE  /\ homes'[r] = PlacedIn(Stashing(homes[r]), shape, t)
         /\ \A s \in InRoots \ {r} : homes'[s] = Nothing
         /\ TidyFolder(homes[r], owed)
         /\ homes[r].game = "appimage" \/ homes[r].app = 0 => owed' = Owed(homes', tidy)
         /\ homes[r] # Nothing => q = r
  <1> DEFINE swept == [homes EXCEPT ![Picked] = Mix(@, StashOnly(Stashed(@)), {"kept"})]
  <1>1. Picked \in InRoots /\ homes \in [InRoots -> Folder] /\ owed \in Nat
    BY ListedScanned, RootsAssumption DEF InstallRootsTypeOK
  <1>2. homes' = [swept EXCEPT ![r] = PlacedIn(@, shape, t)]
    BY DEF PlaceIn
  <1>3. \A s \in InRoots : swept[s] = IF s = Picked THEN Stashing(homes[s]) ELSE homes[s]
    BY <1>1 DEF Stashing
  <1>4. homes'[r] = PlacedIn(swept[r], shape, t) /\ \A s \in InRoots \ {r} : homes'[s] = swept[s]
    BY <1>1, <1>2
  <1>5. homes[r].game = "appimage" \/ homes[r].app = 0 => owed' = Owed(homes', tidy)
    BY DEF PlaceIn, Owed
  <1> HIDE DEF swept
  <1>6. CASE homes[q] # Nothing
    <2>1. Picked = q /\ Picked = r
      BY <1>6, SoleFound
    <2>2. \A s \in InRoots \ {r} : homes[s] = Nothing /\ swept[s] = homes[s]
      BY <1>1, <1>3, <2>1 DEF Sole
    <2> QED
      BY <1>3, <1>4, <1>5, <2>1, <2>2 DEF Sole
  <1>7. CASE homes[q] = Nothing
    <2>1. owed = 0 /\ \A s \in InRoots : homes[s] = Nothing
      BY <1>7, SoleFound
    <2>2. \A s \in InRoots : swept[s] = Nothing /\ Stashing(homes[s]) = Nothing
      BY <1>1, <1>3, <2>1, StashingIs
    <2>3. TidyFolder(homes[r], owed)
      BY <1>1, <2>1, NothingHas
    <2>4. homes[r].app = 0
      BY <2>1 DEF Nothing
    <2> QED
      BY <1>4, <1>5, <2>1, <2>2, <2>3, <2>4
  <1> QED
    BY <1>6, <1>7

LEMMA PlaceSafe ==
  ASSUME InstallRootsTypeOK, NEW r \in InRoots, NEW shape \in Shapes, NEW t \in 1 .. MaxTag,
         PlaceIn(r, shape, t), tidy => \E q \in InRoots : Sole(q)
  PROVE  SafeIn(homes', owed')
  <1> DEFINE sure == /\ tidy /\ (Picked = r \/ homes[Picked] = Nothing)
                     /\ (homes[r].game = "appimage" \/ homes[r].app = 0)
  <1>1. homes' \in [InRoots -> Folder] /\ owed \in Nat
    BY PlaceInTyped, RootsAssumption DEF InstallRootsTypeOK
  <1>2. owed' = IF sure \/ SafeIn(homes', owed) THEN owed ELSE 0
    BY DEF PlaceIn, Owed
  <1>3. CASE sure
    <2>1. PICK q \in InRoots : Sole(q)
      BY <1>3
    <2>2. /\ homes'[r] = PlacedIn(Stashing(homes[r]), shape, t)
          /\ TidyFolder(homes[r], owed)
      BY <1>3, <2>1, PlaceInIs
    <2>3. homes[r] \in Folder
      BY DEF InstallRootsTypeOK
    <2>4. Has(homes'[r], owed)
      BY <1>1, <1>3, <2>2, <2>3, PlacedKeeps
    <2> QED
      BY <1>2, <1>3, <2>4 DEF SafeIn
  <1>4. CASE ~sure /\ SafeIn(homes', owed)
    BY <1>2, <1>4
  <1>5. CASE ~sure /\ ~SafeIn(homes', owed)
    BY <1>1, <1>2, <1>5, SafeAtNone
  <1> QED
    BY <1>3, <1>4, <1>5

LEMMA PlaceTidy ==
  ASSUME InstallRootsTypeOK, NEW r \in InRoots, NEW shape \in Shapes, NEW t \in 1 .. MaxTag,
         PlaceIn(r, shape, t), SafeIn(homes', owed'), NEW q \in InRoots, Sole(q),
         Picked = r \/ homes[Picked] = Nothing, r \in Listed, rootList' = rootList
  PROVE  Sole(r)'
  <1>1. homes' \in [InRoots -> Folder] /\ owed' \in Nat
    BY PlaceInTyped, RootsAssumption
  <1>2. /\ homes'[r] = PlacedIn(Stashing(homes[r]), shape, t)
        /\ \A s \in InRoots \ {r} : homes'[s] = Nothing
    BY PlaceInIs
  <1>3. Has(homes'[r], owed')
    <2>1. PICK s \in InRoots : Has(homes'[s], owed')
      BY DEF SafeIn
    <2>2. CASE s = r
      BY <2>1, <2>2
    <2>3. CASE s # r
      <3>1. owed' = 0
        BY <1>1, <1>2, <2>1, <2>3, NothingHas
      <3> QED
        BY <3>1, <1>1, SavesAre DEF Has
    <2> QED
      BY <2>2, <2>3
  <1>4. homes[r] \in Folder
    BY DEF InstallRootsTypeOK
  <1>5. TidyFolder(homes'[r], owed')
    BY <1>1, <1>2, <1>3, <1>4, PlacedKeeps
  <1> QED
    BY <1>2, <1>5 DEF Sole, Listed, Rooted

-----------------------------------------------------------------------------
(* The invariant is kept: the steps outside a copy.                        *)
LEMMA SoleSame ==
  ASSUME UNCHANGED <<rootList, homes, owed>>, NEW r
  PROVE  Listed' = Listed /\ (Sole(r)' <=> Sole(r))
  BY DEF Sole, Listed, Rooted

LEMMA StillRoots ==
  ASSUME RootsInv, UNCHANGED <<homes, owed, rootList, mv>>, tidy' => tidy,
         request'.job # "none" => request' = request \/ request'.to \in Listed
  PROVE  SaveSafe' /\ TidyInv'
  <1>1. Listed' = Listed /\ \A r : Sole(r)' <=> Sole(r)
    BY SoleSame
  <1>2. SaveSafe'
    BY DEF RootsInv, SaveSafe, InMove, HasBeside, Carried, SafeIn
  <1>3. MoveTidy' <=> MoveTidy
    BY <1>1 DEF MoveTidy, InMove
  <1>4. (\E r \in InRoots : Sole(r))' <=> \E r \in InRoots : Sole(r)
    BY <1>1
  <1>5. TidyInv'
    BY <1>1, <1>3, <1>4 DEF RootsInv, TidyInv
  <1> QED
    BY <1>2, <1>5

LEMMA Settled ==
  ASSUME mv'.at \in {"idle", "ready", "place"}, SafeIn(homes, owed)',
         tidy' => /\ request'.job # "none" => request'.to \in Listed'
                  /\ mv'.at = "idle" => \E r \in InRoots : Sole(r)'
                  /\ mv'.at # "idle" => Sole(mv.to)'
  PROVE  SaveSafe' /\ TidyInv'
  <1>1. SaveSafe'
    BY DEF SaveSafe, InMove
  <1>2. tidy' => MoveTidy'
    BY DEF MoveTidy, InMove
  <1>3. (\E r \in InRoots : Sole(r)') <=> (\E r \in InRoots : Sole(r))'
    OBVIOUS
  <1> QED
    BY <1>1, <1>2, <1>3 DEF TidyInv

LEMMA RootsInvInit == InstallRootsInit => RootsInv
  <1> SUFFICES ASSUME InstallRootsInit PROVE RootsInv
    OBVIOUS
  <1>1. InstallRootsTypeOK
    BY RootsTypeInit
  <1>2. mv.at = "idle" /\ request.job = "none" /\ owed = 0 /\ \A r \in InRoots : homes[r] = Nothing
    BY DEF InstallRootsInit, Idle, NoRequest
  <1>3. Sole(BuiltinApps) /\ BuiltinApps \in InRoots
    BY <1>1, <1>2, ListedScanned, NothingOwed
  <1>4. SafeIn(homes, owed)
    BY <1>1, <1>2, SafeAtNone DEF InstallRootsTypeOK
  <1> QED
    BY <1>1, <1>2, <1>3, <1>4 DEF RootsInv, SaveSafe, TidyInv, MoveTidy, InMove

LEMMA EditSafe ==
  ASSUME RootsInv, NEW list \in RootLists, NEW default \in InRoots \cup {NoRoot},
         EditRoots(list, default)
  PROVE  SaveSafe' /\ TidyInv'
  <1> DEFINE off == InRoots \ (Rooted(list) \cup {BuiltinApps})
  <1>1. InstallRootsTypeOK
    BY DEF RootsInv
  <1>2. UNCHANGED <<homes, request, mv, owed>>
    BY DEF EditRoots
  <1>3. SaveSafe'
    BY <1>2 DEF RootsInv, SaveSafe, InMove, HasBeside, Carried, SafeIn
  <1>4. Listed' = Rooted(list) \cup {BuiltinApps}
    <2>1. rootList' = IF list = <<BuiltinApps>> THEN <<>> ELSE list
      BY DEF EditRoots
    <2>2. Rooted(<<>>) = {} /\ Rooted(<<BuiltinApps>>) = {BuiltinApps}
      BY DEF Rooted
    <2>3. Listed' = Rooted(rootList') \cup {BuiltinApps}
      BY DEF Listed, Rooted
    <2> QED
      BY <2>1, <2>2, <2>3
  <1>5. ASSUME tidy'
        PROVE  (/\ request.job # "none" => request.to \in Listed
                /\ mv.at = "idle" => \E r \in InRoots : Sole(r)
                /\ MoveTidy)'
    <2>1. /\ request.job # "none" => request.to \in Listed
          /\ mv.at = "idle" => \E r \in InRoots : Sole(r)
          /\ MoveTidy
      BY <1>5 DEF RootsInv, TidyInv, EditRoots
    <2>2. \A r \in off : homes[r] = Nothing /\ request.to # r /\ mv.to # r /\ mv.from # r
      BY <1>5 DEF EditRoots
    <2>3. /\ request.job # "none" => request.to \in InRoots
          /\ mv.at # "idle" => mv.to \in InRoots
          /\ InMove => mv.from \in InRoots
      BY <1>1 DEF InstallRootsTypeOK, NoRequest
    <2>4. (request.job # "none" => request.to \in Listed)'
      BY <1>2, <1>4, <2>2, <2>3
    <2>5. \A r \in InRoots : Sole(r) /\ r \notin off => Sole(r)'
      BY <1>2, <1>4 DEF Sole
    <2>6. ASSUME mv'.at = "idle"
          PROVE  \E r \in InRoots : Sole(r)'
      <3>1. PICK r \in InRoots : Sole(r)
        BY <1>2, <2>1, <2>6
      <3>2. CASE r \notin off
        BY <2>5, <3>1, <3>2
      <3>3. CASE r \in off
        <4>1. owed = 0 /\ \A s \in InRoots : homes[s] = Nothing
          BY <1>1, <2>2, <3>1, <3>3, SoleFound
        <4>2. BuiltinApps \in Listed /\ BuiltinApps \in InRoots /\ BuiltinApps \notin off
          BY <1>1, ListedScanned
        <4>3. Sole(BuiltinApps)
          BY <1>1, <4>1, <4>2, NothingOwed
        <4> QED
          BY <2>5, <4>2, <4>3
      <3> QED
        BY <3>2, <3>3
    <2>7. MoveTidy'
      <3>1. mv.at \in {"ready", "place"} => mv.to \notin off /\ mv.to \in InRoots
        BY <2>2, <2>3
      <3>2. mv.at \in {"ready", "place"} => \E q \in InRoots : q = mv.to /\ Sole(q)'
        BY <2>1, <2>5, <3>1 DEF MoveTidy
      <3>3. InMove => mv.to \in Listed' /\ mv.from \in Listed'
        BY <1>4, <2>2, <2>3 DEF InMove
      <3>4. mv'.at \in {"ready", "place"} => Sole(mv.to)'
        BY <1>2, <3>2 DEF Sole
      <3>5. (InMove => /\ mv.to \in Listed /\ \A s \in InRoots \ {mv.from, mv.to} : homes[s] = Nothing)'
        BY <1>2, <2>1, <3>3 DEF MoveTidy, InMove
      <3>6. (mv.at = "copy" => /\ mv.from \in Listed /\ TidyFolder(homes[mv.from], owed)
                              /\ homes[mv.to] = Mix(homes[mv.from], Nothing, mv.left))'
        BY <1>2, <2>1, <3>3 DEF MoveTidy, InMove
      <3>7. (mv.at = "clear" => /\ TidyFolder(homes[mv.to], owed)
                               /\ homes[mv.from] = Mix(Nothing, homes[mv.from], mv.left))'
        BY <1>2, <2>1 DEF MoveTidy
      <3> QED
        BY <3>4, <3>5, <3>6, <3>7 DEF MoveTidy
    <2> QED
      BY <2>4, <2>6, <2>7
  <1> QED
    BY <1>3, <1>5 DEF TidyInv

LEMMA PlaySafe == RootsInv /\ PlayThere => SaveSafe' /\ TidyInv'
  <1> SUFFICES ASSUME RootsInv, PlayThere PROVE SaveSafe' /\ TidyInv'
    OBVIOUS
  <1> DEFINE r == Picked
             d == homes[r]
             new == [Nothing EXCEPT !.rel = saved + 1, !.app = saved + 1]
             e == Mix(d, new, IF d.game = "appimage" THEN {"app"} ELSE {"rel"})
  <1>1. InstallRootsTypeOK
    BY DEF RootsInv
  <1>2. /\ r \in InRoots /\ homes \in [InRoots -> Folder] /\ d \in Folder
        /\ saved \in Nat /\ owed \in Nat /\ owed <= saved
    BY <1>1, ListedScanned, RootsAssumption DEF InstallRootsTypeOK
  <1>3. /\ homes' = [homes EXCEPT ![r] = e] /\ HasGame(d)
        /\ UNCHANGED <<rootList, request, mv>>
        /\ owed' = (IF InMove THEN owed ELSE saved + 1) /\ (tidy' => tidy /\ ~InMove)
    BY DEF PlayThere
  <1>4. new.rel = saved + 1 /\ new.app = saved + 1
    BY DEF Nothing
  <1>5. /\ e.game = d.game /\ e.kept = d.kept
        /\ e.rel = IF d.game = "appimage" THEN d.rel ELSE saved + 1
        /\ e.app = IF d.game = "appimage" THEN saved + 1 ELSE d.app
    BY <1>4 DEF Mix
  <1>6. d.rel \in Nat /\ d.app \in Nat /\ d.kept \in Nat
    BY <1>2, SavesAre
  <1> HIDE DEF e, new, d, r
  <1>7. Has(e, saved + 1)
    BY <1>2, <1>5, <1>6 DEF Has
  <1>8. CASE InMove
    <2>1. owed' = owed /\ ~tidy' /\ mv' = mv
      BY <1>3, <1>8
    <2>2. \A s \in InRoots : /\ homes[s].rel >= owed => homes'[s].rel >= owed
                             /\ homes[s].app >= owed => homes'[s].app >= owed
                             /\ homes[s].kept >= owed => homes'[s].kept >= owed
      BY <1>2, <1>3, <1>5, <1>6 DEF d
    <2>3. mv.from \in InRoots /\ mv.to \in InRoots
      BY <1>1, <1>8 DEF InstallRootsTypeOK, InMove
    <2>4. Carried => Carried'
      BY <2>1, <2>2, <2>3 DEF Carried
    <2>6. HasBeside({mv.from, mv.to}) => HasBeside({mv.from, mv.to})'
      BY <2>1, <2>2 DEF HasBeside, Has
    <2>7. HasBeside({mv.from}) => HasBeside({mv.from})'
      BY <2>1, <2>2 DEF HasBeside, Has
    <2>8. SaveSafe'
      BY <1>8, <2>1, <2>4, <2>6, <2>7 DEF RootsInv, SaveSafe, InMove
    <2> QED
      BY <2>1, <2>8 DEF TidyInv
  <1>9. CASE ~InMove
    <2>1. owed' = saved + 1 /\ mv' = mv /\ mv'.at \in {"idle", "ready", "place"}
      BY <1>1, <1>3, <1>9 DEF InMove, InstallRootsTypeOK
    <2>2. homes'[r] = e /\ \A s \in InRoots \ {r} : homes'[s] = homes[s]
      BY <1>2, <1>3
    <2>3. SafeIn(homes, owed)'
      BY <1>2, <1>7, <2>1, <2>2 DEF SafeIn
    <2>4. Listed' = Listed
      BY <1>3 DEF Listed, Rooted
    <2>5. ASSUME NEW q \in InRoots, Sole(q)
          PROVE  Sole(q)'
      <3>1. d # Nothing
        BY <1>3 DEF Nothing, HasGame
      <3>2. q = r
        BY <1>1, <2>5, <3>1, SoleFound DEF d, r
      <3>3. TidyFolder(d, owed)
        BY <2>5, <3>2 DEF Sole, d
      <3>4. TidyFolder(e, saved + 1)
        BY <1>2, <1>3, <1>5, <1>6, <1>7, <3>3 DEF TidyFolder, HasGame, Reads
      <3> QED
        BY <2>1, <2>2, <2>4, <2>5, <3>2, <3>4 DEF Sole
    <2>6. tidy' => /\ request'.job # "none" => request'.to \in Listed'
                   /\ mv'.at = "idle" => \E q \in InRoots : Sole(q)'
                   /\ mv'.at # "idle" => Sole(mv.to)'
      <3> SUFFICES ASSUME tidy'
                   PROVE  /\ request'.job # "none" => request'.to \in Listed'
                          /\ mv'.at = "idle" => \E q \in InRoots : Sole(q)'
                          /\ mv'.at # "idle" => Sole(mv.to)'
        OBVIOUS
      <3>1. /\ request.job # "none" => request.to \in Listed
            /\ mv.at = "idle" => \E q \in InRoots : Sole(q)
            /\ mv.at \in {"ready", "place"} => Sole(mv.to)
        BY <1>3 DEF RootsInv, TidyInv, MoveTidy
      <3>2. mv.at # "idle" => mv.to \in InRoots
        BY <1>1 DEF InstallRootsTypeOK
      <3>3. mv.at # "idle" => Sole(mv.to)'
        <4>1. ASSUME mv.at # "idle" PROVE (\E q \in InRoots : q = mv'.to /\ Sole(q)')
          BY <2>1, <2>5, <3>1, <3>2, <4>1
        <4> QED
          BY <4>1 DEF Sole
      <3> QED
        BY <1>3, <2>1, <2>4, <2>5, <3>1, <3>3
    <2> QED
      BY <2>1, <2>3, <2>6, Settled
  <1> QED
    BY <1>8, <1>9

(* Removals and releases placed, by a job of their own or of the hub.      *)
LEMMA RemovalSafe ==
  ASSUME RootsInv,
         (\E keep \in BOOLEAN : Uninstall(keep) \/ CleanOrphans(keep)) \/ DeleteAll \/ ClearGame
  PROVE  SaveSafe' /\ TidyInv'
  <1>1. InstallRootsTypeOK
    BY DEF RootsInv
  <1>2. Listed' = Listed /\ rootList' = rootList /\ tidy' = tidy /\ request' = request
    <2>1. UNCHANGED <<rootList, tidy, request>>
      BY Zenon DEF Uninstall, CleanOrphans, DeleteAll, ClearGame
    <2> QED
      BY <2>1 DEF Listed, Rooted
  <1>3. /\ mv.at \in {"idle", "ready"}
        /\ mv.at = "idle" => mv' = mv
        /\ mv.at = "ready" => mv' = [mv EXCEPT !.at = "place"]
    BY DEF Uninstall, CleanOrphans, DeleteAll, ClearGame
  <1>4. /\ mv'.at \in {"idle", "place"} /\ mv'.to = mv.to
        /\ mv.at = "idle" <=> mv'.at = "idle"
    BY <1>1, <1>3 DEF InstallRootsTypeOK
  <1>5. SafeIn(homes, owed) /\ (tidy => /\ request.job # "none" => request.to \in Listed
                                        /\ mv.at = "idle" => \E q \in InRoots : Sole(q)
                                        /\ mv.at = "ready" => Sole(mv.to))
    BY <1>3 DEF RootsInv, SaveSafe, TidyInv, MoveTidy, InMove
  <1>6. (mv.at = "ready" => mv.to \in InRoots) /\ (tidy => \E q \in InRoots : Sole(q))
    BY <1>1, <1>3, <1>5 DEF InstallRootsTypeOK
  <1>7. (\E S : \E keep \in BOOLEAN : RemoveFrom(S, keep)) \/ UNCHANGED <<homes, owed>>
    BY DEF Uninstall, CleanOrphans, DeleteAll, ClearGame
  <1>8. SafeIn(homes, owed)' /\ \A q \in InRoots : Sole(q) => Sole(q)'
    <2>1. ASSUME NEW S, NEW keep \in BOOLEAN, RemoveFrom(S, keep)
          PROVE  SafeIn(homes, owed)' /\ \A q \in InRoots : Sole(q) => Sole(q)'
      <3>1. SafeIn(homes', owed')
        BY <1>1, <1>6, <2>1, RemoveSafe
      <3>2. \A q \in InRoots : Sole(q) => Sole(q)'
        BY <1>1, <1>2, <2>1, <3>1, RemoveTidy
      <3> QED
        BY <3>1, <3>2 DEF SafeIn
    <2>2. CASE UNCHANGED <<homes, owed>>
      BY <1>2, <1>5, <2>2, SoleSame DEF SafeIn
    <2> QED
      BY <1>7, <2>1, <2>2
  <1>9. mv.at = "ready" /\ tidy => \E q \in InRoots : q = mv.to /\ Sole(q)'
    BY <1>5, <1>6, <1>8
  <1>10. mv.at = "ready" /\ tidy => Sole(mv.to)'
    BY <1>4, <1>9 DEF Sole
  <1>11. tidy' => /\ request'.job # "none" => request'.to \in Listed'
                  /\ mv'.at = "idle" => \E q \in InRoots : Sole(q)'
                  /\ mv'.at # "idle" => Sole(mv.to)'
    BY <1>2, <1>3, <1>4, <1>5, <1>8, <1>10
  <1> QED
    BY <1>4, <1>8, <1>11, Settled

LEMMA RootPlacingSafe ==
  ASSUME RootsInv, NEW shape \in Shapes, NEW t \in 1 .. MaxTag,
         Update(shape, t) \/ CliInstall(shape, t) \/ Place(shape, t)
  PROVE  SaveSafe' /\ TidyInv'
  <1>1. InstallRootsTypeOK
    BY DEF RootsInv
  <1>2. \E q \in InRoots :
           /\ PlaceIn(q, shape, t)
           /\ tidy' => tidy /\ (Picked = q \/ homes[Picked] = Nothing)
           /\ mv.at = "idle" => q \in Listed
           /\ mv.at = "place" => q = mv.to
    <2>1. Picked \in InRoots /\ Preferred \in InRoots /\ Picked \in Listed /\ Preferred \in Listed
      BY <1>1, ListedScanned
    <2>2. CASE Update(shape, t)
      BY <2>1, <2>2 DEF Update
    <2>3. CASE CliInstall(shape, t)
      BY <2>1, <2>3 DEF CliInstall
    <2>4. CASE Place(shape, t)
      <3>1. mv.to \in InRoots
        BY <1>1, <2>4 DEF InstallRootsTypeOK, Place
      <3> QED
        BY <2>4, <3>1 DEF Place
    <2> QED
      BY <2>2, <2>3, <2>4
  <1>3. PICK q \in InRoots :
           /\ PlaceIn(q, shape, t)
           /\ tidy' => tidy /\ (Picked = q \/ homes[Picked] = Nothing)
           /\ mv.at = "idle" => q \in Listed
           /\ mv.at = "place" => q = mv.to
    BY <1>2
  <1>4. /\ Listed' = Listed /\ rootList' = rootList /\ request' = request
        /\ mv.at \in {"idle", "place"} /\ mv'.at = "idle"
    BY DEF Update, CliInstall, Place, Listed, Rooted, Idle
  <1>5. tidy => /\ request.job # "none" => request.to \in Listed
                /\ mv.at = "idle" => \E s \in InRoots : Sole(s)
                /\ mv.at = "place" => Sole(mv.to)
    BY DEF RootsInv, TidyInv, MoveTidy
  <1>6. (mv.at = "place" => mv.to \in InRoots) /\ (tidy => \E s \in InRoots : Sole(s))
    BY <1>1, <1>4, <1>5 DEF InstallRootsTypeOK
  <1>7. SafeIn(homes', owed')
    BY <1>1, <1>3, <1>6, PlaceSafe
  <1>8. tidy' => Sole(q)'
    <2> SUFFICES ASSUME tidy' PROVE Sole(q)'
      OBVIOUS
    <2>1. PICK s \in InRoots : Sole(s)
      BY <1>3, <1>6
    <2>2. q \in Listed
      BY <1>3, <1>4, <1>5 DEF Sole
    <2> QED
      BY <1>1, <1>3, <1>4, <1>7, <2>1, <2>2, PlaceTidy
  <1>9. SafeIn(homes, owed)'
    BY <1>7 DEF SafeIn
  <1>10. tidy' => /\ request'.job # "none" => request'.to \in Listed'
                  /\ mv'.at = "idle" => \E s \in InRoots : Sole(s)'
                  /\ mv'.at # "idle" => Sole(mv.to)'
    BY <1>3, <1>4, <1>5, <1>8
  <1> QED
    BY <1>4, <1>9, <1>10, Settled

(* The job of the hub, up to the copy and after it.                        *)
LEMMA JobSafe ==
  ASSUME RootsInv, NoMove \/ InstallFails \/ CrashRoots
  PROVE  SaveSafe' /\ TidyInv'
  <1>1. InstallRootsTypeOK
    BY DEF RootsInv
  <1>2. /\ UNCHANGED <<rootList, homes, owed>> /\ (tidy' => tidy /\ (CrashRoots => ~InMove))
        /\ request'.job # "none" => request' = request
    <2>1. UNCHANGED <<rootList, homes, owed>> /\ (request' = NoRequest \/ request' = request)
      BY Zenon DEF NoMove, Begins, InstallFails, CrashRoots
    <2>2. CrashRoots => (tidy' => tidy /\ ~InMove)
      BY DEF CrashRoots
    <2>3. NoMove \/ InstallFails => (tidy' => tidy)
      BY DEF NoMove, InstallFails
    <2> QED
      BY <2>1, <2>2, <2>3 DEF NoRequest
  <1>3. Listed' = Listed /\ \A r : Sole(r)' <=> Sole(r)
    BY <1>2, SoleSame
  <1>4. SafeIn(homes, owed)
    <2>1. CASE ~InMove
      BY <2>1 DEF RootsInv, SaveSafe
    <2>2. CASE InMove
      <3>1. mv.from \in InRoots
        BY <1>1, <2>2 DEF InstallRootsTypeOK
      <3> QED
        BY <2>2, <3>1 DEF RootsInv, SaveSafe, SafeIn, Has, HasBeside, Carried, InMove
    <2> QED
      BY <2>1, <2>2
  <1>5. SafeIn(homes, owed)'
    BY <1>2, <1>4 DEF SafeIn
  <1>6. CASE mv' = Idle
    <2>1. mv'.at = "idle"
      BY <1>6 DEF Idle
    <2>2. tidy' => \E r \in InRoots : Sole(r)
      <3>1. mv.at \in {"idle", "ready", "place"} \/ InMove
        BY <1>1 DEF InstallRootsTypeOK, InMove
      <3>2. mv.at # "idle" => mv.to \in InRoots
        BY <1>1 DEF InstallRootsTypeOK
      <3>3. tidy' => tidy /\ ~InMove
        BY <1>2 DEF NoMove, Begins, InstallFails, InMove
      <3> QED
        BY <3>1, <3>2, <3>3 DEF RootsInv, TidyInv, MoveTidy
    <2>3. tidy' => /\ request'.job # "none" => request'.to \in Listed'
                   /\ mv'.at = "idle" => \E r \in InRoots : Sole(r)'
                   /\ mv'.at # "idle" => Sole(mv.to)'
      BY <1>2, <1>3, <2>1, <2>2 DEF RootsInv, TidyInv
    <2> QED
      BY <1>5, <2>1, <2>3, Settled
  <1>7. CASE mv' # Idle
    <2>1. /\ mv.at = "idle" /\ mv'.at = "ready" /\ mv'.to = request.to /\ request.job = "install"
          /\ homes[Picked] = Nothing \/ Picked = request.to
      BY <1>7 DEF NoMove, Begins, InstallFails, CrashRoots, Idle
    <2>2. tidy' => /\ request.to \in Listed /\ \E r \in InRoots : Sole(r)
      BY <1>2, <2>1 DEF RootsInv, TidyInv
    <2>3. tidy' => Sole(request.to)
      <3> SUFFICES ASSUME tidy' PROVE Sole(request.to)
        OBVIOUS
      <3>1. PICK r \in InRoots : Sole(r)
        BY <2>2
      <3>2. CASE homes[Picked] = Nothing
        <4>1. owed = 0 /\ \A s \in InRoots : homes[s] = Nothing
          BY <1>1, <3>1, <3>2, SoleFound
        <4> QED
          BY <1>1, <2>2, <4>1, NothingOwed
      <3>3. CASE homes[Picked] # Nothing
        BY <1>1, <2>1, <3>1, <3>3, SoleFound
      <3> QED
        BY <3>2, <3>3
    <2>4. tidy' => Sole(mv.to)'
      BY <1>2, <2>1, <2>3 DEF Sole, Listed, Rooted
    <2>5. tidy' => /\ request'.job # "none" => request'.to \in Listed'
                   /\ mv'.at = "idle" => \E r \in InRoots : Sole(r)'
                   /\ mv'.at # "idle" => Sole(mv.to)'
      BY <1>2, <1>3, <2>1, <2>2, <2>4 DEF RootsInv, TidyInv
    <2> QED
      BY <1>5, <2>1, <2>5, Settled
  <1> QED
    BY <1>6, <1>7

LEMMA RenameSafe == RootsInv /\ Rename => SaveSafe' /\ TidyInv'
  <1> SUFFICES ASSUME RootsInv, Rename PROVE SaveSafe' /\ TidyInv'
    OBVIOUS
  <1>0. PICK p, q : p = Picked /\ q = request.to
    OBVIOUS
  <1>1. InstallRootsTypeOK
    BY DEF RootsInv
  <1>2. /\ p \in InRoots /\ q \in InRoots /\ p # q /\ homes \in [InRoots -> Folder]
        /\ homes[p] # Nothing /\ homes[q] = Nothing /\ owed \in Nat
        /\ mv.at = "idle" /\ request.job # "none"
    <2>1. request \in [job : {"move", "install"}, to : InRoots]
      BY <1>1 DEF Rename, ToMove, Begins, InstallRootsTypeOK
    <2>2. mv.at = "idle" /\ homes[p] # Nothing /\ homes[q] = Nothing /\ p # q
      BY <1>0 DEF Rename, ToMove, Begins
    <2> QED
      BY <1>0, <1>1, <2>1, <2>2, ListedScanned, RootsAssumption DEF InstallRootsTypeOK
  <1>3. /\ UNCHANGED <<rootList, owed, tidy>> /\ request' = NoRequest
        /\ homes' = [homes EXCEPT ![q] = homes[p], ![p] = Nothing]
        /\ mv' = Onward([to |-> q, install |-> request.job = "install"])
    BY <1>0 DEF Rename, ToMove, Begins
  <1>4. mv'.at \in {"idle", "ready"} /\ (mv'.at = "ready" => mv'.to = q)
    BY <1>3 DEF Onward, Idle
  <1>5. /\ homes'[q] = homes[p] /\ homes'[p] = Nothing
        /\ \A s \in InRoots \ {p, q} : homes'[s] = homes[s]
    BY <1>2, <1>3
  <1>6. SafeIn(homes, owed)'
    <2>1. PICK s \in InRoots : Has(homes[s], owed)
      BY <1>2 DEF RootsInv, SaveSafe, InMove, SafeIn
    <2>2. CASE s = p
      BY <1>2, <1>3, <1>5, <2>1, <2>2 DEF SafeIn
    <2>3. CASE s = q
      <3>1. owed = 0
        BY <1>2, <2>1, <2>3, NothingHas
      <3>2. Has(homes'[p], owed')
        BY <1>2, <1>3, <1>5, <3>1, NothingHas
      <3> QED
        BY <1>2, <3>2 DEF SafeIn
    <2>4. CASE s \notin {p, q}
      BY <1>2, <1>3, <1>5, <2>1, <2>4 DEF SafeIn
    <2> QED
      BY <2>2, <2>3, <2>4
  <1>7. tidy' => Sole(q)'
    <2> SUFFICES ASSUME tidy' PROVE Sole(q)'
      OBVIOUS
    <2>1. q \in Listed /\ \E s \in InRoots : Sole(s)
      BY <1>0, <1>2, <1>3 DEF RootsInv, TidyInv
    <2>2. Sole(p)
      BY <1>0, <1>1, <1>2, <2>1, SoleFound
    <2>3. Listed' = Listed
      BY <1>3 DEF Listed, Rooted
    <2> QED
      BY <1>2, <1>3, <1>5, <2>1, <2>2, <2>3 DEF Sole
  <1>8. tidy' => /\ request'.job # "none" => request'.to \in Listed'
                 /\ mv'.at = "idle" => \E r \in InRoots : Sole(r)'
                 /\ mv'.at # "idle" => Sole(mv.to)'
    <2>1. mv'.at # "idle" /\ tidy' => Sole(mv.to)'
      BY <1>4, <1>7 DEF Sole
    <2> QED
      BY <1>2, <1>3, <1>7, <2>1 DEF NoRequest
  <1> QED
    BY <1>4, <1>6, <1>8, Settled

(* The copy, and the removal of its source.                                *)
LEMMA CopyBeginsSafe == RootsInv /\ CopyBegins => SaveSafe' /\ TidyInv'
  <1> SUFFICES ASSUME RootsInv, CopyBegins PROVE SaveSafe' /\ TidyInv'
    OBVIOUS
  <1>0. PICK p, q : p = Picked /\ q = request.to
    OBVIOUS
  <1>1. InstallRootsTypeOK
    BY DEF RootsInv
  <1>2. /\ p \in InRoots /\ homes \in [InRoots -> Folder]
        /\ homes[p] # Nothing /\ homes[q] = Nothing /\ owed \in Nat /\ p # q
        /\ mv.at = "idle" /\ UNCHANGED <<rootList, homes, owed, tidy>> /\ request' = NoRequest
    BY <1>0, <1>1, ListedScanned, RootsAssumption DEF CopyBegins, ToMove, Begins, InstallRootsTypeOK
  <1>3. request \in [job : {"move", "install"}, to : InRoots]
    BY <1>1 DEF CopyBegins, ToMove, Begins, InstallRootsTypeOK
  <1>4. mv'.at = "copy" /\ mv'.from = p /\ mv'.to = q /\ mv'.left = Pieces
    BY <1>0 DEF CopyBegins
  <1>5. q \in InRoots
    BY <1>0, <1>3
  <1>6. SaveSafe'
    <2>1. PICK s \in InRoots : Has(homes[s], owed)
      BY <1>2 DEF RootsInv, SaveSafe, InMove, SafeIn
    <2>2. CASE s \notin {p, q}
      BY <1>2, <1>4, <2>1, <2>2 DEF SaveSafe, HasBeside, InMove
    <2>3. CASE s \in {p, q}
      <3>1. Has(homes[p], owed)
        <4>1. CASE s = q
          BY <1>2, <2>1, <4>1, NothingHas, SavesAre DEF Has
        <4> QED
          BY <2>1, <2>3, <4>1
      <3>2. Carried'
        BY <1>2, <1>4, <3>1 DEF Carried, Has, Pieces
      <3> QED
        BY <1>4, <3>2 DEF SaveSafe, InMove
    <2> QED
      BY <2>2, <2>3
  <1>7. TidyInv'
    <2>1. ASSUME tidy
          PROVE  MoveTidy'
      <3>1. q \in Listed /\ \E s \in InRoots : Sole(s)
        BY <1>0, <1>2, <1>3, <2>1 DEF RootsInv, TidyInv
      <3>2. Sole(p)
        BY <1>0, <1>1, <1>2, <3>1, SoleFound
      <3>3. Listed' = Listed
        BY <1>2 DEF Listed, Rooted
      <3>4. homes[q] = Mix(homes[p], Nothing, Pieces)
        BY <1>2, MixNone, FoldersMade
      <3> QED
        BY <1>2, <1>4, <3>1, <3>2, <3>3, <3>4 DEF MoveTidy, Sole, InMove
    <2> QED
      BY <1>2, <1>4, <2>1 DEF TidyInv, NoRequest
  <1> QED
    BY <1>6, <1>7

LEMMA CopyPieceSafe ==
  ASSUME RootsInv, NEW p \in Pieces, CopyPiece(p)
  PROVE  SaveSafe' /\ TidyInv'
  <1> DEFINE s == homes[mv.from]
             d == homes[mv.to]
             e == IF HasPiece(s, p) THEN Mix(d, s, {p}) ELSE d
  <1>1. InstallRootsTypeOK
    BY DEF RootsInv
  <1>2. /\ mv.at = "copy" /\ p \in mv.left /\ ~(HasPiece(d, p) /\ HasPiece(s, p))
        /\ mv' = [mv EXCEPT !.left = @ \ {p}]
        /\ UNCHANGED <<rootList, request, owed, tidy>>
    BY DEF CopyPiece
  <1>3. /\ mv.from \in InRoots /\ mv.to \in InRoots /\ mv.from # mv.to
        /\ homes \in [InRoots -> Folder] /\ s \in Folder /\ d \in Folder
        /\ owed \in Nat /\ mv.left \in SUBSET Pieces
    BY <1>1, <1>2, RootsAssumption DEF InstallRootsTypeOK, InMove
  <1>4. homes' = [homes EXCEPT ![mv.to] = e]
    BY DEF CopyPiece
  <1>5. mv'.at = "copy" /\ mv'.from = mv.from /\ mv'.to = mv.to /\ mv'.left = mv.left \ {p}
    BY <1>1, <1>2 DEF InstallRootsTypeOK
  <1>6. s.rel \in Nat /\ s.app \in Nat /\ s.kept \in Nat /\ d.rel \in Nat /\ d.app \in Nat /\ d.kept \in Nat
    BY <1>3, SavesAre
  <1>7. /\ e.rel = IF p = "rel" /\ s.rel # 0 THEN s.rel ELSE d.rel
        /\ e.app = IF p = "app" /\ s.app # 0 THEN s.app ELSE d.app
        /\ e.kept = IF p = "kept" /\ s.kept # 0 THEN s.kept ELSE d.kept
    <2>1. {p} \in SUBSET Pieces
      OBVIOUS
    <2> QED
      BY <1>3, <2>1, MixSaves, PieceSaves
  <1>8. homes'[mv.from] = s /\ homes'[mv.to] = e
        /\ \A r \in InRoots \ {mv.to} : homes'[r] = homes[r]
    BY <1>3, <1>4
  <1>9. SaveSafe'
    <2>1. HasBeside({mv.from, mv.to}) \/ Carried
      BY <1>2 DEF RootsInv, SaveSafe
    <2>2. CASE HasBeside({mv.from, mv.to})
      BY <1>2, <1>5, <1>8, <2>2 DEF SaveSafe, HasBeside, InMove
    <2>3. CASE Carried
      <3>1. \/ s.rel >= owed /\ ("rel" \in mv.left \/ d.rel >= owed)
            \/ s.app >= owed /\ ("app" \in mv.left \/ d.app >= owed)
            \/ s.kept >= owed /\ ("kept" \in mv.left \/ d.kept >= owed)
        BY <2>3 DEF Carried
      <3> HIDE DEF s, d, e
      <3>2. \/ s.rel >= owed /\ ("rel" \in mv.left \ {p} \/ e.rel >= owed)
            \/ s.app >= owed /\ ("app" \in mv.left \ {p} \/ e.app >= owed)
            \/ s.kept >= owed /\ ("kept" \in mv.left \ {p} \/ e.kept >= owed)
        BY <1>3, <1>6, <1>7, <3>1
      <3>3. Carried'
        BY <1>2, <1>5, <1>8, <3>2 DEF Carried
      <3> QED
        BY <1>5, <3>3 DEF SaveSafe, InMove
    <2> QED
      BY <2>1, <2>2, <2>3
  <1>10. TidyInv'
    <2>1. Listed' = Listed
      BY <1>2 DEF Listed, Rooted
    <2>2. ASSUME tidy
          PROVE  MoveTidy'
      <3>1. /\ mv.to \in Listed /\ \A r \in InRoots \ {mv.from, mv.to} : homes[r] = Nothing
            /\ mv.from \in Listed /\ TidyFolder(s, owed) /\ d = Mix(s, Nothing, mv.left)
        BY <1>2, <2>2 DEF RootsInv, TidyInv, MoveTidy, InMove
      <3>2. e = Mix(s, Nothing, mv.left \ {p})
        <4> HIDE DEF s, d
        <4> QED
          BY <1>2, <1>3, <3>1, MixOn DEF e
      <3> HIDE DEF s, d, e
      <3> QED
        BY <1>2, <1>5, <1>8, <2>1, <3>1, <3>2 DEF MoveTidy, InMove
    <2> QED
      BY <1>2, <1>5, <2>1, <2>2 DEF TidyInv, RootsInv
  <1> QED
    BY <1>9, <1>10
LEMMA CopyFailsSafe ==
  ASSUME RootsInv, NEW P \in SUBSET Pieces, CopyFails(P)
  PROVE  SaveSafe' /\ TidyInv'
  <1> DEFINE e == Mix(Nothing, homes[mv.to], P)
  <1>1. InstallRootsTypeOK
    BY DEF RootsInv
  <1>2. /\ mv.at = "copy" /\ UNCHANGED <<rootList, request, owed>>
        /\ homes' = [homes EXCEPT ![mv.to] = e]
        /\ mv' = IF mv.again THEN Idle ELSE [mv EXCEPT !.left = Pieces, !.again = TRUE]
        /\ tidy' = (tidy /\ homes'[mv.to] = Nothing)
    BY DEF CopyFails
  <1>3. PICK p, q : p = mv.from /\ q = mv.to
    OBVIOUS
  <1>4. /\ p \in InRoots /\ q \in InRoots /\ p # q
        /\ homes \in [InRoots -> Folder] /\ homes[p] \in Folder /\ owed \in Nat
    BY <1>1, <1>2, <1>3, RootsAssumption DEF InstallRootsTypeOK, InMove
  <1>5. homes'[p] = homes[p] /\ \A r \in InRoots \ {q} : homes'[r] = homes[r]
    BY <1>2, <1>3, <1>4
  <1>6. HasBeside({p, q}) \/ Has(homes[p], owed)
    BY <1>2, <1>3 DEF RootsInv, SaveSafe, Carried, Has
  <1>7. ASSUME tidy'
        PROVE  /\ request.job # "none" => request.to \in Listed
               /\ p \in Listed /\ q \in Listed /\ TidyFolder(homes[p], owed)
               /\ homes'[q] = Nothing /\ \A r \in InRoots \ {p} : homes'[r] = Nothing
    <2>1. tidy /\ homes'[q] = Nothing
      BY <1>2, <1>3, <1>7
    <2>2. MoveTidy /\ (request.job # "none" => request.to \in Listed)
      BY <2>1 DEF RootsInv, TidyInv
    <2> QED
      BY <1>2, <1>3, <1>5, <2>1, <2>2 DEF MoveTidy, InMove
  <1>8. Listed' = Listed
    BY <1>2 DEF Listed, Rooted
  <1>9. CASE mv.again
    <2>1. mv'.at = "idle"
      BY <1>2, <1>9 DEF Idle
    <2>2. SafeIn(homes, owed)'
      BY <1>2, <1>4, <1>5, <1>6 DEF SafeIn, HasBeside
    <2>3. tidy' => Sole(p)'
      BY <1>2, <1>4, <1>5, <1>7, <1>8 DEF Sole
    <2>4. tidy' => /\ request'.job # "none" => request'.to \in Listed'
                   /\ mv'.at = "idle" => \E r \in InRoots : Sole(r)'
                   /\ mv'.at # "idle" => Sole(mv.to)'
      BY <1>2, <1>4, <1>7, <1>8, <2>1, <2>3
    <2> QED
      BY <2>1, <2>2, <2>4, Settled
  <1>10. CASE ~mv.again
    <2>1. mv'.at = "copy" /\ mv'.from = p /\ mv'.to = q /\ mv'.left = Pieces
      BY <1>1, <1>2, <1>3, <1>10 DEF InstallRootsTypeOK
    <2>2. SaveSafe'
      <3>1. CASE HasBeside({p, q})
        BY <1>2, <1>5, <2>1, <3>1 DEF SaveSafe, HasBeside, InMove
      <3>2. CASE Has(homes[p], owed)
        BY <1>2, <1>5, <2>1, <3>2 DEF SaveSafe, Carried, Has, Pieces, InMove
      <3> QED
        BY <1>6, <3>1, <3>2
    <2>3. ASSUME tidy'
          PROVE  MoveTidy'
      <3>1. homes'[q] = Mix(homes[p], Nothing, Pieces)
        BY <1>4, <1>7, <2>3, MixNone, FoldersMade
      <3> QED
        BY <1>2, <1>5, <1>7, <1>8, <2>1, <2>3, <3>1 DEF MoveTidy, InMove
    <2>4. TidyInv'
      BY <1>2, <1>7, <1>8, <2>1, <2>3 DEF TidyInv
    <2> QED
      BY <2>2, <2>4
  <1> QED
    BY <1>9, <1>10

LEMMA CopyDoneSafe == RootsInv /\ CopyDone => SaveSafe' /\ TidyInv'
  <1> SUFFICES ASSUME RootsInv, CopyDone PROVE SaveSafe' /\ TidyInv'
    OBVIOUS
  <1>1. InstallRootsTypeOK
    BY DEF RootsInv
  <1>2. mv.at = "copy" /\ mv.left = {} /\ UNCHANGED <<rootList, homes, request, owed, tidy>>
    BY DEF CopyDone, Copied
  <1>3. mv'.at = "clear" /\ mv'.from = mv.from /\ mv'.to = mv.to /\ mv'.left = Pieces
    BY <1>1, <1>2 DEF CopyDone, InstallRootsTypeOK
  <1>4. /\ mv.from \in InRoots /\ mv.to \in InRoots /\ mv.from # mv.to
        /\ homes[mv.from] \in Folder
    BY <1>1, <1>2 DEF InstallRootsTypeOK, InMove
  <1>5. SaveSafe'
    <2>1. HasBeside({mv.from})
      BY <1>2, <1>4 DEF RootsInv, SaveSafe, HasBeside, Carried, Has
    <2> QED
      BY <1>2, <1>3, <2>1 DEF SaveSafe, HasBeside, InMove
  <1>6. Listed' = Listed
    BY <1>2 DEF Listed, Rooted
  <1>7. ASSUME tidy
        PROVE  MoveTidy'
    <2>1. /\ mv.to \in Listed /\ \A s \in InRoots \ {mv.from, mv.to} : homes[s] = Nothing
          /\ TidyFolder(homes[mv.from], owed)
          /\ homes[mv.to] = Mix(homes[mv.from], Nothing, {})
      BY <1>2, <1>7 DEF RootsInv, TidyInv, MoveTidy, InMove
    <2>2. /\ homes[mv.to] = homes[mv.from]
          /\ homes[mv.from] = Mix(Nothing, homes[mv.from], Pieces)
      BY <1>4, <2>1, MixNone, FoldersMade
    <2> QED
      BY <1>2, <1>3, <1>6, <2>1, <2>2 DEF MoveTidy, InMove
  <1> QED
    BY <1>2, <1>3, <1>5, <1>6, <1>7 DEF RootsInv, TidyInv

LEMMA ClearPieceSafe ==
  ASSUME RootsInv, NEW p \in Pieces, ClearPiece(p)
  PROVE  SaveSafe' /\ TidyInv'
  <1> DEFINE s == homes[mv.from]
             e == Mix(s, Nothing, {p})
  <1>1. InstallRootsTypeOK
    BY DEF RootsInv
  <1>2. /\ mv.at = "clear" /\ p \in mv.left /\ UNCHANGED <<rootList, request, owed, tidy>>
        /\ homes' = [homes EXCEPT ![mv.from] = e]
        /\ mv' = [mv EXCEPT !.left = @ \ {p}]
    BY DEF ClearPiece
  <1>3. mv'.at = "clear" /\ mv'.from = mv.from /\ mv'.to = mv.to /\ mv'.left = mv.left \ {p}
    BY <1>1, <1>2 DEF InstallRootsTypeOK
  <1>4. /\ mv.from \in InRoots /\ mv.to \in InRoots /\ mv.from # mv.to
        /\ homes \in [InRoots -> Folder] /\ s \in Folder /\ mv.left \in SUBSET Pieces
    BY <1>1, <1>2 DEF InstallRootsTypeOK, InMove
  <1>5. homes'[mv.from] = e /\ \A r \in InRoots \ {mv.from} : homes'[r] = homes[r]
    BY <1>2, <1>4
  <1>6. SaveSafe'
    <2>1. HasBeside({mv.from})
      BY <1>2 DEF RootsInv, SaveSafe
    <2> QED
      BY <1>2, <1>3, <1>5, <2>1 DEF SaveSafe, HasBeside, InMove
  <1>7. Listed' = Listed
    BY <1>2 DEF Listed, Rooted
  <1>8. ASSUME tidy
        PROVE  MoveTidy'
    <2>1. /\ mv.to \in Listed /\ \A r \in InRoots \ {mv.from, mv.to} : homes[r] = Nothing
          /\ TidyFolder(homes[mv.to], owed) /\ s = Mix(Nothing, s, mv.left)
      BY <1>2, <1>8 DEF RootsInv, TidyInv, MoveTidy, InMove
    <2>2. e = Mix(Nothing, e, mv.left \ {p})
      <3> HIDE DEF s
      <3> QED
        BY <1>2, <1>4, <2>1, MixOn
    <2> HIDE DEF s, e
    <2> QED
      BY <1>2, <1>3, <1>4, <1>5, <1>7, <2>1, <2>2 DEF MoveTidy, InMove
  <1> QED
    BY <1>2, <1>3, <1>6, <1>7, <1>8 DEF RootsInv, TidyInv

LEMMA ClearEndsSafe == RootsInv /\ ClearEnds => SaveSafe' /\ TidyInv'
  <1> SUFFICES ASSUME RootsInv, ClearEnds PROVE SaveSafe' /\ TidyInv'
    OBVIOUS
  <1>1. InstallRootsTypeOK
    BY DEF RootsInv
  <1>2. /\ mv.at = "clear" /\ UNCHANGED <<rootList, homes, request, owed>>
        /\ mv' = Onward(mv) /\ tidy' = (tidy /\ mv.left = {})
    BY DEF ClearEnds
  <1>3. PICK p, q : p = mv.from /\ q = mv.to
    OBVIOUS
  <1>4. p \in InRoots /\ q \in InRoots /\ p # q /\ homes[p] \in Folder
    BY <1>1, <1>2, <1>3 DEF InstallRootsTypeOK, InMove
  <1>5. mv'.at \in {"idle", "ready"} /\ (mv'.at = "ready" => mv'.to = q)
    BY <1>2, <1>3 DEF Onward, Idle
  <1>6. SafeIn(homes, owed)'
    BY <1>2 DEF RootsInv, SaveSafe, HasBeside, SafeIn
  <1>7. Listed' = Listed
    BY <1>2 DEF Listed, Rooted
  <1>8. ASSUME tidy'
        PROVE  Sole(q)' /\ (request.job # "none" => request.to \in Listed)
    <2>1. tidy /\ mv.left = {}
      BY <1>2, <1>8
    <2>2. /\ q \in Listed /\ \A s \in InRoots \ {p, q} : homes[s] = Nothing
          /\ TidyFolder(homes[q], owed) /\ homes[p] = Mix(Nothing, homes[p], {})
          /\ request.job # "none" => request.to \in Listed
      BY <1>2, <1>3, <2>1 DEF RootsInv, TidyInv, MoveTidy, InMove
    <2>3. homes[p] = Nothing
      BY <1>4, <2>2, MixNone, FoldersMade
    <2> QED
      BY <1>2, <1>4, <1>7, <2>2, <2>3 DEF Sole
  <1>9. tidy' => /\ request'.job # "none" => request'.to \in Listed'
                 /\ mv'.at = "idle" => \E r \in InRoots : Sole(r)'
                 /\ mv'.at # "idle" => Sole(mv.to)'
    <2>1. tidy' /\ mv'.at # "idle" => Sole(mv.to)'
      BY <1>5, <1>8 DEF Sole
    <2> QED
      BY <1>2, <1>4, <1>7, <1>8, <2>1
  <1> QED
    BY <1>5, <1>6, <1>9, Settled

(* The catalog, the dialog, a move refused.                                *)
LEMMA StillSafe ==
  ASSUME RootsInv,
         \/ CatalogTurns \/ MoveRefused \/ UNCHANGED irVars
         \/ \E jb \in {"move", "install"}, r \in InRoots : Confirm(jb, r)
  PROVE  SaveSafe' /\ TidyInv'
  <1>1. UNCHANGED <<homes, owed, rootList, mv>> /\ (tidy' => tidy)
    BY DEF CatalogTurns, MoveRefused, Confirm, irVars
  <1>2. request'.job # "none" => request' = request \/ request'.to \in Listed
    <2>1. ASSUME NEW jb \in {"move", "install"}, NEW r \in InRoots, Confirm(jb, r)
          PROVE  request'.to \in Listed
      <3>1. request'.to \in {Picked, r} /\ r \in Rooted(Effective)
        BY <2>1 DEF Confirm
      <3> QED
        BY <3>1, ListedScanned DEF RootsInv
    <2>2. MoveRefused => request'.job = "none"
      BY DEF MoveRefused, ToMove, Begins, NoRequest
    <2>3. CatalogTurns \/ UNCHANGED irVars => request' = request
      BY DEF CatalogTurns, irVars
    <2> QED
      BY <2>1, <2>2, <2>3
  <1> QED
    BY <1>1, <1>2, StillRoots

LEMMA RootsInvStep == RootsInv /\ [InstallRootsNext]_irVars => RootsInv'
  <1> SUFFICES ASSUME RootsInv, [InstallRootsNext]_irVars PROVE RootsInv'
    OBVIOUS
  <1>1. InstallRootsTypeOK'
    BY RootsTypeStep DEF RootsInv
  <1>2. SaveSafe' /\ TidyInv'
    <2>1. CASE \E list \in RootLists, default \in InRoots \cup {NoRoot} : EditRoots(list, default)
      BY <2>1, EditSafe
    <2>2. CASE PlayThere
      BY <2>2, PlaySafe
    <2>3. CASE (\E keep \in BOOLEAN : Uninstall(keep) \/ CleanOrphans(keep)) \/ DeleteAll \/ ClearGame
      BY <2>3, RemovalSafe
    <2>4. CASE \E shape \in Shapes, t \in 1 .. MaxTag :
                  Update(shape, t) \/ CliInstall(shape, t) \/ Place(shape, t)
      BY <2>4, RootPlacingSafe
    <2>5. CASE NoMove \/ InstallFails \/ CrashRoots
      BY <2>5, JobSafe
    <2>6. CASE Rename \/ CopyBegins \/ CopyDone \/ ClearEnds
      BY <2>6, RenameSafe, CopyBeginsSafe, CopyDoneSafe, ClearEndsSafe
    <2>7. CASE \E p \in Pieces : CopyPiece(p) \/ ClearPiece(p)
      BY <2>7, CopyPieceSafe, ClearPieceSafe
    <2>8. CASE \E P \in SUBSET Pieces : CopyFails(P)
      BY <2>8, CopyFailsSafe
    <2>9. CASE \/ CatalogTurns \/ MoveRefused \/ UNCHANGED irVars
               \/ \E jb \in {"move", "install"}, r \in InRoots : Confirm(jb, r)
      BY <2>9, StillSafe
    <2> QED
      BY <2>1, <2>2, <2>3, <2>4, <2>5, <2>6, <2>7, <2>8, <2>9 DEF InstallRootsNext
  <1> QED
    BY <1>1, <1>2 DEF RootsInv

(* Throughout: the save that is owed is where RootsInv says, mid-copy and  *)
(* mid-removal too (move_title_install, robust_rename).                    *)
THEOREM RootsInvariant == InstallRootsSpec => []RootsInv
  BY RootsInvInit, RootsInvStep, PTL DEF InstallRootsSpec

LEMMA RootsInvKeeps == RootsInv => SavesMoveAlong
  <1> SUFFICES ASSUME RootsInv PROVE SavesMoveAlong
    OBVIOUS
  <1>1. InstallRootsTypeOK
    BY DEF RootsInv
  <1>2. SafeIn(homes, owed)
    <2>1. CASE ~InMove
      BY <2>1 DEF RootsInv, SaveSafe
    <2>2. CASE InMove
      <3>1. mv.from \in InRoots
        BY <1>1, <2>2 DEF InstallRootsTypeOK
      <3> QED
        BY <2>2, <3>1 DEF RootsInv, SaveSafe, SafeIn, Has, HasBeside, Carried, InMove
    <2> QED
      BY <2>1, <2>2
  <1>3. ASSUME tidy, mv.at = "idle", NEW r \in InRoots, homes[r] # Nothing
        PROVE  r = Picked /\ (HasGame(homes[r]) => Reads(homes[r]) >= owed)
    <2>1. PICK s \in InRoots : Sole(s)
      BY <1>3 DEF RootsInv, TidyInv
    <2>2. s = r
      BY <1>3, <2>1 DEF Sole
    <2> QED
      BY <1>1, <1>3, <2>1, <2>2, SoleFound DEF Sole, TidyFolder
  <1> QED
    BY <1>2, <1>3 DEF SavesMoveAlong

(* Through moves, their failures and crashes, the save that is owed is in  *)
(* some root's folder; and as long as no move was cut off there is one     *)
(* folder, every job finds it, and an installed game reads that save.      *)
(* (move_title_install, inspect_install_any, the Install job of the hub)   *)
THEOREM SavesMoveAlongThroughout == InstallRootsSpec => []SavesMoveAlong
  BY RootsInvariant, RootsInvKeeps, PTL
=============================================================================
