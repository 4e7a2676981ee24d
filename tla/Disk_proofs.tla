----------------------------- MODULE Disk_proofs -----------------------------
(***************************************************************************)
(* Proofs about what is kept on disk: the catalog cache of CatalogSync, a  *)
(* download of HttpResume, the migrations of DataRoot and the stores of    *)
(* VersionStores, for every number of releases, blocks, files, places and  *)
(* calls, wherever one stops.                                              *)
(***************************************************************************)
EXTENDS MCDisk, Content_proofs, FiniteSetTheorems, WellFoundedInduction, TLAPS

(* The catalog.                                                            *)
Downloaded == at \notin {"idle", "download"}

(* Releases come in order: none is known that was not published.           *)
Published == tag <= latest /\ seen <= latest /\ zip <= latest /\ cache.rel <= latest

(* What a sync puts into the cache is at least what the state file names,  *)
(* and when the sync is to write that file the cache is what it put there. *)
MovesOn ==
    /\ Downloaded => zip >= 1
    /\ stamped /\ Downloaded => tag <= zip
    /\ stamped /\ at \in {"placed", "clean"} => cache.rel = zip

CatalogSyncInv == CatalogSyncTypeOK /\ Published /\ MovesOn /\ StateNeverAhead
-----------------------------------------------------------------------------
LEMMA CatalogSyncInitInv == CatalogSyncInit => CatalogSyncInv
  BY CatalogSyncAssumption
  DEF CatalogSyncInit, CatalogSyncInv, CatalogSyncTypeOK, Published, MovesOn, StateNeverAhead,
      Downloaded, Catalogs, NoCatalog

(* Each step of a sync, of the repository and of what goes wrong keeps it. *)
LEMMA CatalogSyncStep == CatalogSyncInv /\ [CatalogSyncNext]_csVars => CatalogSyncInv'
  <1> SUFFICES ASSUME CatalogSyncInv, [CatalogSyncNext]_csVars PROVE CatalogSyncInv'
    OBVIOUS
  <1> USE CatalogSyncAssumption
      DEF CatalogSyncInv, CatalogSyncTypeOK, Published, MovesOn, StateNeverAhead, Downloaded,
          Catalogs, NoCatalog
  <1>1. CASE Publish
    BY <1>1 DEF Publish
  <1>2. CASE Download
    BY <1>2 DEF Download
  <1>3. CASE GiveUp
    BY <1>3 DEF GiveUp
  <1>4. CASE ClearBackup
    BY <1>4 DEF ClearBackup
  <1>5. CASE RenameIn
    BY <1>5 DEF RenameIn
  <1>6. ASSUME NEW force \in BOOLEAN, NEW online \in BOOLEAN, Begin(force, online)
        PROVE  CatalogSyncInv'
    BY <1>6 DEF Begin
  <1>7. ASSUME NEW renamed \in BOOLEAN, SetAside(renamed) PROVE CatalogSyncInv'
    BY <1>7 DEF SetAside
  <1>8. ASSUME NEW whole \in BOOLEAN, CopyIn(whole) PROVE CatalogSyncInv'
    BY <1>8 DEF CopyIn
  <1>9. ASSUME NEW online \in BOOLEAN, CleanUp(online) PROVE CatalogSyncInv'
    BY <1>9 DEF CleanUp
  <1>10. ASSUME NEW torn \in BOOLEAN, WriteState(torn) PROVE CatalogSyncInv'
    BY <1>10 DEF WriteState, Stamp
  <1>11. CASE UNCHANGED csVars
    BY <1>11 DEF csVars
  <1>12. QED
    BY <1>1, <1>2, <1>3, <1>4, <1>5, <1>6, <1>7, <1>8, <1>9, <1>10, <1>11 DEF CatalogSyncNext

(* The cache, the state file and the sync keep their types, whatever fails *)
(* in catalog_sync.cpp:360-456.                                            *)
THEOREM CatalogSyncTypesHold == CatalogSyncSpec => []CatalogSyncTypeOK
  <1>1. CatalogSyncInv => CatalogSyncTypeOK
    BY DEF CatalogSyncInv
  <1>2. QED
    BY <1>1, CatalogSyncInitInv, CatalogSyncStep, PTL DEF CatalogSyncSpec

(* The state file never claims a release the cache does not have, so no    *)
(* later check is kept from downloading by it (catalog_sync.cpp:238-272,   *)
(* 431-455): a claim is written only once the copy of that release is in   *)
(* place, and a sync that stops before leaves an older claim behind.       *)
THEOREM StateNeverAheadHolds == CatalogSyncSpec => []StateNeverAhead
  <1>1. CatalogSyncInv => StateNeverAhead
    BY DEF CatalogSyncInv
  <1>2. QED
    BY <1>1, CatalogSyncInitInv, CatalogSyncStep, PTL DEF CatalogSyncSpec

-----------------------------------------------------------------------------
(* A download.                                                             *)

Revisions == 1 .. MaxRev
Piece == [rev : Revisions, place : 1 .. Blocks]
InPlace(f) == f \in Seq(Piece) /\ Len(f) <= Blocks /\ \A i \in 1 .. Len(f) : f[i].place = i

(* What is on disk lies in its places; the block the server sends next is  *)
(* the one the part lacks; and a call that is done has the whole.          *)
ResumeInv ==
    /\ InPlace(part) /\ InPlace(target) /\ rev \in Revisions
    /\ call = "sending" => next = Len(part) + 1 /\ from \in 0 .. Len(part)
    /\ call = "done" => Len(target) = Blocks

LEMMA NothingInPlace == InPlace(None) /\ Len(None) = 0
  BY HttpResumeAssumption DEF InPlace, None

LEMMA ResumeInit == HttpResumeInit => ResumeInv
  BY NothingInPlace, HttpResumeAssumption DEF HttpResumeInit, ResumeInv, Revisions

(* A block is put where the part ends.                                     *)
LEMMA BlockInPlace ==
  ASSUME InPlace(part), rev \in Revisions, Len(part) < Blocks
  PROVE  LET longer == Append(part, [rev |-> rev, place |-> Len(part) + 1])
         IN InPlace(longer) /\ Len(longer) = Len(part) + 1
  <1> DEFINE block == [rev |-> rev, place |-> Len(part) + 1]
             longer == Append(part, block)
  <1>1. part \in Seq(Piece) /\ block \in Piece /\ block.place = Len(part) + 1
    BY HttpResumeAssumption DEF InPlace, Piece
  <1> HIDE DEF block
  <1>2. /\ longer \in Seq(Piece) /\ Len(longer) = Len(part) + 1
        /\ \A i \in 1 .. Len(part) : longer[i] = part[i]
        /\ longer[Len(part) + 1] = block
    BY <1>1
  <1> HIDE DEF longer
  <1>3. Len(longer) <= Blocks
    BY <1>1, <1>2, HttpResumeAssumption
  <1>4. ASSUME NEW i \in 1 .. Len(longer) PROVE longer[i].place = i
    <2>1. CASE i = Len(part) + 1
      BY <2>1, <1>1, <1>2
    <2>2. CASE i # Len(part) + 1
      <3>1. i \in 1 .. Len(part)
        BY <2>2, <1>1, <1>2
      <3>2. QED
        BY <3>1, <1>2 DEF InPlace
    <2>3. QED
      BY <2>1, <2>2
  <1>5. InPlace(longer) /\ Len(longer) = Len(part) + 1
    BY <1>2, <1>3, <1>4 DEF InPlace
  <1>6. QED
    BY <1>5 DEF longer, block

LEMMA ResumeStep == ResumeInv /\ [HttpResumeNext]_hrVars => ResumeInv'
  <1> SUFFICES ASSUME ResumeInv, [HttpResumeNext]_hrVars PROVE ResumeInv'
    OBVIOUS
  <1>0. part \in Seq(Piece) /\ target \in Seq(Piece) /\ Len(part) \in Nat
    BY DEF ResumeInv, InPlace
  <1> USE NothingInPlace, HttpResumeAssumption
  <1>1. CASE Ask
    BY <1>1, <1>0 DEF Ask, Starts, Resume, Ends, ResumeInv, InPlace
  <1>2. CASE BadRange
    BY <1>2 DEF BadRange, ResumeInv, InPlace
  <1>3. CASE RangeIgnored
    BY <1>3 DEF RangeIgnored, Ends, ResumeInv, InPlace
  <1>4. CASE Block
    <2>1. Len(part) < Blocks /\ next = Len(part) + 1
      BY <1>4, <1>0 DEF Block, ResumeInv
    <2>2. InPlace(part') /\ Len(part') = Len(part) + 1
      BY <1>4, <2>1, BlockInPlace DEF Block, ResumeInv
    <2>3. InPlace(target') /\ rev' \in Revisions /\ call' = "sending" /\ next' = next + 1
      BY <1>4 DEF Block, ResumeInv, InPlace
    <2>4. from' \in 0 .. Len(part')
      BY <1>4, <1>0, <2>2 DEF Block, ResumeInv
    <2>5. QED
      BY <2>1, <2>2, <2>3, <2>4, <1>0 DEF ResumeInv
  <1>5. ASSUME NEW refusal \in BOOLEAN, Fails(refusal) PROVE ResumeInv'
    BY <1>5 DEF Fails, Ends, ResumeInv, InPlace
  <1>6. ASSUME NEW renamed \in BOOLEAN, Take(renamed) PROVE ResumeInv'
    BY <1>6 DEF Take, Starts, Ends, Finished, ResumeInv, InPlace
  <1>7. ASSUME NEW renamed \in BOOLEAN, Finish(renamed) PROVE ResumeInv'
    <2>1. Len(part) = Blocks
      BY <1>7, <1>0 DEF Finish, Sends, ResumeInv, InPlace
    <2>2. QED
      BY <1>7, <2>1 DEF Finish, Ends, ResumeInv, InPlace
  <1>8. CASE Return
    BY <1>8 DEF Return, Ends, ResumeInv, InPlace
  <1>9. CASE NewRevision
    BY <1>9 DEF NewRevision, ResumeInv, InPlace, Revisions
  <1>10. CASE UNCHANGED hrVars
    BY <1>10 DEF hrVars, ResumeInv, InPlace
  <1>11. QED
    BY <1>1, <1>2, <1>3, <1>4, <1>5, <1>6, <1>7, <1>8, <1>9, <1>10 DEF HttpResumeNext

(* Whatever parts earlier calls left, and whatever the server makes of a   *)
(* range, a call that reports success has each block in its place          *)
(* (http.cpp:371-452).                                                     *)
THEOREM OneWholeFileHolds == HttpResumeSpec => []OneWholeFile
  <1>1. ResumeInv => OneWholeFile
    BY DEF ResumeInv, OneWholeFile, InPlace, Finished
  <1>2. QED
    BY <1>1, ResumeInit, ResumeStep, PTL DEF HttpResumeSpec

(* What a call counts.                                                     *)
CallTyped ==
    /\ {server, sized, refused, again} \subseteq BOOLEAN
    /\ call \in {"idle", "sending", "done", "failed"}
    /\ from \in 0 .. Blocks /\ next \in 1 .. (Blocks + 1) /\ calls \in 0 .. MaxCalls

LEMMA InPlaceBounded ==
  ASSUME NEW f, InPlace(f)
  PROVE  f \in BoundedSeq([rev : 1 .. MaxRev, place : 1 .. Blocks], Blocks)
  <1>1. f \in [1 .. Len(f) -> Piece] /\ Len(f) \in 0 .. Blocks
    BY HttpResumeAssumption DEF InPlace
  <1>2. QED
    BY <1>1 DEF BoundedSeq, SeqOf, Piece, Revisions

LEMMA ResumeTypes == ResumeInv /\ CallTyped => HttpResumeTypeOK
  <1> SUFFICES ASSUME ResumeInv, CallTyped PROVE HttpResumeTypeOK
    OBVIOUS
  <1>1. {part, target} \subseteq BoundedSeq([rev : 1 .. MaxRev, place : 1 .. Blocks], Blocks)
    BY InPlaceBounded DEF ResumeInv
  <1>2. QED
    BY <1>1 DEF ResumeInv, CallTyped, HttpResumeTypeOK, Revisions

LEMMA Numbers == 0 \in 0 .. Blocks /\ 1 \in 1 .. (Blocks + 1) /\ 0 \in 0 .. MaxCalls
  BY HttpResumeAssumption

LEMMA CallInit == ASSUME HttpResumeInit PROVE CallTyped
  <1>1. from \in 0 .. Blocks /\ next \in 1 .. (Blocks + 1) /\ calls \in 0 .. MaxCalls
    BY Numbers DEF HttpResumeInit
  <1>2. server \in BOOLEAN /\ sized \in BOOLEAN /\ refused = FALSE /\ again = FALSE
    BY HttpResumeAssumption, ZenonT(20) DEF HttpResumeInit
  <1>3. call = "idle"
    BY DEF HttpResumeInit
  <1>4. {server, sized, refused, again} \subseteq BOOLEAN
    BY <1>2, ZenonT(20)
  <1>5. QED
    BY <1>1, <1>3, <1>4, ZenonT(20) DEF CallTyped

LEMMA CallStep == ASSUME ResumeInv, CallTyped, [HttpResumeNext]_hrVars PROVE CallTyped'
  <1>0. part \in Seq(Piece) /\ Len(part) \in 0 .. Blocks
    BY HttpResumeAssumption DEF ResumeInv, InPlace
  <1> USE HttpResumeAssumption
  <1>a. ASSUME Starts PROVE calls' \in 0 .. MaxCalls
    BY <1>a DEF Starts, CallTyped
  <1>f. ASSUME refused' = FALSE, again' = FALSE, UNCHANGED <<server, sized>>
        PROVE  {server, sized, refused, again}' \subseteq BOOLEAN
    BY <1>f, ZenonT(20) DEF CallTyped
  <1>1. CASE Ask
    <2>1. Starts /\ from' = Len(part) /\ next' = Len(part) + 1 /\ call' = "sending"
      BY <1>1 DEF Ask, Resume, Ends
    <2>2. from' \in 0 .. Blocks /\ next' \in 1 .. (Blocks + 1)
      BY <2>1, <1>0
    <2>3. {server, sized, refused, again}' \subseteq BOOLEAN
      BY <1>1, <1>f DEF Ask
    <2>4. QED
      BY <2>1, <2>2, <2>3, <1>a DEF CallTyped
  <1>2. CASE BadRange
    BY <1>2 DEF BadRange, CallTyped
  <1>3. CASE RangeIgnored
    BY <1>3 DEF RangeIgnored, Ends, CallTyped
  <1>4. CASE Block
    BY <1>4 DEF Block, CallTyped
  <1>5. ASSUME NEW refusal \in BOOLEAN, Fails(refusal) PROVE CallTyped'
    BY <1>5 DEF Fails, Ends, CallTyped
  <1>6. ASSUME NEW renamed \in BOOLEAN, Take(renamed) PROVE CallTyped'
    <2>1. Starts /\ from' = 0 /\ next' = 1 /\ call' \in {"done", "failed"}
      BY <1>6 DEF Take, Ends
    <2>2. from' \in 0 .. Blocks /\ next' \in 1 .. (Blocks + 1)
      BY <2>1, Numbers
    <2>3. {server, sized, refused, again}' \subseteq BOOLEAN
      BY <1>6, <1>f DEF Take
    <2>4. QED
      BY <2>1, <2>2, <2>3, <1>a DEF CallTyped
  <1>7. ASSUME NEW renamed \in BOOLEAN, Finish(renamed) PROVE CallTyped'
    BY <1>7 DEF Finish, Ends, CallTyped
  <1>8. CASE Return
    BY <1>8 DEF Return, Ends, CallTyped
  <1>9. CASE NewRevision
    BY <1>9 DEF NewRevision, CallTyped
  <1>10. CASE UNCHANGED hrVars
    BY <1>10 DEF hrVars, CallTyped
  <1>11. QED
    BY <1>1, <1>2, <1>3, <1>4, <1>5, <1>6, <1>7, <1>8, <1>9, <1>10 DEF HttpResumeNext

(* However often a call is repeated, a part never grows past the file.     *)
THEOREM HttpResumeTyped == HttpResumeSpec => []HttpResumeTypeOK
  <1>1. HttpResumeInit => ResumeInv /\ CallTyped
    BY ResumeInit, CallInit, HttpResumeAssumption
  <1>2. ResumeInv /\ CallTyped /\ [HttpResumeNext]_hrVars => ResumeInv' /\ CallTyped'
    BY ResumeStep, CallStep
  <1>3. QED
    BY <1>1, <1>2, ResumeTypes, PTL DEF HttpResumeSpec

-----------------------------------------------------------------------------
(* The migrations of the data root.                                        *)

Writes == 0 .. MaxWrites
Trees == [Places -> [Files -> Writes]]
Plans == [at : {"idle", "data", "config", "links", "rebase", "pointer", "done", "failed"},
          to : Pointer, mode : Modes, by : {"hub", "cli"}, beside : BOOLEAN,
          left : SUBSET Files, had : [Files -> Writes], set : Writes,
          outranked : BOOLEAN]
RootTyped ==
    /\ data \in Trees /\ config \in [Places -> [ver : Writes, installs : Pointer]]
    /\ {exeMarker, osPointer, pin, here} \subseteq Pointer
    /\ move \in Plans /\ mine \in [Files -> Writes] /\ writes \in Writes

(* What the hub that runs has of a file is what the user last had of it.   *)
HereIsMine ==
    here # NoPlace => \A f \in Files :
        mine[f] # 0 /\ data[here][f] # 0 => data[here][f] = mine[f]

(* A migration leads from the place that runs to another one, and a file   *)
(* that it has copied is there.                                            *)
Underway ==
    /\ move.at # "idle" => here \in Places /\ move.to \in Places /\ move.to # here
    /\ move.at = "data" => \A f \in Files \ move.left :
          data[here][f] # 0 => data[move.to][f] = data[here][f]

SurvivalInv == RootTyped /\ WorkSurvives /\ HereIsMine /\ Underway

LEMMA WritesAre ==
    /\ {0, 1} \subseteq Writes /\ Writes \subseteq Nat
    /\ RootTyped /\ writes < MaxWrites => writes + 1 \in Writes
<1>1. {0, 1} \subseteq Writes /\ Writes \subseteq Nat
  BY DataRootAssumption DEF Writes
<1>2. ASSUME writes \in Writes, writes < MaxWrites PROVE writes + 1 \in Writes
  BY <1>2, DataRootAssumption DEF Writes
<1> QED  BY <1>1, <1>2 DEF RootTyped

LEMMA RootIsPlace == RootTyped => Root \in Places
  BY DataRootAssumption DEF RootTyped, Root, Resolved, Pointer, Places, Default

LEMMA NoPlanTyped == NoPlan \in Plans /\ NoPlan.at = "idle"
  BY WritesAre DEF NoPlan, Plans, Modes, NoFiles, Pointer

LEMMA PlannedTyped ==
  ASSUME RootTyped, NEW source \in Places, NEW to \in Places, NEW mode \in Modes,
         NEW by \in {"hub", "cli"}, NEW beside \in BOOLEAN
  PROVE  Planned(source, to, mode, by, beside) \in Plans
  BY DEF RootTyped, Trees, Planned, Plans, Pointer

LEMMA SurvivalInit == DataRootInit => SurvivalInv
  <1> SUFFICES ASSUME DataRootInit PROVE SurvivalInv
    OBVIOUS
  <1>1. RootTyped
    BY DataRootAssumption, WritesAre, NoPlanTyped
    DEF DataRootInit, RootTyped, Trees, NoFiles, NoConfig, Pointer, Places
  <1>2. WorkSurvives /\ HereIsMine /\ Underway
    BY NoPlanTyped DEF DataRootInit, WorkSurvives, HereIsMine, Underway, NoFiles
  <1>3. QED
    BY <1>1, <1>2 DEF SurvivalInv

(* Each step keeps the types.                                              *)
LEMMA RootTypedStep == RootTyped /\ Underway /\ [DataRootNext]_drVars => RootTyped'
  <1> SUFFICES ASSUME RootTyped, Underway, [DataRootNext]_drVars PROVE RootTyped'
    OBVIOUS
  <1>0. Root \in Places /\ Places \subseteq Pointer /\ NoPlace \in Pointer /\ NoPlan \in Plans
    BY RootIsPlace, NoPlanTyped DEF Pointer
  <1> USE DataRootAssumption
  <1>1. CASE StartHub
    BY <1>0, <1>1 DEF StartHub, RootTyped, Trees
  <1>2. CASE CloseHub
    BY <1>0, <1>2 DEF CloseHub, RootTyped
  <1>3. CASE SaveSettings
    BY <1>0, <1>3, WritesAre DEF SaveSettings, RootTyped, Pointer
  <1>4. ASSUME NEW f \in Files, SaveFile(f) PROVE RootTyped'
    BY <1>4, WritesAre DEF SaveFile, RootTyped, Trees, Pointer
  <1>5. ASSUME NEW to \in Places, FinishSetup(to) PROVE RootTyped'
    <2>1. here \in Places /\ writes' \in Writes /\ data' \in Trees
      BY <1>5, WritesAre DEF FinishSetup, RootTyped, Trees, Pointer
    <2>2. mine' \in [Files -> Writes]
      BY <1>5, <2>1 DEF FinishSetup, Trees
    <2>3. config' \in [Places -> [ver : Writes, installs : Pointer]]
      BY <1>5, <1>0, <2>1 DEF FinishSetup, RootTyped
    <2>4. Planned(here, to, "Move", "hub", Portable) \in Plans
      BY <2>1, PlannedTyped DEF Modes
    <2>5. move' \in Plans
      BY <1>5, <2>1, <2>2, <2>4 DEF FinishSetup, RootTyped, Plans
    <2>6. QED
      BY <1>5, <2>1, <2>2, <2>3, <2>5 DEF FinishSetup, RootTyped
  <1>6. ASSUME NEW to \in Places, NEW mode \in Modes, Continue(to, mode) PROVE RootTyped'
    <2>1. here \in Places
      BY <1>6 DEF Continue, RootTyped, Pointer
    <2>2. Planned(here, to, mode, "hub", Portable) \in Plans
      BY <2>1, PlannedTyped
    <2>3. QED
      BY <1>6, <2>2 DEF Continue, RootTyped
  <1>7. ASSUME NEW to \in Places, NEW mode \in Modes, Command(to, mode) PROVE RootTyped'
    <2>1. Planned(Root, to, mode, "cli", to # Default /\ exeMarker # NoPlace) \in Plans
      BY <1>0, PlannedTyped
    <2>2. QED
      BY <1>0, <1>7, <2>1 DEF Command, RootTyped, Trees
  <1>8. CASE RenameData
    BY <1>8, WritesAre DEF RenameData, Unmoved, RootTyped, Trees, NoFiles, Plans, Underway
  <1>9. ASSUME NEW f \in Files, CopyFile(f) PROVE RootTyped'
    <2>1. here \in Places /\ To \in Places
      BY <1>9 DEF CopyFile, Underway, To
    <2>2. data' \in Trees
      BY <1>9, <2>1 DEF CopyFile, RootTyped, Trees
    <2>3. QED
      BY <1>9, <2>2 DEF CopyFile, Unmoved, RootTyped, Plans
  <1>10. ASSUME NEW kept \in SUBSET Files, DropSource(kept) PROVE RootTyped'
    <2>1. data' \in Trees
      BY <1>10, WritesAre DEF DropSource, RootTyped, Trees, Underway
    <2>2. QED
      BY <1>10, <2>1 DEF DropSource, Unmoved, RootTyped, Plans
  <1>11. ASSUME NEW kept \in BOOLEAN, MoveConfig(kept) PROVE RootTyped'
    <2>1. here \in Places /\ To \in Places
      BY <1>11 DEF MoveConfig, Underway, To
    <2>2. config' \in [Places -> [ver : Writes, installs : Pointer]]
      BY <1>0, <1>11, <2>1, WritesAre DEF MoveConfig, RootTyped, NoConfig
    <2>3. QED
      BY <1>11, <2>2 DEF MoveConfig, RootTyped, Plans
  <1>12. ASSUME NEW p \in Pointer, RetargetLinks(p) PROVE RootTyped'
    BY <1>12 DEF RetargetLinks, Unmoved, RootTyped, Plans
  <1>13. ASSUME NEW ok \in BOOLEAN, RebaseInstalls(ok) PROVE RootTyped'
    <2>1. To \in Places
      BY <1>13 DEF RebaseInstalls, Underway, To
    <2>2. config' \in [Places -> [ver : Writes, installs : Pointer]]
      BY <1>0, <1>13, <2>1 DEF RebaseInstalls, RootTyped
    <2>3. QED
      BY <1>13, <2>2 DEF RebaseInstalls, RootTyped, Plans
  <1>14. ASSUME NEW stuck \in BOOLEAN, WritePointer(stuck) PROVE RootTyped'
    BY <1>0, <1>14 DEF WritePointer, RootTyped, Plans, Underway, To
  <1>15. CASE StepFails
    BY <1>15 DEF StepFails, Unmoved, RootTyped, Plans
  <1>16. CASE Crash
    BY <1>0, <1>16 DEF Crash, RootTyped
  <1>17. ASSUME NEW ok \in BOOLEAN, EndMove(ok) PROVE RootTyped'
    BY <1>0, <1>17 DEF EndMove, RootTyped
  <1>18. CASE UNCHANGED drVars
    BY <1>18 DEF drVars, RootTyped
  <1>19. QED
    BY <1>1, <1>2, <1>3, <1>4, <1>5, <1>6, <1>7, <1>8, <1>9, <1>10, <1>11, <1>12, <1>13,
       <1>14, <1>15, <1>16, <1>17, <1>18 DEF DataRootNext

(* Each step keeps what the user had.  Of a place's files only CopyFile    *)
(* writes over some: with the one that runs, which are the user's.         *)
LEMMA SurvivalStep == SurvivalInv /\ [DataRootNext]_drVars => SurvivalInv'
  <1> SUFFICES ASSUME SurvivalInv, [DataRootNext]_drVars PROVE SurvivalInv'
    OBVIOUS
  <1>0. RootTyped /\ WorkSurvives /\ HereIsMine /\ Underway /\ RootTyped'
    BY RootTypedStep DEF SurvivalInv
  <1>r. Root \in Places /\ NoPlace \notin Places /\ NoPlan.at = "idle"
    BY <1>0, RootIsPlace, DataRootAssumption, NoPlanTyped
  <1>t. data \in Trees /\ mine \in [Files -> Writes] /\ here \in Places \cup {NoPlace}
    BY <1>0 DEF RootTyped, Pointer
  <1> SUFFICES WorkSurvives' /\ HereIsMine' /\ Underway'
    BY <1>0 DEF SurvivalInv
  <1>1. CASE StartHub
    <2>1. mine' = data'[here'] /\ here' \in Places /\ data' = data /\ move' = move
      BY <1>1, <1>r DEF StartHub
    <2>2. QED
      BY <1>1, <2>1, <1>0 DEF StartHub, WorkSurvives, HereIsMine, Underway
  <1>2. CASE CloseHub
    BY <1>2, <1>0 DEF CloseHub, WorkSurvives, HereIsMine, Underway
  <1>3. CASE SaveSettings
    BY <1>3, <1>0 DEF SaveSettings, WorkSurvives, HereIsMine, Underway
  <1>4. ASSUME NEW f \in Files, SaveFile(f)
        PROVE  WorkSurvives' /\ HereIsMine' /\ Underway'
    <2>1. /\ here \in Places /\ here' = here /\ move.at = "idle" /\ move' = move
          /\ mine'[f] = data'[here][f]
          /\ \A g \in Files \ {f} : mine'[g] = mine[g] /\ \A p \in Places : data'[p][g] = data[p][g]
      BY <1>4, <1>t DEF SaveFile, Trees
    <2>2. WorkSurvives' /\ HereIsMine'
      BY <2>1, <1>0, <1>r DEF WorkSurvives, HereIsMine
    <2>3. Underway'
      BY <2>1 DEF Underway
    <2>4. QED
      BY <2>2, <2>3
  <1>5. ASSUME NEW to \in Places, FinishSetup(to)
        PROVE  WorkSurvives' /\ HereIsMine' /\ Underway'
    <2>1. here \in Places /\ here' = here /\ mine' = data'[here] /\ move.at = "idle" /\ to # here
      BY <1>5, <1>t DEF FinishSetup, CanPlan
    <2>2. WorkSurvives' /\ HereIsMine'
      BY <2>1 DEF WorkSurvives, HereIsMine
    <2>3. move' = move \/ (move'.at = "data" /\ move'.to = to /\ move'.left = Files)
      BY <1>5 DEF FinishSetup, Planned
    <2>4. Underway'
      BY <2>1, <2>3 DEF Underway
    <2>5. QED
      BY <2>2, <2>4
  <1>6. ASSUME NEW to \in Places, NEW mode \in Modes, Continue(to, mode)
        PROVE  WorkSurvives' /\ HereIsMine' /\ Underway'
    <2>1. here \in Places /\ here' = here /\ mine' = mine /\ data' = data
          /\ move.at = "idle" /\ to # here
      BY <1>6, <1>t DEF Continue, CanPlan
    <2>2. move' = move \/ (move'.at \in {"data", "rebase"} /\ move'.to = to /\ move'.left = Files)
      BY <1>6 DEF Continue, Planned
    <2>3. QED
      BY <2>1, <2>2, <1>0 DEF WorkSurvives, HereIsMine, Underway
  <1>7. ASSUME NEW to \in Places, NEW mode \in Modes, Command(to, mode)
        PROVE  WorkSurvives' /\ HereIsMine' /\ Underway'
    <2>1. here' = Root /\ mine' = data'[here'] /\ data' = data /\ to # Root
          /\ move'.at \in {"data", "rebase"} /\ move'.to = to /\ move'.left = Files
      BY <1>7 DEF Command, Planned, CanPlan
    <2>2. QED
      BY <2>1, <1>r DEF WorkSurvives, HereIsMine, Underway
  <1>8. CASE RenameData
    <2>1. here \in Places /\ To \in Places /\ To # here /\ mine' = mine /\ here' = here
          /\ move'.at = "config" /\ move'.to = To
      BY <1>8, <1>0 DEF RenameData, Underway, To, Unmoved, RootTyped, Plans
    <2>2. /\ data'[To] = data[here] /\ data'[here] = NoFiles /\ data[To] = NoFiles
          /\ \A p \in Places \ {To, here} : data'[p] = data[p]
      BY <1>8, <2>1, <1>t DEF RenameData, Empty, Trees
    <2>3. WorkSurvives'
      <3> SUFFICES ASSUME NEW f \in Files, mine[f] # 0
                   PROVE  \E p \in Places : data'[p][f] = mine[f]
        BY <2>1 DEF WorkSurvives
      <3>1. PICK p \in Places : data[p][f] = mine[f]
        BY <1>0 DEF WorkSurvives
      <3>2. QED
        BY <3>1, <2>1, <2>2 DEF NoFiles
    <2>4. HereIsMine' /\ Underway'
      BY <2>1, <2>2 DEF HereIsMine, Underway, NoFiles
    <2>5. QED
      BY <2>3, <2>4
  <1>9. ASSUME NEW f \in Files, CopyFile(f)
        PROVE  WorkSurvives' /\ HereIsMine' /\ Underway'
    <2>1. here \in Places /\ To \in Places /\ To # here /\ mine' = mine /\ here' = here
          /\ move.at = "data" /\ move'.at = "data" /\ move'.to = To
          /\ move'.left = move.left \ {f}
      BY <1>9, <1>0 DEF CopyFile, Underway, To, Unmoved, RootTyped, Plans
    <2>2. /\ data'[To][f] = (IF data[here][f] = 0 THEN data[To][f] ELSE data[here][f])
          /\ \A g \in Files \ {f} : data'[To][g] = data[To][g]
          /\ \A p \in Places \ {To} : data'[p] = data[p]
      BY <1>9, <2>1, <1>t DEF CopyFile, Trees
    <2>3. WorkSurvives'
      <3> SUFFICES ASSUME NEW g \in Files, mine[g] # 0
                   PROVE  \E p \in Places : data'[p][g] = mine[g]
        BY <2>1 DEF WorkSurvives
      <3>1. PICK p \in Places : data[p][g] = mine[g]
        BY <1>0 DEF WorkSurvives
      <3>2. CASE p = To /\ g = f /\ data[here][f] # 0
        BY <3>2, <2>1, <2>2, <1>0, <1>r DEF HereIsMine
      <3>3. CASE ~(p = To /\ g = f /\ data[here][f] # 0)
        BY <3>1, <3>3, <2>2
      <3>4. QED
        BY <3>2, <3>3
    <2>4. HereIsMine'
      BY <2>1, <2>2, <1>0 DEF HereIsMine
    <2>5. Underway'
      BY <2>1, <2>2, <1>0 DEF Underway, To
    <2>6. QED
      BY <2>3, <2>4, <2>5
  <1>10. ASSUME NEW kept \in SUBSET Files, DropSource(kept)
         PROVE  WorkSurvives' /\ HereIsMine' /\ Underway'
    <2>1. here \in Places /\ To \in Places /\ To # here /\ mine' = mine /\ here' = here
          /\ move.at = "data" /\ move.left = {} /\ move'.at = "config" /\ move'.to = To
      BY <1>10, <1>0 DEF DropSource, Underway, To, Unmoved, RootTyped, Plans
    <2>2. /\ \A p \in Places \ {here} : data'[p] = data[p]
          /\ \A f \in Files : data'[here][f] = (IF f \in kept THEN data[here][f] ELSE 0)
      BY <1>10, <2>1, <1>t DEF DropSource, Trees
    <2>3. WorkSurvives'
      <3> SUFFICES ASSUME NEW f \in Files, mine[f] # 0
                   PROVE  \E p \in Places : data'[p][f] = mine[f]
        BY <2>1 DEF WorkSurvives
      <3>1. PICK p \in Places : data[p][f] = mine[f]
        BY <1>0 DEF WorkSurvives
      <3>2. CASE p = here
        BY <3>1, <3>2, <2>1, <2>2, <1>0 DEF Underway, To
      <3>3. CASE p # here
        BY <3>1, <3>3, <2>2
      <3>4. QED
        BY <3>2, <3>3
    <2>4. HereIsMine' /\ Underway'
      BY <2>1, <2>2, <1>0 DEF HereIsMine, Underway
    <2>5. QED
      BY <2>3, <2>4
  <1>11. ASSUME UNCHANGED <<data, here, mine>>, move'.to = move.to,
                move.at # "idle", move'.at # "data"
         PROVE  WorkSurvives' /\ HereIsMine' /\ Underway'
    BY <1>11, <1>0 DEF WorkSurvives, HereIsMine, Underway
  <1>12. ASSUME NEW kept \in BOOLEAN, MoveConfig(kept)
         PROVE  WorkSurvives' /\ HereIsMine' /\ Underway'
    BY <1>0, <1>11, <1>12 DEF MoveConfig, RootTyped, Plans
  <1>13. ASSUME NEW p \in Pointer, RetargetLinks(p)
         PROVE  WorkSurvives' /\ HereIsMine' /\ Underway'
    BY <1>0, <1>11, <1>13 DEF RetargetLinks, Unmoved, RootTyped, Plans
  <1>14. ASSUME NEW ok \in BOOLEAN, RebaseInstalls(ok)
         PROVE  WorkSurvives' /\ HereIsMine' /\ Underway'
    BY <1>0, <1>11, <1>14 DEF RebaseInstalls, RootTyped, Plans
  <1>15. ASSUME NEW stuck \in BOOLEAN, WritePointer(stuck)
         PROVE  WorkSurvives' /\ HereIsMine' /\ Underway'
    BY <1>0, <1>11, <1>15 DEF WritePointer, RootTyped, Plans
  <1>16. CASE StepFails
    BY <1>0, <1>11, <1>16 DEF StepFails, Unmoved, RootTyped, Plans
  <1>17. CASE Crash
    BY <1>0, <1>r, <1>17 DEF Crash, WorkSurvives, HereIsMine, Underway
  <1>18. ASSUME NEW ok \in BOOLEAN, EndMove(ok)
         PROVE  WorkSurvives' /\ HereIsMine' /\ Underway'
    BY <1>0, <1>r, <1>18 DEF EndMove, WorkSurvives, HereIsMine, Underway
  <1>19. CASE UNCHANGED drVars
    BY <1>0, <1>19 DEF drVars, WorkSurvives, HereIsMine, Underway
  <1>20. QED
    BY <1>1, <1>2, <1>3, <1>4, <1>5, <1>6, <1>7, <1>8, <1>9, <1>10, <1>12, <1>13, <1>14,
       <1>15, <1>16, <1>17, <1>18, <1>19 DEF DataRootNext

(* However many migrations fail, die or merge into older trees, what the   *)
(* user last had is in some place's data folder                            *)
(* (data_root_migrate.cpp:149-177, 334-353).                               *)
THEOREM WorkSurvivesHolds == DataRootSpec => []WorkSurvives
  <1>1. SurvivalInv => WorkSurvives
    BY DEF SurvivalInv
  <1>2. QED
    BY <1>1, SurvivalInit, SurvivalStep, PTL DEF DataRootSpec

(* A migration that moves brings along what it found where it began: the   *)
(* files once the data folder has moved, the settings once the other has;  *)
(* until then they are where they were.                                    *)
Moving == move.at # "idle" /\ move.mode = "Move"
FilesMoved == move.at \in {"config", "links", "rebase", "pointer", "done"}
SettingsMoved == move.at \in {"links", "rebase", "pointer", "done"}
Carries ==
    /\ move.at = "data" => move.mode = "Move"
    /\ Moving /\ move.at = "data" => move.had = data[here]
    /\ Moving /\ FilesMoved =>
         \A f \in Files : move.had[f] # 0 => data[move.to][f] = move.had[f]
    /\ Moving /\ move.at \in {"data", "config"} => move.set = config[here].ver
    /\ Moving /\ SettingsMoved /\ move.set # 0 => config[move.to].ver = move.set
PointsThere == move.at = "done" /\ pin = NoPlace => move.outranked \/ Root = move.to

CarriesInv == SurvivalInv /\ Carries /\ PointsThere

LEMMA CarriesInit == DataRootInit => CarriesInv
  BY SurvivalInit, NoPlanTyped
  DEF DataRootInit, CarriesInv, Carries, PointsThere, Moving, FilesMoved, SettingsMoved

(* A new plan carries what is there.                                       *)
LEMMA BeginsCarrying ==
  ASSUME move'.at \in {"data", "rebase"}, move'.at = "data" <=> move'.mode = "Move",
         here' \in Places, move'.had = data'[here'], move'.set = config'[here'].ver
  PROVE  Carries' /\ PointsThere'
  BY DEF Carries, PointsThere, Moving, FilesMoved, SettingsMoved

LEMMA CarriesStep == CarriesInv /\ [DataRootNext]_drVars => CarriesInv'
  <1> SUFFICES ASSUME CarriesInv, [DataRootNext]_drVars PROVE CarriesInv'
    OBVIOUS
  <1>0. SurvivalInv /\ SurvivalInv' /\ RootTyped /\ Underway /\ Carries /\ PointsThere
    BY SurvivalStep DEF CarriesInv, SurvivalInv
  <1>r. Root \in Places /\ NoPlan.at = "idle"
    BY <1>0, RootIsPlace, NoPlanTyped
  <1>t. /\ data \in Trees /\ here \in Places \cup {NoPlace} /\ writes \in Writes
        /\ config \in [Places -> [ver : Writes, installs : Pointer]]
    BY <1>0 DEF RootTyped, Pointer
  <1> SUFFICES Carries' /\ PointsThere'
    BY <1>0 DEF CarriesInv
  <1>1. ASSUME move'.at = "idle" PROVE Carries' /\ PointsThere'
    BY <1>1 DEF Carries, PointsThere, Moving, FilesMoved, SettingsMoved
  <1>2. CASE StartHub \/ CloseHub \/ SaveSettings \/ \E f \in Files : SaveFile(f)
    BY <1>1, <1>2 DEF StartHub, CloseHub, SaveSettings, SaveFile
  <1>3. ASSUME NEW to \in Places, FinishSetup(to) PROVE Carries' /\ PointsThere'
    <2>1. CASE to = Default
      BY <1>1, <1>3, <2>1 DEF FinishSetup, CanPlan
    <2>2. CASE to # Default
      <3>1. here \in Places /\ here' = here /\ config'[here].ver = writes'
        BY <1>3, <1>t DEF FinishSetup
      <3>2. /\ move'.at = "data" /\ move'.mode = "Move" /\ move'.had = data'[here]
            /\ move'.set = writes'
        BY <1>3, <2>2 DEF FinishSetup, Planned
      <3>3. QED
        BY <3>1, <3>2, BeginsCarrying
    <2>3. QED
      BY <2>1, <2>2
  <1>4. ASSUME NEW to \in Places, NEW mode \in Modes, Continue(to, mode)
        PROVE  Carries' /\ PointsThere'
    <2>1. CASE to = Default
      BY <1>1, <1>4, <2>1 DEF Continue, CanPlan
    <2>2. CASE to # Default
      <3>1. here \in Places /\ here' = here /\ data' = data /\ config' = config
        BY <1>4, <1>t DEF Continue
      <3>2. /\ move'.at = (IF mode = "Move" THEN "data" ELSE "rebase") /\ move'.mode = mode
            /\ move'.had = data[here] /\ move'.set = config[here].ver
        BY <1>4, <2>2 DEF Continue, Planned
      <3>3. QED
        BY <3>1, <3>2, BeginsCarrying
    <2>3. QED
      BY <2>1, <2>2
  <1>5. ASSUME NEW to \in Places, NEW mode \in Modes, Command(to, mode)
        PROVE  Carries' /\ PointsThere'
    <2>1. here' = Root /\ data' = data /\ config' = config
      BY <1>5 DEF Command
    <2>2. /\ move'.at = (IF mode = "Move" THEN "data" ELSE "rebase") /\ move'.mode = mode
          /\ move'.had = data[Root] /\ move'.set = config[Root].ver
      BY <1>5 DEF Command, Planned
    <2>3. QED
      BY <2>1, <2>2, <1>r, BeginsCarrying
  <1>6. ASSUME move.at # "idle"
        PROVE  /\ here \in Places /\ To \in Places /\ To # here
               /\ move \in Plans /\ move.had \in [Files -> Writes]
    BY <1>6, <1>0 DEF Underway, To, RootTyped, Plans
  <1>7. CASE RenameData
    <2>1. /\ move.at = "data" /\ move'.at = "config" /\ move'.to = To /\ move'.mode = move.mode
          /\ move'.had = move.had /\ move'.set = move.set /\ here' = here /\ config' = config
      BY <1>7, <1>6 DEF RenameData, Unmoved, Plans, To
    <2>2. data'[To] = data[here]
      BY <1>7, <1>6, <1>t, <2>1 DEF RenameData, Trees
    <2>3. QED
      BY <1>0, <2>1, <2>2 DEF Carries, PointsThere, Moving, FilesMoved, SettingsMoved
  <1>8. ASSUME NEW f \in Files, CopyFile(f) PROVE Carries' /\ PointsThere'
    <2>1. /\ move.at = "data" /\ move'.at = "data" /\ move'.mode = move.mode
          /\ move'.had = move.had /\ move'.set = move.set /\ here' = here /\ config' = config
      BY <1>8, <1>6 DEF CopyFile, Unmoved, Plans
    <2>2. data'[here] = data[here]
      BY <1>8, <1>6, <1>t, <2>1 DEF CopyFile, Trees
    <2>3. QED
      BY <1>0, <2>1, <2>2 DEF Carries, PointsThere, Moving, FilesMoved, SettingsMoved
  <1>9. ASSUME NEW kept \in SUBSET Files, DropSource(kept) PROVE Carries' /\ PointsThere'
    <2>1. /\ move.at = "data" /\ move.left = {} /\ move'.at = "config" /\ move'.to = To
          /\ move'.mode = move.mode /\ move'.had = move.had /\ move'.set = move.set
          /\ here' = here /\ config' = config
      BY <1>9, <1>6 DEF DropSource, Unmoved, Plans, To
    <2>2. data'[To] = data[To]
      BY <1>9, <1>6, <1>t, <2>1 DEF DropSource, Trees
    <2>3. \A f \in Files : data[here][f] # 0 => data[To][f] = data[here][f]
      BY <1>0, <2>1 DEF Underway, To
    <2>4. QED
      BY <1>0, <2>1, <2>2, <2>3 DEF Carries, PointsThere, Moving, FilesMoved, SettingsMoved
  <1>10. ASSUME NEW kept \in BOOLEAN, MoveConfig(kept) PROVE Carries' /\ PointsThere'
    <2>1. /\ move.at = "config" /\ move'.at = "links" /\ move'.to = To /\ move.to = To
          /\ move'.mode = move.mode /\ move'.had = move.had /\ move'.set = move.set
          /\ data' = data
      BY <1>10, <1>6 DEF MoveConfig, Plans, To
    <2>2. config[here].ver # 0 => config'[To].ver = config[here].ver
      BY <1>10, <1>6, <1>t, <2>1 DEF MoveConfig
    <2>3. QED
      BY <1>0, <2>1, <2>2 DEF Carries, PointsThere, Moving, FilesMoved, SettingsMoved
  <1>11. ASSUME NEW p \in Pointer, RetargetLinks(p) PROVE Carries' /\ PointsThere'
    <2>1. /\ move.at = "links" /\ move'.at = "rebase" /\ move'.to = move.to
          /\ move'.mode = move.mode /\ move'.had = move.had /\ move'.set = move.set
          /\ data' = data /\ config' = config
      BY <1>11, <1>6 DEF RetargetLinks, Unmoved, Plans
    <2>2. QED
      BY <1>0, <2>1 DEF Carries, PointsThere, Moving, FilesMoved, SettingsMoved
  <1>12. ASSUME NEW ok \in BOOLEAN, RebaseInstalls(ok) PROVE Carries' /\ PointsThere'
    <2>1. /\ move.at = "rebase" /\ move'.at = "pointer" /\ move'.to = To /\ move.to = To
          /\ move'.mode = move.mode /\ move'.had = move.had /\ move'.set = move.set
          /\ data' = data
      BY <1>12, <1>6 DEF RebaseInstalls, Plans, To
    <2>2. config'[To].ver = config[To].ver
      BY <1>12, <1>6, <1>t, <2>1 DEF RebaseInstalls
    <2>3. QED
      BY <1>0, <2>1, <2>2 DEF Carries, PointsThere, Moving, FilesMoved, SettingsMoved
  <1>13. ASSUME NEW stuck \in BOOLEAN, WritePointer(stuck) PROVE Carries' /\ PointsThere'
    <2>1. /\ move.at = "pointer" /\ move'.at \in {"done", "failed"}
          /\ move'.to = To /\ move.to = To
          /\ move'.mode = move.mode /\ move'.had = move.had /\ move'.set = move.set
          /\ data' = data /\ config' = config /\ pin' = pin
      BY <1>13, <1>6 DEF WritePointer, Plans, To
    <2>2. pin = NoPlace /\ move'.at = "done" => move'.outranked \/ Root' = To
      BY <1>13, <1>6, <2>1, DataRootAssumption DEF WritePointer, Root, Resolved, To
    <2>3. QED
      BY <1>0, <2>1, <2>2 DEF Carries, PointsThere, Moving, FilesMoved, SettingsMoved
  <1>14. CASE StepFails
    <2>1. move'.at = "failed"
      BY <1>14, <1>6 DEF StepFails, Plans
    <2>2. QED
      BY <2>1 DEF Carries, PointsThere, Moving, FilesMoved, SettingsMoved
  <1>15. CASE Crash \/ \E ok \in BOOLEAN : EndMove(ok)
    BY <1>1, <1>15, <1>r DEF Crash, EndMove
  <1>16. CASE UNCHANGED drVars
    BY <1>0, <1>16
    DEF drVars, Carries, PointsThere, Moving, FilesMoved, SettingsMoved, Root
  <1>17. QED
    BY <1>2, <1>3, <1>4, <1>5, <1>7, <1>8, <1>9, <1>10, <1>11, <1>12, <1>13, <1>14, <1>15,
       <1>16 DEF DataRootNext

(* A change that reports success takes effect, with every file and the     *)
(* settings after a move; only its pointer may be outranked, by a marker   *)
(* beside the binary that could not be removed (data_root.cpp:230-262,     *)
(* data_root_migrate.cpp:389-399).                                         *)
THEOREM MoveFindsWorkHolds == DataRootSpec => []MoveFindsWork
  <1>1. CarriesInv => MoveFindsWork
    BY DEF CarriesInv, Carries, PointsThere, MoveFindsWork, Moving, FilesMoved, SettingsMoved
  <1>2. QED
    BY <1>1, CarriesInit, CarriesStep, PTL DEF DataRootSpec

-----------------------------------------------------------------------------
(* The links and the count of migrations.                                  *)
LinksTyped == links \in [Places -> Pointer] /\ moves \in 0 .. MaxMoves

LEMMA LinksInit == DataRootInit => LinksTyped
  BY DataRootAssumption DEF DataRootInit, LinksTyped, Pointer

LEMMA LinksStep ==
  ASSUME RootTyped, Underway, LinksTyped, [DataRootNext]_drVars PROVE LinksTyped'
  <1>0. NoPlace \in Pointer /\ Places \subseteq Pointer
    BY DEF Pointer
  <1>1. ASSUME UNCHANGED links,
               UNCHANGED moves \/ (moves < MaxMoves /\ moves' = moves + 1)
        PROVE  LinksTyped'
    BY <1>1, DataRootAssumption DEF LinksTyped
  <1>2. ASSUME move.at # "idle"
        PROVE  here \in Places /\ To \in Places /\ links[here] \in Pointer
    BY <1>2 DEF Underway, To, LinksTyped
  <1>3. CASE RenameData
    BY <1>0, <1>2, <1>3 DEF RenameData, Unmoved, LinksTyped
  <1>4. ASSUME NEW f \in Files, CopyFile(f) PROVE LinksTyped'
    BY <1>2, <1>4 DEF CopyFile, Unmoved, LinksTyped
  <1>5. ASSUME NEW p \in Pointer, RetargetLinks(p) PROVE LinksTyped'
    BY <1>5 DEF RetargetLinks, Unmoved, LinksTyped
  <1>6. ASSUME NEW to \in Places, NEW mode \in Modes, Continue(to, mode) \/ Command(to, mode)
        PROVE  LinksTyped'
    BY <1>1, <1>6 DEF Continue, Command, CanPlan
  <1>7. ASSUME NEW to \in Places, FinishSetup(to) PROVE LinksTyped'
    BY <1>1, <1>7 DEF FinishSetup, CanPlan
  <1>8. ASSUME NEW f \in Files, SaveFile(f) PROVE LinksTyped'
    BY <1>1, <1>8 DEF SaveFile
  <1>9. ASSUME NEW kept \in SUBSET Files, DropSource(kept) PROVE LinksTyped'
    BY <1>1, <1>9 DEF DropSource, Unmoved
  <1>10. ASSUME NEW ok \in BOOLEAN,
                MoveConfig(ok) \/ RebaseInstalls(ok) \/ WritePointer(ok) \/ EndMove(ok)
         PROVE  LinksTyped'
    BY <1>1, <1>10 DEF MoveConfig, RebaseInstalls, WritePointer, EndMove
  <1>11. ASSUME StartHub \/ CloseHub \/ SaveSettings \/ StepFails \/ Crash \/ UNCHANGED drVars
         PROVE  LinksTyped'
    BY <1>1, <1>11 DEF StartHub, CloseHub, SaveSettings, StepFails, Crash, Unmoved, drVars
  <1>12. QED
    BY <1>3, <1>4, <1>5, <1>6, <1>7, <1>8, <1>9, <1>10, <1>11 DEF DataRootNext

LEMMA RootTypes == SurvivalInv /\ LinksTyped => DataRootTypeOK
  BY DEF SurvivalInv, RootTyped, LinksTyped, DataRootTypeOK, Trees, Plans, Writes

(* A place, a pointer and a link are always of a folder the user chose or  *)
(* of the default one, wherever a migration stops.                         *)
THEOREM DataRootTyped == DataRootSpec => []DataRootTypeOK
  <1>1. SurvivalInv /\ LinksTyped /\ [DataRootNext]_drVars => SurvivalInv' /\ LinksTyped'
    BY SurvivalStep, LinksStep DEF SurvivalInv
  <1>2. QED
    BY <1>1, SurvivalInit, LinksInit, RootTypes, PTL DEF DataRootSpec

-----------------------------------------------------------------------------
(* The stores of releases.                                                 *)

LEMMA ReleasesFinite == IsFiniteSet(Releases)
  <1>1. 1 \in Int /\ MaxRelease \in Int
    BY VersionStoresAssumption
  <1>2. QED
    BY <1>1, FS_Interval DEF Releases

(* A set of releases has a greatest: of the sets of those above one of     *)
(* them, a smallest is empty.                                              *)
LEMMA GreatestIs ==
  ASSUME NEW S \in SUBSET Releases
  PROVE  /\ S = {} => Greatest(S) = 0
         /\ S # {} => Greatest(S) \in S /\ \A w \in S : w <= Greatest(S)
         /\ Greatest(S) \in 0 .. MaxRelease
  <1> DEFINE Above(v) == {w \in S : w > v}
             Aboves == {Above(v) : v \in S}
  <1>0. IsFiniteSet(S)
    BY ReleasesFinite, FS_Subset
  <1>1. S \subseteq Nat
    BY VersionStoresAssumption DEF Releases
  <1>2. ASSUME S # {} PROVE \E v \in S : \A w \in S : w <= v
    <2>1. Aboves \subseteq SUBSET S /\ Aboves # {}
      BY <1>2
    <2>2. IsWellFoundedOn(StrictSubsetOrdering(S), SUBSET S)
      BY <1>0, FS_StrictSubsetOrderingWellFounded, FS_FiniteSubsetsOfFinite
    <2> HIDE DEF Aboves
    <2>3. PICK A \in Aboves : \A B \in Aboves : ~ (<<B, A>> \in StrictSubsetOrdering(S))
      BY <2>1, <2>2, WFMin
    <2>4. PICK v \in S : A = Above(v)
      BY <2>3 DEF Aboves
    <2>5. ASSUME NEW w \in S, w > v PROVE FALSE
      <3>1. Above(w) \in Aboves
        BY DEF Aboves
      <3>2. v \in Nat /\ w \in Nat /\ \A x \in S : x \in Nat
        BY <1>1
      <3>3. w \in Above(v) /\ w \notin Above(w)
        BY <2>5, <3>2
      <3>4. \A x \in S : x > w => x > v
        BY <2>5, <3>2
      <3>5. Above(w) \subseteq Above(v)
        BY <3>4
      <3>6. <<Above(w), A>> \in StrictSubsetOrdering(S)
        BY <3>3, <3>5, <2>4 DEF StrictSubsetOrdering
      <3>7. QED
        BY <3>1, <3>6, <2>3
    <2>6. QED
      BY <1>1, <2>5
  <1>3. CASE S = {}
    BY <1>3, VersionStoresAssumption DEF Greatest
  <1>4. CASE S # {}
    <2> DEFINE g == CHOOSE v \in S : \A w \in S : w <= v
    <2>1. g \in S /\ \A w \in S : w <= g
      BY <1>2, <1>4
    <2>2. Greatest(S) = g
      BY <1>4 DEF Greatest
    <2> HIDE DEF g
    <2>3. g \in 0 .. MaxRelease
      BY <2>1, VersionStoresAssumption DEF Releases
    <2>4. QED
      BY <1>4, <2>1, <2>2, <2>3
  <1>5. QED
    BY <1>3, <1>4

(* A larger choice has a greatest that is no smaller.                      *)
LEMMA GreatestGrows ==
  ASSUME NEW S \in SUBSET Releases, NEW T \in SUBSET Releases, S \subseteq T
  PROVE  Greatest(S) <= Greatest(T)
  <1>1. CASE S = {}
    BY <1>1, GreatestIs, VersionStoresAssumption
  <1>2. CASE S # {}
    BY <1>2, GreatestIs
  <1>3. QED
    BY <1>1, <1>2

(* What there is, with its types.                                          *)
Holds == {"none", "part", "whole"}
Phases == {"idle", "download", "extract", "extracting", "probe", "clear", "rename", "prune", "done"}
VsTyped ==
    /\ published \in [Stores -> Releases] /\ bundled \in [Stores -> {0, 1}]
    /\ dir \in [Stores -> [Releases -> Holds]] /\ stage \in [Stores -> [Releases -> Holds]]
    /\ clearer \in [Stores -> [Releases -> Updaters \cup {"nobody"}]]
    /\ dev \subseteq Stores /\ session \in [Stores -> 0..MaxRelease] /\ raced \subseteq Stores
    /\ place \in [Updaters -> Phases]
    /\ task \in [Updaters -> (Stores \cup {"none"}) \X (0..MaxRelease)]
    /\ \A u \in Updaters : place[u] # "idle" => Store(u) \in Stores /\ Release(u) \in Releases

(* What is in a store, and what will be, was published; a session uses no  *)
(* developer's build; a store two updaters are at work on is noted.        *)
Before == {"download", "extract", "extracting", "probe", "clear", "rename"}
NothingNewer == \A s \in Stores : \A v \in Releases : dir[s][v] # "none" => v <= published[s]
Offered == \A u \in Updaters : place[u] \in Before => Release(u) <= published[Store(u)]
DevUnused == \A s \in dev : session[s] = 0
RacesNoted ==
    \A u \in Updaters : \A w \in Updaters \ {u} :
        place[u] # "idle" /\ place[w] # "idle" /\ Store(u) = Store(w) => Store(u) \in raced

(* What an updater that is alone at its store relies on.  Until the new    *)
(* release is in place, the place it will take holds nothing a start could *)
(* pick; what was extracted is whole when it is moved in; nothing in the   *)
(* store is newer.                                                         *)
PlaceIsFree(u) ==
    place[u] \in Before /\ Store(u) \notin dev => dir[Store(u)][Release(u)] # "whole"
Staged(u) ==
    /\ place[u] = "extracting" =>
         stage[Store(u)][Release(u)] = "part" /\ clearer[Store(u)][Release(u)] = u
    /\ place[u] \in {"probe", "clear", "rename"} => stage[Store(u)][Release(u)] = "whole"
    /\ place[u] = "prune" => dir[Store(u)][Release(u)] = "whole"
    /\ place[u] \in Before \cup {"prune"} =>
         \A v \in Releases : dir[Store(u)][v] # "none" => v <= Release(u)
AloneSafe == \A u \in Updaters : Store(u) \notin raced => PlaceIsFree(u) /\ Staged(u)

VersionsInv ==
    VsTyped /\ NothingNewer /\ Offered /\ DevUnused /\ RacesNoted /\ AloneSafe

LEMMA UsableIsReleases == \A s, abi : Usable(s, abi) \in SUBSET Releases
  BY DEF Usable

LEMMA VersionsInit == VersionStoresInit => VersionsInv
  BY VersionStoresAssumption
  DEF VersionStoresInit, VersionsInv, VsTyped, NothingNewer, Offered, DevUnused, RacesNoted,
      AloneSafe, PlaceIsFree, Staged, Holds, Phases, Releases, Before, Store, Release

(* A release that is offered is not installed, unless a developer's build  *)
(* is chosen.                                                              *)
LEMMA OfferedIsNotThere ==
  ASSUME VsTyped, NEW s \in Stores, Contract(s, published[s]) = Wanted(s),
         published[s] > Resolve(s)
  PROVE  dir[s][published[s]] # "whole"
  <1> SUFFICES ASSUME dir[s][published[s]] = "whole" PROVE FALSE
    OBVIOUS
  <1>1. published[s] \in Releases
    BY DEF VsTyped
  <1>2. published[s] \in Usable(s, Wanted(s))
    BY <1>1 DEF Usable
  <1>3. published[s] <= Resolve(s) /\ Resolve(s) \in 0 .. MaxRelease
    BY <1>2, UsableIsReleases, GreatestIs DEF Resolve
  <1>4. QED
    BY <1>1, <1>3, VersionStoresAssumption DEF Releases

(* Any number of updaters keep the types.                                  *)
LEMMA VsTypedStep == VsTyped /\ [VersionStoresNext]_vsVars => VsTyped'
  <1> SUFFICES ASSUME VsTyped, [VersionStoresNext]_vsVars PROVE VsTyped'
    OBVIOUS
  <1>0. VsTyped
    OBVIOUS
  <1> USE VersionStoresAssumption DEF VsTyped
  <1>1. ASSUME NEW u \in Updaters, NEW s \in Stores, Check(u, s) PROVE VsTyped'
    BY <1>0, <1>1 DEF Check, world, store, Releases, Phases, Store, Release
  <1>2. ASSUME NEW u \in Updaters, NEW ok \in BOOLEAN, Fetch(u, ok) PROVE VsTyped'
    BY <1>0, <1>2 DEF Fetch, Goto, world, store, Phases, Store, Release
  <1>3. ASSUME NEW u \in Updaters, BeginExtract(u) PROVE VsTyped'
    BY <1>0, <1>3 DEF BeginExtract, Put, Goto, world, Holds, Phases, Store, Release
  <1>4. ASSUME NEW u \in Updaters, EndExtract(u) PROVE VsTyped'
    BY <1>0, <1>4 DEF EndExtract, Put, Goto, world, Holds, Phases, Store, Release
  <1>5. ASSUME NEW u \in Updaters, Discard(u) \/ MoveFails(u) PROVE VsTyped'
    <2>1. /\ place[u] # "idle" /\ stage' = Put(stage, u, "none") /\ Goto(u, "idle")
          /\ UNCHANGED <<world, dir, clearer>>
      BY <1>5 DEF Discard, MoveFails
    <2>2. QED
      BY <1>0, <2>1 DEF Put, Goto, world, Holds, Phases, Store, Release
  <1>6. ASSUME NEW u \in Updaters, ProbeExtracted(u) PROVE VsTyped'
    BY <1>0, <1>6 DEF ProbeExtracted, Goto, world, store, Phases, Store, Release
  <1>7. ASSUME NEW u \in Updaters, ClearPlace(u) PROVE VsTyped'
    BY <1>0, <1>7 DEF ClearPlace, Put, Goto, world, Holds, Phases, Store, Release
  <1>8. ASSUME NEW u \in Updaters, MoveIn(u) PROVE VsTyped'
    BY <1>0, <1>8 DEF MoveIn, Put, Goto, world, Holds, Phases, Store, Release
  <1>9. ASSUME NEW u \in Updaters, PageDone(u) PROVE VsTyped'
    BY <1>0, <1>9 DEF PageDone, Goto, store, Phases, Store, Release
  <1>10. ASSUME NEW u \in Updaters, NEW rest \in {"none", "part"}, Prune(u, rest) PROVE VsTyped'
    BY <1>0, <1>10 DEF Prune, Goto, world, Holds, Phases, Store, Release
  <1>11. ASSUME NEW s \in Stores, Announce(s) PROVE VsTyped'
    BY <1>0, <1>11 DEF Announce, store, Releases, Store, Release
  <1>12. ASSUME StartSession PROVE VsTyped'
    <2>1. \A s \in Stores : Resolve(s) \in 0 .. MaxRelease
      BY UsableIsReleases, GreatestIs DEF Resolve
    <2>2. session' \in [Stores -> 0 .. MaxRelease]
      BY <1>12, <2>1 DEF StartSession
    <2>3. UNCHANGED <<published, bundled, dev, dir, stage, clearer, place, task, raced>>
      BY <1>12 DEF StartSession, store
    <2> HIDE VersionStoresAssumption
    <2>4. QED
      BY <1>0, <2>2, <2>3 DEF Store, Release
  <1>13. EndSession => VsTyped'
    BY <1>0 DEF EndSession, NoSession, store, Store, Release
  <1>14. Exit => VsTyped'
    BY <1>0 DEF Exit, Stop, NoSession, store, Store, Release, Phases
  <1>15. CommandDies => VsTyped'
    BY <1>0 DEF CommandDies, Stop, world, store, Store, Release, Phases
  <1>16. ASSUME NEW s \in Stores, PickDev(s) PROVE VsTyped'
    BY <1>0, <1>16 DEF PickDev, Stop, NoSession, store, Store, Release, Phases
  <1>17. UNCHANGED vsVars => VsTyped'
    BY <1>0 DEF vsVars, Store, Release
  <1>18. QED
    BY <1>1, <1>2, <1>3, <1>4, <1>5, <1>6, <1>7, <1>8, <1>9, <1>10, <1>11, <1>12, <1>13,
       <1>14, <1>15, <1>16, <1>17 DEF VersionStoresNext, UpdateStep

(* An updater that is stopped has nothing to do; the others go on.         *)
LEMMA StoppedOrKept ==
  ASSUME VsTyped, NEW gone, Stop(gone), NEW u \in Updaters, place'[u] # "idle"
  PROVE  place'[u] = place[u] /\ Store(u)' = Store(u) /\ Release(u)' = Release(u) /\ u \notin gone
  BY DEF VsTyped, Stop, Store, Release

(* What a step of one updater leaves of the others: their tasks, and every *)
(* store but its own.                                                      *)
LeavesOthers(u) ==
    /\ raced' = raced /\ published' = published /\ session' = session /\ bundled' = bundled
    /\ dev' \subseteq dev /\ dev \ {Store(u)} \subseteq dev'
    /\ place'[u] # "idle" => Store(u)' = Store(u) /\ Release(u)' = Release(u)
    /\ \A w \in Updaters \ {u} :
         place'[w] = place[w] /\ Store(w)' = Store(w) /\ Release(w)' = Release(w)
    /\ \A s \in Stores \ {Store(u)} :
         dir'[s] = dir[s] /\ stage'[s] = stage[s] /\ clearer'[s] = clearer[s]

LEMMA UpdaterMoves ==
  ASSUME VsTyped, NEW u \in Updaters, NEW where \in Phases, Goto(u, where)
  PROVE  /\ raced' = raced /\ place'[u] = where
         /\ where # "idle" => Store(u)' = Store(u) /\ Release(u)' = Release(u)
         /\ \A w \in Updaters \ {u} :
              place'[w] = place[w] /\ Store(w)' = Store(w) /\ Release(w)' = Release(w)
  BY DEF VsTyped, Goto, Store, Release

LEMMA LeavesOthersStep ==
  ASSUME VsTyped, NEW u \in Updaters, place[u] # "idle", UpdateStep(u)
  PROVE  LeavesOthers(u)
  <1>1. ASSUME NEW where \in Phases, Goto(u, where), UNCHANGED <<world, store>>
        PROVE  LeavesOthers(u)
    BY <1>1, UpdaterMoves DEF LeavesOthers, world, store
  <1>2. ASSUME NEW ok \in BOOLEAN, Fetch(u, ok) PROVE LeavesOthers(u)
    BY <1>1, <1>2 DEF Fetch, Phases
  <1>3. ASSUME ProbeExtracted(u) PROVE LeavesOthers(u)
    BY <1>1, <1>3 DEF ProbeExtracted, Phases
  <1>4. Store(u) \in Stores /\ Release(u) \in Releases
    BY DEF VsTyped
  <1>5. ASSUME NEW where \in Phases, Goto(u, where), UNCHANGED world,
               \A s \in Stores \ {Store(u)} :
                 dir'[s] = dir[s] /\ stage'[s] = stage[s] /\ clearer'[s] = clearer[s]
        PROVE  LeavesOthers(u)
    BY <1>5, UpdaterMoves DEF LeavesOthers, world
  <1>6. ASSUME NEW f \in [Stores -> [Releases -> Holds]], NEW x,
               NEW s \in Stores \ {Store(u)}
        PROVE  Put(f, u, x)[s] = f[s]
    BY <1>4 DEF Put
  <1>6a. ASSUME NEW x, NEW s \in Stores \ {Store(u)}
         PROVE  Put(clearer, u, x)[s] = clearer[s]
    BY <1>4 DEF Put, VsTyped
  <1>7. ASSUME BeginExtract(u) PROVE LeavesOthers(u)
    <2>1. /\ Goto(u, "extracting") /\ UNCHANGED world /\ dir' = dir
          /\ stage' = Put(stage, u, "part") /\ clearer' = Put(clearer, u, u)
      BY <1>7 DEF BeginExtract
    <2>2. QED
      BY <1>5, <1>6, <1>6a, <2>1 DEF Phases, VsTyped
  <1>8. ASSUME EndExtract(u) PROVE LeavesOthers(u)
    <2>1. /\ Goto(u, "probe") /\ UNCHANGED world /\ dir' = dir
          /\ stage' = Put(stage, u, "whole") \/ stage' = Put(stage, u, "part")
          /\ clearer' = Put(clearer, u, "nobody") \/ clearer' = clearer
      BY <1>8 DEF EndExtract
    <2>2. QED
      BY <1>5, <1>6, <1>6a, <2>1 DEF Phases, VsTyped
  <1>9. ASSUME Discard(u) \/ MoveFails(u) PROVE LeavesOthers(u)
    BY <1>5, <1>6, <1>9 DEF Discard, MoveFails, Phases, VsTyped
  <1>10. ASSUME ClearPlace(u) PROVE LeavesOthers(u)
    BY <1>5, <1>6, <1>10 DEF ClearPlace, Phases, VsTyped
  <1>11. ASSUME MoveIn(u) PROVE LeavesOthers(u)
    BY <1>5, <1>6, <1>11 DEF MoveIn, Phases, VsTyped
  <1>12. ASSUME NEW rest \in {"none", "part"}, Prune(u, rest) PROVE LeavesOthers(u)
    <2>1. Goto(u, "done") \/ Goto(u, "idle")
      BY <1>12 DEF Prune
    <2>2. UNCHANGED <<world, stage, clearer>>
      BY <1>12 DEF Prune
    <2>3. \A s \in Stores \ {Store(u)} : dir'[s] = dir[s]
      BY <1>4, <1>12 DEF Prune, VsTyped
    <2>4. QED
      BY <1>5, <2>1, <2>2, <2>3 DEF Phases
  <1>13. ASSUME PageDone(u) PROVE LeavesOthers(u)
    <2>1. Goto(u, "idle") /\ dev' = dev \ {Store(u)} /\ UNCHANGED <<published, bundled, session, store>>
      BY <1>13 DEF PageDone
    <2>2. QED
      BY <2>1, UpdaterMoves DEF LeavesOthers, store, Phases
  <1>14. ~ \E s \in Stores : Check(u, s)
    BY DEF Check
  <1>15. QED
    BY <1>2, <1>3, <1>7, <1>8, <1>9, <1>10, <1>11, <1>12, <1>13, <1>14 DEF UpdateStep

(* So another updater that is alone at its store is as safe as before.     *)
LEMMA OthersSafe ==
  ASSUME VersionsInv, VsTyped', NEW u \in Updaters, place[u] # "idle", UpdateStep(u),
         NEW w \in Updaters \ {u}, Store(w)' \notin raced'
  PROVE  PlaceIsFree(w)' /\ Staged(w)'
  <1>0. VsTyped /\ RacesNoted /\ AloneSafe /\ LeavesOthers(u)
    BY LeavesOthersStep DEF VersionsInv
  <1>1. /\ place'[w] = place[w] /\ Store(w)' = Store(w) /\ Release(w)' = Release(w)
        /\ Store(w) \notin raced /\ dev \ {Store(u)} \subseteq dev'
        /\ \A s \in Stores \ {Store(u)} :
             dir'[s] = dir[s] /\ stage'[s] = stage[s] /\ clearer'[s] = clearer[s]
    BY <1>0 DEF LeavesOthers
  <1>2. PlaceIsFree(w) /\ Staged(w)
    BY <1>0, <1>1 DEF AloneSafe
  <1>3. CASE place[w] = "idle"
    BY <1>1, <1>3 DEF PlaceIsFree, Staged, Before
  <1>4. CASE place[w] # "idle"
    <2>1. Store(w) \in Stores \ {Store(u)} /\ Release(w) \in Releases
      BY <1>0, <1>1, <1>4 DEF VsTyped, RacesNoted
    <2>2. /\ dir'[Store(w)] = dir[Store(w)] /\ stage'[Store(w)] = stage[Store(w)]
          /\ clearer'[Store(w)] = clearer[Store(w)]
          /\ Store(w) \notin dev' => Store(w) \notin dev
      BY <1>1, <2>1
    <2>3. QED
      BY <1>1, <1>2, <2>2 DEF PlaceIsFree, Staged
  <1>5. QED
    BY <1>3, <1>4

(* An updater's own steps, alone at its store.                             *)
LEMMA OwnSafe ==
  ASSUME VersionsInv, VsTyped', NEW u \in Updaters, place[u] # "idle", UpdateStep(u),
         Store(u)' \notin raced'
  PROVE  PlaceIsFree(u)' /\ Staged(u)'
  <1>0. VsTyped /\ AloneSafe /\ LeavesOthers(u) /\ Store(u) \in Stores /\ Release(u) \in Releases
    BY LeavesOthersStep DEF VersionsInv, VsTyped
  <1>1. ASSUME place'[u] \in {"idle", "done"} PROVE PlaceIsFree(u)' /\ Staged(u)'
    BY <1>1 DEF PlaceIsFree, Staged, Before
  <1>2. SUFFICES ASSUME place'[u] \notin {"idle", "done"} PROVE PlaceIsFree(u)' /\ Staged(u)'
    BY <1>1
  <1>3. Store(u)' = Store(u) /\ Release(u)' = Release(u) /\ Store(u) \notin raced
    BY <1>0, <1>2 DEF LeavesOthers
  <1>4. PlaceIsFree(u) /\ Staged(u)
    BY <1>0, <1>3 DEF AloneSafe
  <1>5. ASSUME UNCHANGED <<dir, dev>>, place[u] \in Before, place'[u] \in Before,
               place'[u] = "extracting" =>
                 stage'[Store(u)][Release(u)] = "part" /\ clearer'[Store(u)][Release(u)] = u,
               place'[u] \in {"probe", "clear", "rename"} => stage'[Store(u)][Release(u)] = "whole"
        PROVE  PlaceIsFree(u)' /\ Staged(u)'
    BY <1>3, <1>4, <1>5 DEF PlaceIsFree, Staged, Before
  <1>6. ASSUME NEW ok \in BOOLEAN, Fetch(u, ok) PROVE PlaceIsFree(u)' /\ Staged(u)'
    <2>1. place[u] = "download" /\ place'[u] = "extract" /\ UNCHANGED <<dir, dev>>
      BY <1>0, <1>2, <1>6 DEF Fetch, Goto, VsTyped, world, store
    <2>2. QED
      BY <1>5, <2>1 DEF Before
  <1>7. ASSUME BeginExtract(u) PROVE PlaceIsFree(u)' /\ Staged(u)'
    <2>1. /\ place[u] = "extract" /\ place'[u] = "extracting" /\ UNCHANGED <<dir, dev>>
          /\ stage'[Store(u)][Release(u)] = "part" /\ clearer'[Store(u)][Release(u)] = u
      BY <1>0, <1>7 DEF BeginExtract, Put, Goto, VsTyped, world
    <2>2. QED
      BY <1>5, <2>1 DEF Before
  <1>8. ASSUME EndExtract(u) PROVE PlaceIsFree(u)' /\ Staged(u)'
    <2>1. /\ place[u] = "extracting" /\ stage[Store(u)][Release(u)] = "part"
          /\ clearer[Store(u)][Release(u)] = u
      BY <1>4, <1>8 DEF EndExtract, Staged
    <2>2. /\ place'[u] = "probe" /\ UNCHANGED <<dir, dev>>
          /\ stage'[Store(u)][Release(u)] = "whole"
      BY <1>0, <1>8, <2>1 DEF EndExtract, Put, Goto, VsTyped, world
    <2>3. QED
      BY <1>5, <2>1, <2>2 DEF Before
  <1>9. ASSUME ProbeExtracted(u) PROVE PlaceIsFree(u)' /\ Staged(u)'
    <2>1. /\ place[u] = "probe" /\ place'[u] = "clear" /\ UNCHANGED <<dir, dev, stage>>
      BY <1>0, <1>9 DEF ProbeExtracted, Goto, VsTyped, world, store
    <2>2. QED
      BY <1>4, <1>5, <2>1 DEF Before, Staged
  <1>10. ASSUME ClearPlace(u) PROVE PlaceIsFree(u)' /\ Staged(u)'
    <2>1. /\ place[u] = "clear" /\ place'[u] = "rename" /\ UNCHANGED <<dev, stage>>
      BY <1>0, <1>10 DEF ClearPlace, Goto, VsTyped, world
    <2>2. /\ dir'[Store(u)][Release(u)] = "none"
          /\ \A v \in Releases \ {Release(u)} : dir'[Store(u)][v] = dir[Store(u)][v]
      BY <1>0, <1>10 DEF ClearPlace, Put, VsTyped
    <2>3. QED
      BY <1>3, <1>4, <2>1, <2>2 DEF PlaceIsFree, Staged, Before
  <1>11. ASSUME MoveIn(u) PROVE PlaceIsFree(u)' /\ Staged(u)'
    <2>1. /\ place[u] = "rename" /\ place'[u] = "prune" /\ stage[Store(u)][Release(u)] = "whole"
      BY <1>0, <1>4, <1>11 DEF MoveIn, Goto, VsTyped, Staged
    <2>2. /\ dir'[Store(u)][Release(u)] = "whole"
          /\ \A v \in Releases \ {Release(u)} : dir'[Store(u)][v] = dir[Store(u)][v]
      BY <1>0, <1>11, <2>1 DEF MoveIn, Put, VsTyped
    <2>3. Release(u) <= Release(u)
      BY <1>0, VersionStoresAssumption DEF Releases
    <2>4. QED
      BY <1>3, <1>4, <2>1, <2>2, <2>3 DEF PlaceIsFree, Staged, Before
  <1>12. ASSUME \/ Discard(u) \/ MoveFails(u) \/ PageDone(u)
                \/ \E rest \in {"none", "part"} : Prune(u, rest)
         PROVE  FALSE
    BY <1>0, <1>2, <1>12 DEF Discard, MoveFails, PageDone, Prune, Goto, VsTyped
  <1>13. ~ \E s \in Stores : Check(u, s)
    BY DEF Check
  <1>14. QED
    BY <1>6, <1>7, <1>8, <1>9, <1>10, <1>11, <1>12, <1>13 DEF UpdateStep

(* A new update: alone, or noted as a race.                                *)
LEMMA CheckSafe ==
  ASSUME VersionsInv, NEW u \in Updaters, NEW s \in Stores, Check(u, s)
  PROVE  NothingNewer' /\ Offered' /\ DevUnused' /\ RacesNoted' /\ AloneSafe'
  <1>0. VsTyped /\ NothingNewer /\ Offered /\ DevUnused /\ RacesNoted /\ AloneSafe
    BY DEF VersionsInv
  <1>1. /\ UNCHANGED <<published, bundled, dev, session, dir, stage, clearer>>
        /\ published[s] \in Releases /\ place[u] = "idle" /\ place'[u] = "download"
        /\ Store(u)' = s /\ Release(u)' = published[s]
        /\ raced' = IF Meets(u, s) THEN raced \cup {s} ELSE raced \ {s}
        /\ \A w \in Updaters \ {u} :
             place'[w] = place[w] /\ Store(w)' = Store(w) /\ Release(w)' = Release(w)
    BY <1>0 DEF Check, world, store, VsTyped, Store, Release
  <1>2. NothingNewer' /\ DevUnused'
    BY <1>0, <1>1 DEF NothingNewer, DevUnused
  <1>3. Offered'
    <2>1. published[s] <= published[s]
      BY <1>1, VersionStoresAssumption DEF Releases
    <2>2. QED
      BY <1>0, <1>1, <2>1 DEF Offered
  <1>4. ASSUME NEW w \in Updaters \ {u}, place[w] # "idle", Store(w) = s PROVE s \in raced'
    BY <1>1, <1>4 DEF Meets
  <1>5. RacesNoted'
    <2> SUFFICES ASSUME NEW v \in Updaters, NEW w \in Updaters \ {v}, place'[v] # "idle",
                        place'[w] # "idle", Store(v)' = Store(w)'
                 PROVE  Store(v)' \in raced'
      BY DEF RacesNoted
    <2>1. CASE v = u
      BY <1>1, <1>4, <2>1
    <2>2. CASE w = u
      BY <1>1, <1>4, <2>2
    <2>3. CASE v # u /\ w # u
      <3>1. Store(v) \in raced
        BY <1>0, <1>1, <2>3 DEF RacesNoted
      <3>2. QED
        BY <1>1, <1>4, <2>3, <3>1
    <2>4. QED
      BY <2>1, <2>2, <2>3
  <1>6. ASSUME NEW w \in Updaters \ {u}, Store(w)' \notin raced' PROVE PlaceIsFree(w)' /\ Staged(w)'
    <2>1. CASE place[w] = "idle"
      BY <1>1, <2>1 DEF PlaceIsFree, Staged, Before
    <2>2. CASE place[w] # "idle"
      <3>1. Store(w) \notin raced
        BY <1>1, <1>4, <1>6, <2>2
      <3>2. QED
        BY <1>0, <1>1, <3>1 DEF AloneSafe, PlaceIsFree, Staged
    <2>3. QED
      BY <2>1, <2>2
  <1>7. PlaceIsFree(u)' /\ Staged(u)'
    <2>1. s \notin dev => dir[s][published[s]] # "whole"
      BY <1>0, OfferedIsNotThere DEF Check, Newer
    <2>2. QED
      BY <1>0, <1>1, <2>1 DEF PlaceIsFree, Staged, NothingNewer, Before
  <1>8. AloneSafe'
    BY <1>6, <1>7 DEF AloneSafe
  <1>9. QED
    BY <1>2, <1>3, <1>5, <1>8

LEMMA UpdateSafe ==
  ASSUME VersionsInv, VsTyped', NEW u \in Updaters, place[u] # "idle", UpdateStep(u)
  PROVE  NothingNewer' /\ Offered' /\ DevUnused' /\ RacesNoted' /\ AloneSafe'
  <1>0. /\ VsTyped /\ NothingNewer /\ Offered /\ DevUnused /\ RacesNoted /\ LeavesOthers(u)
        /\ Store(u) \in Stores /\ Release(u) \in Releases
    BY LeavesOthersStep DEF VersionsInv, VsTyped
  <1>1. AloneSafe'
    BY OthersSafe, OwnSafe DEF AloneSafe
  <1>2. DevUnused' /\ RacesNoted'
    BY <1>0 DEF DevUnused, RacesNoted, LeavesOthers
  <1>3. place'[u] \in Before => place[u] \in Before
    BY <1>0
    DEF UpdateStep, Check, Fetch, BeginExtract, EndExtract, Discard, ProbeExtracted, ClearPlace,
        MoveIn, MoveFails, PageDone, Prune, Goto, VsTyped, Before
  <1>4. Offered'
    <2> SUFFICES ASSUME NEW w \in Updaters, place'[w] \in Before
                 PROVE  Release(w)' <= published'[Store(w)']
      BY DEF Offered
    <2>1. place[w] \in Before /\ Release(w)' = Release(w) /\ Store(w)' = Store(w)
      BY <1>0, <1>3 DEF LeavesOthers, Before
    <2>2. QED
      BY <1>0, <2>1 DEF LeavesOthers, Offered
  <1>5. NothingNewer'
    <2>1. CASE MoveIn(u)
      <3>1. Release(u) <= published[Store(u)]
        BY <1>0, <2>1 DEF MoveIn, Offered, Before
      <3>2. \A s \in Stores : \A v \in Releases :
              <<s, v>> # <<Store(u), Release(u)>> => dir'[s][v] = dir[s][v]
        BY <1>0, <2>1 DEF MoveIn, Put, VsTyped
      <3>3. QED
        BY <1>0, <3>1, <3>2 DEF LeavesOthers, NothingNewer
    <2>2. CASE ClearPlace(u)
      <3>1. \A s \in Stores : \A v \in Releases : dir'[s][v] \in {dir[s][v], "none"}
        BY <1>0, <2>2 DEF ClearPlace, Put, VsTyped
      <3>2. QED
        BY <1>0, <3>1 DEF LeavesOthers, NothingNewer
    <2>3. ASSUME NEW rest \in {"none", "part"}, Prune(u, rest) PROVE NothingNewer'
      <3>1. \A s \in Stores : \A v \in Releases : dir'[s][v] # "none" => dir[s][v] # "none"
        BY <1>0, <2>3 DEF Prune, VsTyped, Present
      <3>2. QED
        BY <1>0, <3>1 DEF LeavesOthers, NothingNewer
    <2>4. ASSUME dir' = dir PROVE NothingNewer'
      BY <1>0, <2>4 DEF LeavesOthers, NothingNewer
    <2>5. QED
      BY <2>1, <2>2, <2>3, <2>4
      DEF UpdateStep, Check, Fetch, BeginExtract, EndExtract, Discard, ProbeExtracted,
          MoveFails, PageDone, store
  <1>6. QED
    BY <1>1, <1>2, <1>4, <1>5

LEMMA VersionsStep == VersionsInv /\ [VersionStoresNext]_vsVars => VersionsInv'
  <1> SUFFICES ASSUME VersionsInv, [VersionStoresNext]_vsVars PROVE VersionsInv'
    OBVIOUS
  <1>0. VsTyped /\ NothingNewer /\ Offered /\ DevUnused /\ RacesNoted /\ AloneSafe
    BY DEF VersionsInv
  <1>1. VsTyped'
    BY VsTypedStep DEF VersionsInv
  <1> SUFFICES NothingNewer' /\ Offered' /\ DevUnused' /\ RacesNoted' /\ AloneSafe'
    BY <1>1 DEF VersionsInv
  <1>2. ASSUME UNCHANGED <<dir, stage, clearer, dev, place, task, raced>>
        PROVE  RacesNoted' /\ AloneSafe'
    BY <1>0, <1>2 DEF RacesNoted, AloneSafe, PlaceIsFree, Staged, Store, Release
  <1>3. ASSUME NEW u \in Updaters, UpdateStep(u)
        PROVE  NothingNewer' /\ Offered' /\ DevUnused' /\ RacesNoted' /\ AloneSafe'
    <2>1. CASE place[u] # "idle"
      BY <1>1, <1>3, <2>1, UpdateSafe
    <2>2. CASE place[u] = "idle"
      <3>1. PICK s \in Stores : Check(u, s)
        BY <1>3, <2>2
        DEF UpdateStep, Fetch, BeginExtract, EndExtract, Discard, ProbeExtracted, ClearPlace,
            MoveIn, MoveFails, PageDone, Prune
      <3>2. QED
        BY <3>1, CheckSafe
    <2>3. QED
      BY <2>1, <2>2
  <1>4. ASSUME NEW s \in Stores, Announce(s)
        PROVE  NothingNewer' /\ Offered' /\ DevUnused' /\ RacesNoted' /\ AloneSafe'
    <2>1. UNCHANGED <<dir, stage, clearer, dev, session, place, task, raced>>
      BY <1>4 DEF Announce, store
    <2>2. \A t \in Stores : published[t] \in Nat /\ published'[t] \in Nat
                            /\ published[t] <= published'[t]
      BY <1>0, <1>4, VersionStoresAssumption DEF Announce, VsTyped, Releases
    <2>3. NothingNewer'
      BY <1>0, <2>1, <2>2 DEF NothingNewer, Releases
    <2>4. Offered'
      <3> SUFFICES ASSUME NEW u \in Updaters, place[u] \in Before
                   PROVE  Release(u) <= published'[Store(u)]
        BY <2>1 DEF Offered, Store, Release
      <3>1. Store(u) \in Stores /\ Release(u) \in Nat /\ Release(u) <= published[Store(u)]
        BY <1>0, VersionStoresAssumption DEF VsTyped, Offered, Before, Releases
      <3>2. QED
        BY <2>2, <3>1
    <2>5. QED
      BY <1>0, <1>2, <2>1, <2>3, <2>4 DEF DevUnused
  <1>5. CASE StartSession \/ EndSession
    <2>1. UNCHANGED <<published, dir, stage, clearer, dev, place, task, raced>>
      BY <1>5 DEF StartSession, EndSession, store
    <2>2. \A s \in dev : session'[s] = 0
      BY <1>0, <1>5 DEF StartSession, EndSession, Installed, NoSession, VsTyped
    <2>3. QED
      BY <1>0, <1>2, <2>1, <2>2 DEF NothingNewer, Offered, DevUnused, Store, Release
  <1>6. CASE Exit \/ CommandDies \/ \E s \in Stores : PickDev(s)
    <2>1. /\ UNCHANGED <<published, dir, stage, clearer>>
          /\ raced \subseteq raced' /\ \E gone : Stop(gone)
      BY <1>6 DEF Exit, CommandDies, PickDev, world, store
    <2>2. \A u \in Updaters : place'[u] # "idle" =>
            place'[u] = place[u] /\ Store(u)' = Store(u) /\ Release(u)' = Release(u)
      BY <1>0, <2>1, StoppedOrKept
    <2>3. NothingNewer' /\ Offered' /\ RacesNoted'
      BY <1>0, <2>1, <2>2 DEF NothingNewer, Offered, RacesNoted, Before
    <2>4. DevUnused'
      BY <1>0, <1>1, <1>6 DEF Exit, CommandDies, PickDev, NoSession, world, DevUnused, VsTyped
    <2>5. ASSUME NEW u \in Updaters, place'[u] # "idle", Store(u)' \notin raced'
          PROVE  Store(u) \in dev => Store(u)' \in dev'
      <3>1. CASE Exit \/ CommandDies
        BY <2>2, <2>5, <3>1 DEF Exit, CommandDies, world
      <3>2. ASSUME NEW s \in Stores, PickDev(s) PROVE Store(u) \in dev => Store(u)' \in dev'
        <4>1. Stop(App)
          BY <3>2 DEF PickDev
        <4>2. u \notin App /\ place[u] # "idle" /\ Store(u)' = Store(u)
          BY <1>0, <2>2, <2>5, <4>1, StoppedOrKept
        <4>3. Store(u) # s
          BY <2>5, <3>2, <4>2 DEF PickDev
        <4>4. dev' = dev \ {s} \/ dev' = dev \cup {s}
          BY <3>2 DEF PickDev
        <4>5. QED
          BY <4>2, <4>3, <4>4
      <3>3. QED
        BY <1>6, <3>1, <3>2
    <2>6. ASSUME NEW u \in Updaters, Store(u)' \notin raced'
          PROVE  PlaceIsFree(u)' /\ Staged(u)'
      <3>1. CASE place'[u] = "idle"
        BY <3>1 DEF PlaceIsFree, Staged, Before
      <3>2. CASE place'[u] # "idle"
        <4>1. PlaceIsFree(u) /\ Staged(u)
          BY <1>0, <2>1, <2>2, <2>6, <3>2 DEF AloneSafe
        <4>2. PlaceIsFree(u)'
          BY <2>1, <2>2, <2>5, <2>6, <3>2, <4>1 DEF PlaceIsFree
        <4>3. Staged(u)'
          BY <2>1, <2>2, <3>2, <4>1 DEF Staged
        <4>4. QED
          BY <4>2, <4>3
      <3>3. QED
        BY <3>1, <3>2
    <2>7. QED
      BY <2>3, <2>4, <2>6 DEF AloneSafe
  <1>7. CASE UNCHANGED vsVars
    BY <1>0, <1>2, <1>7 DEF vsVars, NothingNewer, Offered, DevUnused, Store, Release
  <1>8. QED
    BY <1>3, <1>4, <1>5, <1>6, <1>7 DEF VersionStoresNext

LEMMA PlacesChanged ==
  ASSUME VsTyped, NEW s \in Stores, NEW u \in Updaters,
         ClearPlace(u) \/ MoveIn(u), NEW v \in Releases, dir'[s][v] # dir[s][v]
  PROVE  /\ s = Store(u) /\ v = Release(u) /\ place[u] \in Before
  BY DEF VsTyped, ClearPlace, MoveIn, Put, Before

(* Only pruning takes a release in use from a store that is not raced for, *)
(* and only an old one.                                                    *)
LEMMA NotOverInUseStep ==
  VersionsInv /\ [VersionStoresNext]_vsVars => \A s \in Stores \ raced : KeptInUse(s)
  <1> SUFFICES ASSUME VersionsInv, [VersionStoresNext]_vsVars, NEW s \in Stores \ raced,
                      session[s] # 0, dir[s][session[s]] = "whole",
                      dir'[s][session[s]] # dir[s][session[s]]
               PROVE  Cardinality({v \in Releases : v > session[s] /\ dir[s][v] # "none"}) >= 2
    BY DEF KeptInUse
  <1>0. VsTyped /\ AloneSafe /\ DevUnused /\ session[s] \in Releases
    BY VersionStoresAssumption DEF VersionsInv, VsTyped, Releases
  <1>1. ASSUME NEW u \in Updaters, ClearPlace(u) \/ MoveIn(u) PROVE FALSE
    <2>1. s = Store(u) /\ session[s] = Release(u) /\ place[u] \in Before
      BY <1>0, <1>1, PlacesChanged
    <2>2. s \notin dev
      BY <1>0 DEF DevUnused
    <2>3. QED
      BY <1>0, <2>1, <2>2 DEF AloneSafe, PlaceIsFree
  <1>2. ASSUME NEW u \in Updaters, NEW rest \in {"none", "part"}, Prune(u, rest)
        PROVE  Cardinality({v \in Releases : v > session[s] /\ dir[s][v] # "none"}) >= 2
    <2> DEFINE newer == {w \in Present(s) : w > session[s]}
    <2>1. session[s] \in Present(s) \ Kept(s)
      BY <1>0, <1>2 DEF Prune, VsTyped
    <2>2. ~(Cardinality(newer) < 2)
      BY <2>1 DEF Kept
    <2>3. newer = {v \in Releases : v > session[s] /\ dir[s][v] # "none"}
      BY DEF Present
    <2>4. newer \in SUBSET Releases
      BY DEF Present
    <2> HIDE DEF newer
    <2>5. Cardinality(newer) \in Nat
      BY <2>4, ReleasesFinite, FS_Subset, FS_CardinalityType
    <2>6. QED
      BY <2>2, <2>3, <2>5
  <1>3. ASSUME dir' = dir PROVE FALSE
    BY <1>3
  <1>4. QED
    BY <1>1, <1>2, <1>3
    DEF VersionStoresNext, UpdateStep, Check, Fetch, BeginExtract, EndExtract, Discard, MoveFails,
        ProbeExtracted, PageDone, Announce, StartSession, EndSession, Exit,
        CommandDies, PickDev, Stop, world, store, vsVars

(* The choice of a store drops at no step that leaves what is asked for.   *)
LEMMA ChoiceGrows ==
  ASSUME NEW s, Wanted(s)' = Wanted(s), bundled' = bundled,
         \A v \in Releases : dir[s][v] = "whole" => dir'[s][v] = "whole"
  PROVE  Resolve(s)' >= Resolve(s)
  <1> DEFINE old == Usable(s, Wanted(s))
             new == Usable(s, Wanted(s))'
  <1>1. old \in SUBSET Releases /\ new \in SUBSET Releases /\ old \subseteq new
    BY DEF Usable, Contract
  <1>2. Resolve(s) = Greatest(old) /\ Resolve(s)' = Greatest(new)
    BY DEF Resolve, Usable, Greatest
  <1> HIDE DEF old, new
  <1>3. Greatest(old) <= Greatest(new) /\ Greatest(old) \in 0 .. MaxRelease /\ Greatest(new) \in 0 .. MaxRelease
    BY <1>1, GreatestGrows, GreatestIs
  <1>4. QED
    BY <1>2, <1>3

LEMMA ChoiceStaysStep ==
  ASSUME VersionsInv, [VersionStoresNext]_vsVars, NEW s \in Stores \ (raced \cup dev \cup dev'),
         Wanting(s), Wanted(s) = Wanted(s)'
  PROVE  Resolve(s)' >= Resolve(s)
  <1>0. VsTyped /\ AloneSafe
    BY DEF VersionsInv
  <1>1. ASSUME bundled' = bundled, dir' = dir PROVE Resolve(s)' >= Resolve(s)
    BY <1>1, ChoiceGrows
  <1>2. ASSUME NEW u \in Updaters, ClearPlace(u) \/ MoveIn(u)
        PROVE  Resolve(s)' >= Resolve(s)
    <2>1. ASSUME NEW v \in Releases, dir[s][v] = "whole" PROVE dir'[s][v] = "whole"
      <3>1. CASE dir'[s][v] = dir[s][v]
        BY <2>1, <3>1
      <3>2. CASE dir'[s][v] # dir[s][v]
        <4>1. s = Store(u) /\ v = Release(u) /\ place[u] \in Before
          BY <1>0, <1>2, <3>2, PlacesChanged
        <4>2. QED
          BY <1>0, <2>1, <4>1 DEF AloneSafe, PlaceIsFree
      <3>3. QED
        BY <3>1, <3>2
    <2>2. bundled' = bundled
      BY <1>2 DEF ClearPlace, MoveIn, world
    <2>3. QED
      BY <2>1, <2>2, ChoiceGrows
  <1>3. ASSUME NEW u \in Updaters, NEW rest \in {"none", "part"}, Prune(u, rest)
        PROVE  Resolve(s)' >= Resolve(s)
    <2>1. place[u] = "prune" /\ bundled' = bundled /\ Store(u) \in Stores /\ Release(u) \in Releases
      BY <1>0, <1>3 DEF Prune, world, VsTyped
    <2>2. CASE s # Store(u)
      <3>1. dir'[s] = dir[s]
        BY <1>0, <1>3, <2>1, <2>2 DEF Prune, VsTyped
      <3>2. QED
        BY <2>1, <3>1, ChoiceGrows
    <2>3. CASE s = Store(u)
      <3> DEFINE r == Release(u)
                 old == Usable(s, Wanted(s))
                 new == Usable(s, Wanted(s))'
      <3>1. /\ dir[s][r] = "whole" /\ Contract(s, r) = Wanted(s)
            /\ \A v \in Releases : dir[s][v] # "none" => v <= r
        BY <1>0, <2>1, <2>3 DEF AloneSafe, Staged, Wanting
      <3>2. \A v \in Releases : v \in Nat /\ v >= 1
        BY VersionStoresAssumption DEF Releases
      <3>3. {w \in Present(s) : w > r} = {}
        BY <2>1, <3>1, <3>2 DEF Present
      <3>4. r \in Kept(s)
        BY <2>1, <3>1, <3>3, FS_EmptySet DEF Kept, Present
      <3>5. dir'[s][r] = "whole"
        BY <1>0, <1>3, <2>1, <2>3, <3>1, <3>4 DEF Prune, VsTyped
      <3>6. r \in new
        BY <2>1, <3>1, <3>5 DEF Usable, Contract
      <3>7. \A v \in old : v <= r
        <4>1. bundled[s] \in {0, 1} /\ r >= 1
          BY <1>0, <2>1, <3>2 DEF VsTyped
        <4>2. \A v \in old : v \in Releases /\ (dir[s][v] = "whole" \/ v = bundled[s])
          BY DEF Usable
        <4> HIDE DEF old
        <4>3. ASSUME NEW v \in old PROVE v <= r
          <5>1. CASE dir[s][v] = "whole"
            BY <3>1, <4>2, <5>1
          <5>2. CASE v = bundled[s]
            BY <2>1, <3>2, <4>1, <5>2
          <5>3. QED
            BY <4>2, <5>1, <5>2
        <4>4. QED
          BY <4>3
      <3>8. Resolve(s) = Greatest(old) /\ Resolve(s)' = Greatest(new)
        BY DEF Resolve, Usable, Greatest
      <3>9. old \in SUBSET Releases /\ new \in SUBSET Releases
        BY DEF Usable
      <3> HIDE DEF old, new
      <3>10. r <= Greatest(new) /\ Greatest(new) \in Nat
        BY <3>6, <3>9, GreatestIs, VersionStoresAssumption
      <3>11. Greatest(old) <= r /\ Greatest(old) \in Nat
        <4>1. CASE old = {}
          BY <2>1, <3>2, <4>1, GreatestIs
        <4>2. CASE old # {}
          BY <2>1, <3>2, <3>7, <3>9, <4>2, GreatestIs
        <4>3. QED
          BY <4>1, <4>2
      <3>12. QED
        BY <2>1, <3>2, <3>8, <3>10, <3>11
    <2>4. QED
      BY <2>2, <2>3
  <1>4. QED
    BY <1>1, <1>2, <1>3
    DEF VersionStoresNext, UpdateStep, Check, Fetch, BeginExtract, EndExtract, Discard, MoveFails,
        ProbeExtracted, PageDone, Announce, StartSession, EndSession, Exit,
        CommandDies, PickDev, Stop, world, store, vsVars

(* No step of an update, of a session or of a developer makes a start pick *)
(* an older release than before (runtime_update.cpp:281-343,               *)
(* manifest_util.cpp:199-210), in a store no two updaters are at work on   *)
(* at once, as long as what is installed is what the runner asks for: what *)
(* is being replaced could not be picked, and what pruning leaves includes *)
(* the newest.  Any number of updaters may be at other stores.             *)
THEOREM ChoiceNeverDropsHolds == VersionStoresSpec => ChoiceNeverDrops
  <1>1. VersionsInv /\ [VersionStoresNext]_vsVars
          => [\A s \in Stores \ (raced \cup dev \cup dev') :
                Wanting(s) /\ Wanted(s) = Wanted(s)' => Resolve(s)' >= Resolve(s)]_vsVars
    BY ChoiceStaysStep
  <1>2. QED
    BY <1>1, VersionsInit, VersionsStep, PTL DEF VersionStoresSpec, ChoiceNeverDrops

(* Of a store that no two updaters are at work on at once, a whole release *)
(* that a session uses is not written over (runtime_update.cpp:324-327),   *)
(* and goes only by pruning.                                               *)
THEOREM LoneNeverOverInUseHolds == VersionStoresSpec => LoneNeverOverInUse
  <1>1. VersionsInv /\ [VersionStoresNext]_vsVars
          => [\A s \in Stores \ raced : KeptInUse(s)]_vsVars
    BY NotOverInUseStep
  <1>2. QED
    BY VersionsInit, VersionsStep, <1>1, PTL DEF VersionStoresSpec, LoneNeverOverInUse

(* The stores keep their types, whatever the number of updaters.           *)
LEMMA VsTypes == VsTyped => VersionStoresTypeOK
  BY DEF VsTyped, VersionStoresTypeOK, Holds, Phases

LEMMA VsStart == VersionStoresInit => VsTyped
  BY VersionsInit DEF VersionsInv

THEOREM VersionStoresTyped == VersionStoresSpec => []VersionStoresTypeOK
  BY VsStart, VsTypedStep, VsTypes, PTL DEF VersionStoresSpec

-----------------------------------------------------------------------------
(* All the engines together: of a behaviour of MCDisk one runs, the others *)
(* stand still.                                                            *)
EnginesInv ==
    /\ SurvivalInv /\ LinksTyped /\ VsTyped /\ CatalogSyncInv /\ ResumeInv /\ CallTyped
    /\ RommTyped /\ ConfigInv /\ PagesApart /\ SteamInv /\ ArtTyped
    /\ BiosInv /\ biosRoot \in BiosRoots

LEMMA EnginesStart == DiskInit => EnginesInv
  <1> SUFFICES ASSUME DiskInit PROVE EnginesInv
    OBVIOUS
  <1>1. /\ DataRootInit /\ VersionStoresInit /\ CatalogSyncInit /\ HttpResumeInit
        /\ RommFetchInit /\ HubConfigInit /\ SteamInit /\ BiosInit
    BY DEF DiskInit
  <1>2. biosRoot \in BiosRoots
    BY <1>1 DEF BiosInit
  <1>3. ResumeInv /\ CallTyped
    BY <1>1, ResumeInit, CallInit, HttpResumeAssumption
  <1>4. QED
    BY <1>1, <1>2, <1>3, SurvivalInit, LinksInit, VsStart, CatalogSyncInitInv, RommInit,
       ConfigInit, PagesStart, SteamStartsInv, ArtInit, BiosStarts
    DEF EnginesInv

LEMMA EnginesStep == EnginesInv /\ [DiskNext]_diskVars => EnginesInv'
  <1> SUFFICES ASSUME EnginesInv, [DiskNext]_diskVars PROVE EnginesInv'
    OBVIOUS
  <1>1. /\ [DataRootNext]_drVars /\ [VersionStoresNext]_vsVars /\ [CatalogSyncNext]_csVars
        /\ [HttpResumeNext]_hrVars /\ [RommFetchNext]_rfVars /\ [HubConfigNext]_hcVars
        /\ [SteamNext]_stVars /\ [BiosNext]_biVars
    <2>1. VersionsNext => VersionStoresNext
      BY DEF VersionsNext
    <2>2. QED
      BY <2>1 DEF DiskNext, diskVars
  <1>2. SurvivalInv' /\ LinksTyped'
    BY <1>1, SurvivalStep, LinksStep DEF EnginesInv, SurvivalInv
  <1>3. VsTyped' /\ CatalogSyncInv'
    BY <1>1, VsTypedStep, CatalogSyncStep DEF EnginesInv
  <1>4. ResumeInv' /\ CallTyped'
    BY <1>1, ResumeStep, CallStep DEF EnginesInv
  <1>5. RommTyped' /\ ConfigInv' /\ PagesApart'
    BY <1>1, RommStep, ConfigStep, PagesStep DEF EnginesInv
  <1>6. SteamInv' /\ ArtTyped'
    BY <1>1, SteamStep, ArtStep DEF EnginesInv
  <1>7. BiosInv' /\ (biosRoot \in BiosRoots)'
    BY <1>1, BiosStep DEF EnginesInv
  <1>8. QED
    BY <1>2, <1>3, <1>4, <1>5, <1>6, <1>7 DEF EnginesInv

(* Every engine that keeps something on disk keeps its types, for every    *)
(* number of files, releases, blocks, titles, consoles and profiles.       *)
THEOREM DiskTyped == DiskSpec => []DiskTypeOK
  <1>1. EnginesInv => DiskTypeOK
    <2> SUFFICES ASSUME EnginesInv PROVE DiskTypeOK
      OBVIOUS
    <2>1. DataRootTypeOK /\ VersionStoresTypeOK /\ CatalogSyncTypeOK /\ HttpResumeTypeOK
      BY RootTypes, VsTypes, ResumeTypes DEF EnginesInv, CatalogSyncInv
    <2>2. RommFetchTypeOK /\ HubConfigTypeOK
      BY ConfigTypes DEF EnginesInv, RommTyped
    <2>3. SteamTypeOK /\ BiosTypeOK
      BY SteamInvTypes, BiosInvTypes DEF EnginesInv
    <2>4. QED
      BY <2>1, <2>2, <2>3 DEF DiskTypeOK
  <1>2. QED
    BY <1>1, EnginesStart, EnginesStep, PTL DEF DiskSpec
=============================================================================
