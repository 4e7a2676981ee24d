---------------------------- MODULE Library_proofs ----------------------------
(***************************************************************************)
(* Proofs about what the hub keeps of the user's own files and makes of    *)
(* them: the index of the dumps, for every set of titles, catalogs and     *)
(* paths and any number of scans; the builds, for every set of titles,     *)
(* releases and engines and any number of builds, faults and crashes; and  *)
(* the types of a title's saves.                                           *)
(***************************************************************************)
EXTENDS MCLibrary, TLAPS, WellFoundedInduction

Digest == Contents \cup {NoDigest}
Entries == [digest : Digest, stamp : Nat, title : Titles \cup {NoTitle}]
Files == [Paths -> Entries]
Indexes == [files : Files, binds : SUBSET (Titles \X Paths)]
Dumps == [what : Digest, stamp : Nat, cue : BOOLEAN]
Walks == [at : {"idle", "walked", "merged"}, platforms : SUBSET Platforms, whole : BOOLEAN,
          of : [Paths -> Nat]]

(* An index with its types, whose binds hold what its files are stamped    *)
(* with.                                                                   *)
Sound(index) == index \in Indexes /\ FileBinds(index.files) \subseteq index.binds
LiTyped ==
    /\ dumps \in [Paths -> Dumps] /\ catalog \in SUBSET Titles
    /\ Sound(stored) /\ Sound(library) /\ ui \in {"idle", "purged"}
    /\ walk \in Walks /\ found \in [Paths -> Digest]
    /\ clean \in BOOLEAN /\ grown \in Nat

(* What an index says of the dumps on disk, and what a walk found of them. *)
Own(what, t) == what \in Identity(t)
TrueEntry(e, what) ==
    /\ e.digest # NoDigest => e.digest = what
    /\ e.title # NoTitle => Own(what, e.title)
Tells(index, disk) ==
    /\ \A p \in Paths : TrueEntry(index.files[p], disk[p].what)
    /\ \A b \in index.binds : Own(disk[b[2]].what, b[1])
TellDigests(d, disk) == \A p \in Paths : d[p] # NoDigest => d[p] = disk[p].what

(* A rebuild that was left alone read every dump as it is; from its end    *)
(* every copy of the index says the truth.                                 *)
WholeReads ==
    /\ walk.at = "walked" /\ walk.whole => library = EmptyIndex /\ TellDigests(found, dumps)
    /\ walk.at = "merged" /\ walk.whole => Tells(library, dumps)
CleanTells ==
    clean =>
        /\ Tells(stored, dumps) /\ Tells(library, dumps)
        /\ walk.at = "walked" => TellDigests(found, dumps)
LiInv == LiTyped /\ WholeReads /\ CleanTells
-----------------------------------------------------------------------------
LEMMA MinIs ==
  ASSUME NEW S \in SUBSET Nat, S # {}
  PROVE  Min(S) \in S
  <1> DEFINE Less == {ss \in Nat \X Nat : ss[1] < ss[2]}
  <1>1. IsWellFoundedOn(Less, Nat)
    BY NatLessThanWellFounded DEF OpToRel
  <1>2. PICK x \in S : \A y \in S : ~ (<<y, x>> \in Less)
    <2> HIDE DEF Less
    <2>1. QED
      BY <1>1, WFMin
  <1>3. \A y \in S : x <= y
    <2>1. \A y \in S : ~ (y < x)
      BY <1>2
    <2>2. QED
      BY <2>1
  <1>4. QED
    BY <1>3 DEF Min

(* The index with nothing in it, and the files that are not there.         *)
LEMMA NoEntryIs == NoEntry \in Entries /\ NoEntry.digest = NoDigest /\ NoEntry.title = NoTitle
                   /\ \A what : TrueEntry(NoEntry, what)
  BY DEF NoEntry, Entries, Digest, TrueEntry

LEMMA BindsTyped ==
  ASSUME NEW files \in Files
  PROVE  /\ FileBinds(files) \in SUBSET (Titles \X Paths)
         /\ \A b \in FileBinds(files) : b[2] \in Paths /\ b[1] = files[b[2]].title
                                        /\ files[b[2]].title # NoTitle
  BY DEF FileBinds, Files, Entries

LEMMA EmptySound == Sound(EmptyIndex) /\ Tells(EmptyIndex, dumps)
  <1>1. EmptyIndex.files \in Files /\ \A p \in Paths : EmptyIndex.files[p] = NoEntry
    BY NoEntryIs DEF EmptyIndex, Files
  <1>2. EmptyIndex.binds = {} /\ EmptyIndex \in Indexes
    BY <1>1 DEF EmptyIndex, Indexes
  <1>3. FileBinds(EmptyIndex.files) = {}
    BY <1>1, NoEntryIs DEF FileBinds
  <1>4. QED
    BY <1>1, <1>2, <1>3, NoEntryIs DEF Sound, Tells

(* An index that is built from files alone is as sound as they are.        *)
LEMMA FromFiles ==
  ASSUME NEW files \in Files, NEW index, index = [files |-> files, binds |-> FileBinds(files)]
  PROVE  /\ Sound(index)
         /\ (\A p \in Paths : TrueEntry(files[p], dumps[p].what)) => Tells(index, dumps)
  <1>1. index \in Indexes /\ index.files = files /\ index.binds = FileBinds(files)
    BY BindsTyped DEF Indexes
  <1>2. ASSUME \A p \in Paths : TrueEntry(files[p], dumps[p].what)
        PROVE  \A b \in index.binds : Own(dumps[b[2]].what, b[1])
    BY <1>1, <1>2, BindsTyped DEF TrueEntry
  <1>3. QED
    BY <1>1, <1>2 DEF Sound, Tells

(* A clean-up drops what is gone.                                          *)
LEMMA PurgedSound ==
  ASSUME NEW index, Sound(index), NEW platforms
  PROVE  /\ Sound(Purged(index, platforms))
         /\ Tells(index, dumps) => Tells(Purged(index, platforms), dumps)
  <1> DEFINE files == [p \in Paths |->
                IF FolderPlatform(p) \in platforms /\ ~OnDisk(p) THEN NoEntry ELSE index.files[p]]
  <1>1. index.files \in Files
    BY DEF Sound, Indexes
  <1>2. \A p \in Paths : files[p] = NoEntry \/ files[p] = index.files[p]
    OBVIOUS
  <1>3. files \in Files
    BY <1>1, NoEntryIs DEF Files
  <1>4. Tells(index, dumps) => \A p \in Paths : TrueEntry(files[p], dumps[p].what)
    BY <1>2, NoEntryIs DEF Tells
  <1>5. Purged(index, platforms) = [files |-> files, binds |-> FileBinds(files)]
    BY DEF Purged
  <1>6. QED
    BY <1>3, <1>4, <1>5, FromFiles

(* New titles are stamped by a digest the index has.                       *)
LEMMA RematchedSound ==
  ASSUME NEW index, Sound(index), catalog \in SUBSET Titles
  PROVE  /\ Sound(Rematched(index))
         /\ Tells(index, dumps) => Tells(Rematched(index), dumps)
  <1> DEFINE of(p) == {t \in catalog : index.files[p].digest \in Identity(t) /\ TocOk(t, p)}
             title(p) == IF index.files[p].title = NoTitle /\ of(p) # {}
                         THEN Min(of(p)) ELSE index.files[p].title
             files == [p \in Paths |-> [index.files[p] EXCEPT !.title = title(p)]]
  <1>1. index.files \in Files
    BY DEF Sound, Indexes
  <1>2. ASSUME NEW p \in Paths
        PROVE  title(p) = index.files[p].title \/ title(p) \in of(p)
    <2>1. of(p) \in SUBSET Nat
      BY LibraryIndexAssumption
    <2>2. of(p) # {} => Min(of(p)) \in of(p)
      BY <2>1, MinIs
    <2>3. QED
      BY <2>2
  <1>3. ASSUME NEW p \in Paths
        PROVE  /\ files[p] \in Entries
               /\ files[p].digest = index.files[p].digest /\ files[p].title = title(p)
    <2>1. index.files[p] \in Entries /\ files[p] = [index.files[p] EXCEPT !.title = title(p)]
      BY <1>1 DEF Files
    <2>2. title(p) \in Titles \cup {NoTitle}
      BY <1>2, <2>1 DEF Entries
    <2> HIDE DEF title, files
    <2>3. QED
      BY <2>1, <2>2 DEF Entries
  <1>4. files \in Files
    BY <1>3 DEF Files
  <1>5. ASSUME Tells(index, dumps), NEW p \in Paths
        PROVE  TrueEntry(files[p], dumps[p].what)
    <2>1. TrueEntry(index.files[p], dumps[p].what)
      BY <1>5 DEF Tells
    <2>2. title(p) \in of(p) => index.files[p].digest # NoDigest
      BY LibraryIndexAssumption
    <2> HIDE DEF title, files
    <2>3. CASE title(p) \in of(p)
      BY <1>3, <2>1, <2>2, <2>3 DEF TrueEntry, Own
    <2>4. CASE title(p) = index.files[p].title
      BY <1>3, <2>1, <2>4 DEF TrueEntry
    <2>5. QED
      BY <1>2, <2>3, <2>4
  <1>6. Rematched(index) = IF files = index.files THEN index
                           ELSE [files |-> files, binds |-> FileBinds(files)]
    BY DEF Rematched
  <1> HIDE DEF files
  <1>7. QED
    BY <1>4, <1>5, <1>6, FromFiles

(* A walk knows digests; those of a full one, and those of one that starts *)
(* from a true index, are the dumps' own.                                  *)
LEMMA WalkedTells ==
  ASSUME NEW index, Sound(index), NEW full \in BOOLEAN, NEW platforms,
         dumps \in [Paths -> Dumps], NEW d \in Walked(index, full, platforms)
  PROVE  /\ d \in [Paths -> Digest]
         /\ full \/ Tells(index, dumps) => TellDigests(d, dumps)
  <1>1. PICK more \in SUBSET Seen(platforms) : d = Digests(index, full, platforms, more)
    BY DEF Walked
  <1>2. \A p \in Paths : dumps[p].what \in Digest /\ index.files[p].digest \in Digest
    BY DEF Sound, Indexes, Files, Entries, Dumps
  <1>3. NoDigest \in Digest
    BY DEF Digest
  <1>4. d \in [Paths -> Digest]
    BY <1>1, <1>2, <1>3 DEF Digests
  <1>5. ASSUME NEW p \in Paths, d[p] # NoDigest
        PROVE  d[p] = dumps[p].what \/ (~full /\ Cached(index, p) /\ d[p] = index.files[p].digest)
    BY <1>1, <1>5 DEF Digests
  <1>6. ASSUME full \/ Tells(index, dumps), NEW p \in Paths, d[p] # NoDigest
        PROVE  d[p] = dumps[p].what
    BY <1>5, <1>6 DEF Tells, TrueEntry, Cached
  <1>7. QED
    BY <1>4, <1>6 DEF TellDigests

LEMMA WalkTyped ==
  ASSUME dumps \in [Paths -> Dumps], NEW platforms \in SUBSET Platforms, NEW whole \in BOOLEAN
  PROVE  /\ Walk(platforms, whole) \in Walks /\ Walk(platforms, whole).at = "walked"
         /\ Walk(platforms, whole).whole = whole
  <1>1. \A p \in Paths : dumps[p].stamp \in Nat
    BY DEF Dumps
  <1>2. QED
    BY <1>1 DEF Walk, Walks

(* What a scan ends with: each file as the walk found it, or as it was.    *)
LEMMA MatchesTyped ==
  ASSUME LiTyped
  PROVE  \A m \in Matches : /\ m[1] \in Titles /\ m[2] \in Paths /\ m \in Titles \X Paths
                            /\ found[m[2]] \in Identity(m[1])
  BY DEF Matches, LiTyped

LEMMA StampedIs ==
  ASSUME LiTyped, NEW p \in Paths
  PROVE  /\ Stamped(library, p) \in Entries
         /\ found[p] # NoDigest => Stamped(library, p).digest = found[p]
         /\ found[p] = NoDigest => /\ Stamped(library, p).digest = library.files[p].digest
                                   /\ Stamped(library, p).title = library.files[p].title
         /\ found[p] # NoDigest /\ Stamped(library, p).title # NoTitle
              => found[p] \in Identity(Stamped(library, p).title)
  <1> DEFINE of == {t \in {m[1] : m \in Matches} :
                  FolderPlatform(p) = TitlePlatform(t) /\ found[p] \in Identity(t)}
             title == CASE of # {} -> Min(of)
                        [] of = {} /\ found[p] # NoDigest -> NoTitle
                        [] OTHER -> library.files[p].title
             digest == IF found[p] = NoDigest THEN library.files[p].digest ELSE found[p]
  <1>1. library.files[p] \in Entries /\ found[p] \in Digest /\ walk.of[p] \in Nat
    BY DEF LiTyped, Sound, Indexes, Files, Walks
  <1>2. of \in SUBSET Titles /\ of \in SUBSET Nat
    <2>1. {m[1] : m \in Matches} \subseteq Titles
      BY MatchesTyped
    <2>2. Titles \subseteq Nat
      BY LibraryIndexAssumption
    <2>3. QED
      BY <2>1, <2>2
  <1>3. of # {} => Min(of) \in of /\ found[p] # NoDigest
    <2>1. of # {} => Min(of) \in of
      BY <1>2, MinIs
    <2>2. \A t \in of : found[p] \in Identity(t) /\ t \in Titles
      BY <1>2
    <2>3. \A t \in of : found[p] \in Contents
      BY <2>2, LibraryIndexAssumption
    <2>4. QED
      BY <2>1, <2>3, LibraryIndexAssumption
  <1>4. /\ of # {} => title = Min(of)
        /\ of = {} /\ found[p] # NoDigest => title = NoTitle
        /\ of = {} /\ found[p] = NoDigest => title = library.files[p].title
    OBVIOUS
  <1>5. /\ title \in Titles \cup {NoTitle}
        /\ found[p] = NoDigest => title = library.files[p].title
        /\ found[p] # NoDigest /\ title # NoTitle => found[p] \in Identity(title)
    <2> HIDE DEF title
    <2>1. library.files[p].title \in Titles \cup {NoTitle}
      BY <1>1 DEF Entries
    <2>2. CASE of # {}
      <3>1. title \in of /\ found[p] # NoDigest
        BY <1>3, <1>4, <2>2
      <3>2. title \in Titles /\ found[p] \in Identity(title)
        BY <1>2, <3>1
      <3> HIDE DEF of
      <3>3. QED
        BY <3>1, <3>2
    <2>3. CASE of = {}
      BY <1>4, <2>1, <2>3
    <2>4. QED
      BY <2>2, <2>3
  <1>6. Stamped(library, p) = [digest |-> digest, stamp |-> walk.of[p], title |-> title]
    BY DEF Stamped
  <1> HIDE DEF title
  <1>7. QED
    BY <1>1, <1>5, <1>6 DEF Entries

LEMMA MergeSound ==
  ASSUME LiTyped
  PROVE  /\ Sound(Merge(library))
         /\ Tells(library, dumps) /\ TellDigests(found, dumps) => Tells(Merge(library), dumps)
  <1> DEFINE files == [p \in Paths |->
          IF FolderPlatform(p) \notin walk.platforms THEN library.files[p]
          ELSE IF walk.of[p] = 0 THEN NoEntry ELSE Stamped(library, p)]
  <1>1. \A p \in Paths : files[p] \in {library.files[p], NoEntry, Stamped(library, p)}
    OBVIOUS
  <1>2. library.files \in Files
    BY DEF LiTyped, Sound, Indexes
  <1>3. files \in Files
    BY <1>1, <1>2, NoEntryIs, StampedIs DEF Files
  <1>4. /\ Merge(library).files = files
        /\ Merge(library).binds = Matches \cup FileBinds(files)
        /\ Merge(library) = [files |-> files, binds |-> Matches \cup FileBinds(files)]
    BY DEF Merge
  <1> HIDE DEF files
  <1>5. Matches \cup FileBinds(files) \in SUBSET (Titles \X Paths)
    BY <1>3, BindsTyped, MatchesTyped
  <1>6. Sound(Merge(library))
    BY <1>3, <1>4, <1>5 DEF Sound, Indexes
  <1>7. ASSUME Tells(library, dumps), TellDigests(found, dumps)
        PROVE  Tells(Merge(library), dumps)
    <2>1. ASSUME NEW p \in Paths PROVE TrueEntry(files[p], dumps[p].what)
      <3>1. /\ TrueEntry(library.files[p], dumps[p].what)
            /\ (found[p] # NoDigest => found[p] = dumps[p].what)
        BY <1>7 DEF Tells, TellDigests
      <3>2. TrueEntry(Stamped(library, p), dumps[p].what)
        BY <3>1, StampedIs DEF TrueEntry, Own
      <3>3. QED
        BY <1>1, <3>1, <3>2, NoEntryIs
    <2>2. ASSUME NEW b \in Matches PROVE Own(dumps[b[2]].what, b[1])
      <3>1. b[1] \in Titles /\ b[2] \in Paths /\ found[b[2]] \in Identity(b[1])
        BY MatchesTyped
      <3>2. found[b[2]] # NoDigest
        BY <3>1, LibraryIndexAssumption
      <3>3. QED
        BY <1>7, <3>1, <3>2 DEF TellDigests, Own
    <2>3. ASSUME NEW b \in FileBinds(files) PROVE Own(dumps[b[2]].what, b[1])
      BY <1>3, <2>1, BindsTyped DEF TrueEntry
    <2>4. QED
      BY <1>4, <2>1, <2>2, <2>3 DEF Tells
  <1>8. QED
    BY <1>6, <1>7
-----------------------------------------------------------------------------
(* The steps that change the index or the dumps, one by one.               *)
LEMMA LiInit == LibraryIndexInit => LiInv
  <1> SUFFICES ASSUME LibraryIndexInit PROVE LiInv
    OBVIOUS
  <1>1. dumps \in [Paths -> Dumps]
    BY DEF LibraryIndexInit, Gone, Dumps, Digest
  <1>2. catalog \in SUBSET Titles
    BY LibraryIndexAssumption DEF LibraryIndexInit
  <1>3. walk \in Walks /\ walk.at = "idle"
    BY DEF LibraryIndexInit, NoWalk, Walks
  <1>4. QED
    BY <1>1, <1>2, <1>3, EmptySound
    DEF LibraryIndexInit, LiInv, LiTyped, WholeReads, CleanTells, Digest

LEMMA SavesSound ==
  ASSUME NEW index, Sound(index), Sound(stored), NEW saved \in Saves(index)
  PROVE  /\ Sound(saved)
         /\ Tells(index, dumps) /\ (Tells(stored, dumps) \/ saved \in {index, EmptyIndex})
              => Tells(saved, dumps)
  BY EmptySound DEF Saves

(* An index that says no worse than the one stored is stored.              *)
LEMMA StoreSound ==
  ASSUME LiInv, NEW index, Sound(index), Tells(stored, dumps) => Tells(index, dumps), Store(index),
         UNCHANGED <<dumps, catalog, walk, found, ui, clean, grown>>, walk.at = "idle"
  PROVE  LiInv'
  <1>1. stored' \in Saves(index) /\ library' = stored'
    BY DEF Store
  <1>2. Sound(stored') /\ (Tells(stored, dumps) => Tells(stored', dumps))
    BY <1>1, SavesSound DEF LiInv, LiTyped
  <1>3. QED
    BY <1>1, <1>2 DEF LiInv, LiTyped, WholeReads, CleanTells

(* The UI thread assigns the field.                                        *)
LEMMA UiSound ==
  ASSUME LiInv, NEW index, UiAssigns(index), Sound(index), Sound(stored'),
         Tells(stored, dumps) /\ Tells(library, dumps)
             => Tells(index, dumps) /\ Tells(stored', dumps),
         UNCHANGED <<dumps, catalog, found, clean, grown>>, ui' \in {"idle", "purged"}
  PROVE  LiInv'
  <1>1. library' = index /\ walk' = [walk EXCEPT !.whole = FALSE]
    BY DEF UiAssigns
  <1>2. walk' \in Walks /\ walk'.whole = FALSE /\ walk'.at = walk.at
    BY <1>1 DEF LiInv, LiTyped, Walks
  <1>3. QED
    BY <1>1, <1>2 DEF LiInv, LiTyped, WholeReads, CleanTells

LEMMA LiStep == LiInv /\ [LibraryIndexNext]_liVars => LiInv'
  <1> SUFFICES ASSUME LiInv, [LibraryIndexNext]_liVars PROVE LiInv'
    OBVIOUS
  <1>0. LiTyped /\ WholeReads /\ CleanTells
    BY DEF LiInv
  <1>1. ASSUME NEW p \in Paths, NEW what \in Contents \cup {NoDigest}, NEW cue \in Cues(p),
               ChangeDump(p, what, cue)
        PROVE  LiInv'
    <2>1. dumps' \in [Paths -> Dumps] /\ grown' \in Nat
      <3>1. cue \in BOOLEAN /\ grown' \in Nat
        BY <1>0, <1>1 DEF ChangeDump, Cues, LiTyped
      <3>2. Gone \in Dumps /\ [what |-> what, stamp |-> grown', cue |-> cue] \in Dumps
        BY <3>1 DEF Gone, Dumps, Digest
      <3>3. QED
        BY <1>0, <1>1, <3>1, <3>2 DEF ChangeDump, LiTyped
    <2>2. walk' \in Walks /\ walk'.whole = FALSE
      BY <1>0, <1>1 DEF ChangeDump, LiTyped, Walks
    <2>3. QED
      BY <1>0, <1>1, <2>1, <2>2 DEF ChangeDump, LiInv, LiTyped, WholeReads, CleanTells
  <1>2. ASSUME NEW titles \in Catalogs, RefreshCatalog(titles) PROVE LiInv'
    BY <1>0, <1>2, LibraryIndexAssumption
    DEF RefreshCatalog, LiInv, LiTyped, WholeReads, CleanTells
  <1>3. ASSUME NEW full \in BOOLEAN, NEW platforms \in SUBSET Platforms,
               BeginScan(full, platforms)
        PROVE  LiInv'
    <2> DEFINE whole == full /\ platforms = Platforms
               known == platforms \cap {TitlePlatform(t) : t \in catalog}
    <2>1. Sound(ScanBase(whole)) /\ (Tells(stored, dumps) => Tells(ScanBase(whole), dumps))
      BY <1>0, EmptySound DEF ScanBase, LiTyped
    <2>2. /\ library' = ScanBase(whole) /\ found' \in Walked(library', full, known)
          /\ walk' = Walk(known, whole)
          /\ UNCHANGED <<dumps, catalog, stored, ui, clean, grown>>
      BY <1>3 DEF BeginScan
    <2>3. /\ found' \in [Paths -> Digest]
          /\ full \/ Tells(ScanBase(whole), dumps) => TellDigests(found', dumps)
      BY <1>0, <2>1, <2>2, WalkedTells DEF LiTyped
    <2>4. known \in SUBSET Platforms /\ whole \in BOOLEAN /\ (whole => full)
      OBVIOUS
    <2> HIDE DEF whole, known
    <2>5. walk' \in Walks /\ walk'.whole = whole /\ walk'.at = "walked"
      BY <1>0, <2>2, <2>4, WalkTyped DEF LiTyped
    <2>6. LiTyped'
      BY <1>0, <2>1, <2>2, <2>3, <2>5 DEF LiTyped
    <2>7. WholeReads'
      BY <2>2, <2>3, <2>4, <2>5 DEF WholeReads, ScanBase
    <2>8. CleanTells'
      BY <1>0, <2>1, <2>2, <2>3 DEF CleanTells
    <2>9. QED
      BY <2>6, <2>7, <2>8 DEF LiInv
  <1>4. CASE MergeScan
    <2>1. /\ library' = Merge(library) /\ found' = [p \in Paths |-> NoDigest]
          /\ walk' = [NoWalk EXCEPT !.at = "merged", !.whole = walk.whole]
          /\ UNCHANGED <<dumps, catalog, stored, ui, clean, grown>> /\ walk.at = "walked"
      BY <1>4 DEF MergeScan
    <2>2. walk.whole \in BOOLEAN
      BY <1>0 DEF LiTyped, Walks
    <2>3. walk' \in Walks /\ walk'.at = "merged" /\ walk'.whole = walk.whole
      BY <2>1, <2>2 DEF NoWalk, Walks
    <2>4. found' \in [Paths -> Digest]
      BY <2>1 DEF Digest
    <2>5. LiTyped'
      BY <1>0, <2>1, <2>3, <2>4, MergeSound DEF LiTyped
    <2>6. clean \/ walk.whole => Tells(library', dumps)
      <3>1. clean \/ walk.whole => Tells(library, dumps) /\ TellDigests(found, dumps)
        BY <1>0, <2>1, EmptySound DEF WholeReads, CleanTells
      <3>2. QED
        BY <1>0, <2>1, <3>1, MergeSound
    <2>7. QED
      BY <1>0, <2>1, <2>3, <2>5, <2>6 DEF LiInv, WholeReads, CleanTells
  <1>13. CASE SaveScan
    <2>1. /\ stored' \in Saves(library) /\ library' = stored' /\ walk' = NoWalk
          /\ clean' = (clean \/ (walk.whole /\ stored' \in {library, EmptyIndex}))
          /\ UNCHANGED <<dumps, catalog, found, ui, grown>> /\ walk.at = "merged"
      BY <1>13 DEF SaveScan, Store
    <2>2. walk' \in Walks /\ walk'.at = "idle"
      BY <2>1 DEF NoWalk, Walks
    <2>3. clean' \in BOOLEAN
      BY <2>1
    <2>4. /\ Sound(stored')
          /\ Tells(library, dumps) /\ (Tells(stored, dumps) \/ stored' \in {library, EmptyIndex})
               => Tells(stored', dumps)
      BY <1>0, <2>1, SavesSound DEF LiTyped
    <2>5. clean' => Tells(library, dumps)
                    /\ (Tells(stored, dumps) \/ stored' \in {library, EmptyIndex})
      BY <1>0, <2>1 DEF WholeReads, CleanTells
    <2>6. LiTyped'
      BY <1>0, <2>1, <2>2, <2>3, <2>4 DEF LiTyped
    <2>7. QED
      BY <2>1, <2>2, <2>4, <2>5, <2>6 DEF LiInv, WholeReads, CleanTells
  <1>5. CASE AutoScan
    <2> DEFINE index == Rematched(stored)
               platforms == {TitlePlatform(t) : t \in Missing(index)}
    <2>1. Sound(index) /\ (Tells(stored, dumps) => Tells(index, dumps))
      BY <1>0, RematchedSound DEF LiTyped
    <2>2. platforms \in SUBSET Platforms
      BY <1>0 DEF LiTyped, Missing, Platforms
    <2>3. /\ stored' \in IF index = stored THEN {index} ELSE Saves(index)
          /\ library' = stored'
          /\ \/ UNCHANGED <<walk, found>>
             \/ /\ found' \in Walked(stored', FALSE, platforms)
                /\ walk' = Walk(platforms, FALSE)
          /\ UNCHANGED <<dumps, catalog, ui, clean, grown>> /\ walk.at = "idle"
      BY <1>5 DEF AutoScan
    <2> HIDE DEF index, platforms
    <2>4. Sound(stored') /\ (Tells(stored, dumps) => Tells(stored', dumps))
      BY <1>0, <2>1, <2>3, SavesSound DEF LiTyped
    <2>5. CASE UNCHANGED <<walk, found>>
      BY <1>0, <2>3, <2>4, <2>5 DEF LiInv, LiTyped, WholeReads, CleanTells
    <2>6. CASE /\ found' \in Walked(stored', FALSE, platforms)
               /\ walk' = Walk(platforms, FALSE)
      <3>1. found' \in [Paths -> Digest] /\ (Tells(stored', dumps) => TellDigests(found', dumps))
        BY <1>0, <2>4, <2>6, WalkedTells DEF LiTyped
      <3>2. walk' \in Walks /\ walk'.whole = FALSE
        BY <1>0, <2>2, <2>6, WalkTyped DEF LiTyped
      <3>3. QED
        BY <1>0, <2>3, <2>4, <2>6, <3>1, <3>2 DEF LiInv, LiTyped, WholeReads, CleanTells
    <2>7. QED
      BY <2>3, <2>5, <2>6
  <1>6. CASE UiSaves
    <2>1. /\ stored' \in Saves(library) /\ UiAssigns(stored') /\ ui' = "idle"
          /\ UNCHANGED <<dumps, catalog, found, clean, grown>>
      BY <1>6 DEF UiSaves
    <2>2. /\ Sound(stored')
          /\ Tells(library, dumps) /\ Tells(stored, dumps) => Tells(stored', dumps)
      BY <1>0, <2>1, SavesSound DEF LiTyped
    <2>3. QED
      BY <2>1, <2>2, UiSound
  <1>14. CASE UiReloads
    <2>1. /\ UiAssigns(stored) /\ UNCHANGED <<dumps, catalog, stored, found, ui, clean, grown>>
      BY <1>14 DEF UiReloads
    <2>2. Sound(stored) /\ Sound(stored') /\ ui' \in {"idle", "purged"}
      BY <1>0, <2>1 DEF LiTyped
    <2>3. QED
      BY <2>1, <2>2, UiSound
  <1>7. CASE PruneTitles
    <2> DEFINE cut(p) == IF stored.files[p].title \in catalog THEN stored.files[p]
                         ELSE [stored.files[p] EXCEPT !.title = NoTitle]
               files == [p \in Paths |-> cut(p)]
               binds == {b \in stored.binds : b[1] \in catalog}
               index == [files |-> files, binds |-> binds]
    <2>1. Sound(stored) /\ stored.files \in Files /\ stored.binds \in SUBSET (Titles \X Paths)
      BY <1>0 DEF LiTyped, Sound, Indexes
    <2>2. ASSUME NEW p \in Paths
          PROVE  /\ files[p] \in Entries /\ files[p].digest = stored.files[p].digest
                 /\ files[p].title # NoTitle => /\ files[p].title = stored.files[p].title
                                                /\ files[p].title \in catalog
      <3>1. stored.files[p] \in Entries
        BY <2>1 DEF Files
      <3>2. files[p] = cut(p)
        OBVIOUS
      <3>3. QED
        BY <3>1, <3>2 DEF Entries
    <2>3. files \in Files
      BY <2>2 DEF Files
    <2>4. index.files = files /\ index.binds = binds
      OBVIOUS
    <2>5. binds \in SUBSET (Titles \X Paths) /\ index \in Indexes
      BY <2>1, <2>3 DEF Indexes
    <2> HIDE DEF files, index
    <2>6. FileBinds(files) \subseteq binds
      BY <2>1, <2>2 DEF FileBinds, Sound
    <2>7. Sound(index)
      BY <2>4, <2>5, <2>6 DEF Sound
    <2>8. Tells(stored, dumps) => Tells(index, dumps)
      BY <2>2, <2>4 DEF Tells, TrueEntry
    <2>9. /\ Store(index) /\ walk.at = "idle"
          /\ UNCHANGED <<dumps, catalog, walk, found, ui, clean, grown>>
      BY <1>7 DEF PruneTitles, index, files
    <2>10. QED
      BY <2>7, <2>8, <2>9, StoreSound
  <1>8. ASSUME NEW platforms \in SUBSET Platforms, PurgeMissing(platforms) PROVE LiInv'
    <2>1. /\ Sound(Purged(stored, platforms))
          /\ Tells(stored, dumps) => Tells(Purged(stored, platforms), dumps)
      BY <1>0, PurgedSound DEF LiTyped
    <2>2. /\ Store(Purged(stored, platforms)) /\ walk.at = "idle"
          /\ UNCHANGED <<dumps, catalog, walk, found, ui, clean, grown>>
      BY <1>8 DEF PurgeMissing
    <2>3. QED
      BY <2>1, <2>2, StoreSound
  <1>9. ASSUME NEW t \in Titles, UiPurges(t) PROVE LiInv'
    <2> DEFINE index == Purged(stored, {TitlePlatform(t)})
    <2>1. Sound(index) /\ (Tells(stored, dumps) => Tells(index, dumps))
      BY <1>0, PurgedSound DEF LiTyped
    <2>2. /\ UiAssigns(index) /\ ui' = "purged"
          /\ UNCHANGED <<dumps, catalog, stored, found, clean, grown>>
      BY <1>9 DEF UiPurges
    <2>3. Sound(stored') /\ (Tells(stored, dumps) => Tells(stored', dumps))
      BY <1>0, <2>2 DEF LiTyped
    <2> HIDE DEF index
    <2>4. QED
      BY <2>1, <2>2, <2>3, UiSound
  <1>10. ASSUME NEW t \in Titles, NEW p \in Paths, NEW what \in Contents, NEW cue \in Cues(p),
                BindDownload(t, p, what, cue)
         PROVE  LiInv'
    <2>1. clean' = FALSE /\ grown' \in Nat /\ UNCHANGED <<catalog, ui>> /\ cue \in BOOLEAN
      BY <1>0, <1>10 DEF BindDownload, LiTyped, Cues
    <2>2. dumps' \in [Paths -> Dumps]
      BY <1>0, <1>10, <2>1 DEF BindDownload, LiTyped, Dumps, Digest
    <2>3. CASE what \in Identity(t) /\ (NeedsCue(t) => cue)
      <3> DEFINE e == [digest |-> what, stamp |-> grown', title |-> t]
                 files == [stored.files EXCEPT ![p] = e]
                 index == BoundTo(stored, t, p, what, grown')
      <3>1. stored.files \in Files /\ stored.binds \in SUBSET (Titles \X Paths)
            /\ FileBinds(stored.files) \subseteq stored.binds
        BY <1>0 DEF LiTyped, Sound, Indexes
      <3>2. e \in Entries /\ e.title = t
        BY <2>1 DEF Entries, Digest
      <3> HIDE DEF e
      <3>3. /\ files \in Files
            /\ \A q \in Paths : files[q] = IF q = p THEN e ELSE stored.files[q]
        BY <3>1, <3>2 DEF Files
      <3>4. /\ index.files = files /\ index.binds = stored.binds \cup {<<t, p>>}
            /\ index = [files |-> files, binds |-> stored.binds \cup {<<t, p>>}]
        BY DEF BoundTo, e
      <3> HIDE DEF files, index
      <3>5. FileBinds(files) \subseteq FileBinds(stored.files) \cup {<<t, p>>}
        BY <3>2, <3>3 DEF FileBinds
      <3>6. Sound(index)
        BY <3>1, <3>3, <3>4, <3>5 DEF Sound, Indexes
      <3>7. /\ stored' \in Saves(index) /\ library' = stored'
            /\ UNCHANGED <<walk, found>> /\ walk.at = "idle"
        BY <1>10, <2>3 DEF BindDownload, Store, index
      <3>8. Sound(stored')
        BY <1>0, <3>6, <3>7, SavesSound DEF LiTyped
      <3>9. QED
        BY <1>0, <2>1, <2>2, <3>7, <3>8 DEF LiInv, LiTyped, WholeReads, CleanTells
    <2>4. CASE ~ (what \in Identity(t) /\ (NeedsCue(t) => cue))
      <3>1. /\ library' = stored /\ stored' = stored
            /\ found' \in Walked(stored, FALSE, {TitlePlatform(t)})'
            /\ walk' = Walk({TitlePlatform(t)}, FALSE)'
        BY <1>10, <2>4 DEF BindDownload
      <3>2. found' \in [Paths -> Digest]
        <4>1. \A q \in Paths : dumps'[q].what \in Digest /\ stored.files[q].digest \in Digest
          BY <1>0, <2>2 DEF LiTyped, Sound, Indexes, Files, Entries, Dumps
        <4>2. NoDigest \in Digest
          BY DEF Digest
        <4>3. QED
          BY <3>1, <4>1, <4>2 DEF Walked, Digests
      <3>3. walk' \in Walks /\ walk'.whole = FALSE
        <4>1. \A q \in Paths : dumps'[q].stamp \in Nat
          BY <2>2 DEF Dumps
        <4>2. {TitlePlatform(t)} \in SUBSET Platforms
          BY DEF Platforms
        <4>3. QED
          BY <3>1, <4>1, <4>2 DEF Walk, Walks
      <3>4. QED
        BY <1>0, <2>1, <2>2, <3>1, <3>2, <3>3 DEF LiInv, LiTyped, WholeReads, CleanTells
    <2>5. QED
      BY <2>3, <2>4
  <1>11. CASE UNCHANGED liVars
    BY <1>0, <1>11 DEF liVars, LiInv, LiTyped, WholeReads, CleanTells
  <1>12. QED
    BY <1>1, <1>2, <1>3, <1>4, <1>5, <1>6, <1>7, <1>8, <1>9, <1>10, <1>11, <1>13, <1>14
    DEF LibraryIndexNext

(* The index keeps its types: a bind is of a title and a path, and every   *)
(* file that is stamped with a title is bound to it.                       *)
THEOREM LibraryIndexTyped == LibraryIndexSpec => []LibraryIndexTypeOK
  <1>1. LiInv => LibraryIndexTypeOK
    BY
    DEF LiInv, LiTyped, LibraryIndexTypeOK, IndexTypeOK, Sound, Indexes, Files, Entries, Digest,
        Walks
  <1>2. QED
    BY LiInit, LiStep, <1>1, PTL DEF LibraryIndexSpec

(* After a full rebuild that was left alone (no dump changed and the UI    *)
(* thread did not assign the field), no title is bound to a dump that is   *)
(* not its own, until a dump changes: whatever scans, new catalogs,        *)
(* reloads, clean-ups of both threads and failed saves follow              *)
(* (romscan.cpp:317-385, library_index.cpp:538-745).                       *)
THEOREM RebuildHealsHolds == LibraryIndexSpec => []RebuildHeals
  <1>1. LiInv => RebuildHeals
    BY DEF LiInv, CleanTells, Tells, RebuildHeals, Own
  <1>2. QED
    BY LiInit, LiStep, <1>1, PTL DEF LibraryIndexSpec
-----------------------------------------------------------------------------
(* The builds.  A source tree, an engine, a binary and a job, with types.  *)
Trees == [files : SUBSET Tags, marker : 0 .. MaxTag, c : SUBSET Inputs, stamp : Stamps,
          link : Revs \cup {0}]
Caches == [c : SUBSET Inputs, stamp : Stamps, bios : SUBSET SUBSET Revs, bstamp : SUBSET Revs]
Engines == [revs : SUBSET Revs, bios : SUBSET SUBSET Revs, bstamp : SUBSET Revs]
Kits == [revs : SUBSET Revs, stage : 0 .. 3]
Jobs == [pc : Phases, t : Ports \cup {Idle.t}, tag : 0 .. MaxTag, rom : Roms \cup {0},
         force : BOOLEAN, regen : BOOLEAN, online : BOOLEAN, bios : BOOLEAN,
         tools : SUBSET Revs]
BpTyped ==
    /\ latest \in [Ports -> Tags] /\ zip \in [Ports -> 0 .. MaxTag]
    /\ rec \in [Ports -> 0 .. MaxTag]
    /\ src \in [Ports -> Trees] /\ cgcache \in [Ports -> Caches]
    /\ eng \in [Revs -> Engines] /\ sdk \in [Slots -> Kits]
    /\ obj \in [Ports -> Binaries] /\ rel \in [Ports -> Binaries]
    /\ bjob \in Jobs
Early == {"source", "sync", "promote", "engine", "mark"}
AtWork ==
    bjob.pc # "idle" =>
        /\ T \in Ports /\ bjob.tag \in Tags /\ bjob.rom \in Roms
        /\ bjob.pc \notin Early => src[T].link \in Revs

LEMMA RevsIs ==
  /\ MaxTag \in Nat \ {0} /\ 1 \in Tags /\ \A n \in Tags : n \in Nat /\ n <= MaxTag /\ n # 0
  /\ \A t \in Ports, n \in Tags : EngineOf[t][n] \in Revs /\ SlotOf[t][n] \in Slots
  /\ 0 \notin Revs
  <1>1. MaxTag \in Nat \ {0} /\ 0 \notin Revs /\ EngineOf \in [Ports -> [Tags -> Revs]]
    BY BuildAssumption
  <1>2. 1 \in Tags /\ \A n \in Tags : n \in Nat /\ n <= MaxTag /\ n # 0
    BY <1>1 DEF Tags
  <1>3. ASSUME NEW t \in Ports, NEW n \in Tags
        PROVE  EngineOf[t][n] \in Revs /\ SlotOf[t][n] \in Slots
    <2>1. SlotOf[t][n] \in {SlotOf[t][k] : k \in Tags}
      OBVIOUS
    <2>2. {SlotOf[t][k] : k \in Tags} \in {{SlotOf[u][k] : k \in Tags} : u \in Ports}
      OBVIOUS
    <2>3. QED
      BY <1>1, <2>1, <2>2 DEF Slots
  <1>4. QED
    BY <1>1, <1>2, <1>3

LEMMA NothingTyped ==
  /\ NoStamp \in Stamps /\ NoSource \in Trees /\ NoCache \in Caches /\ NoBinary \in Binaries
  /\ Idle \in Jobs /\ Idle.pc = "idle"
  <1>1. NoStamp \in Stamps
    BY DEF Stamps
  <1>2. 0 \in 0 .. MaxTag /\ 0 \in Revs \cup {0}
    BY RevsIs
  <1>3. NoSource \in Trees /\ NoCache \in Caches /\ NoBinary \in Binaries
    BY <1>1, <1>2 DEF NoSource, NoCache, NoBinary, Trees, Caches, Binaries
  <1>4. \E t : Idle = [pc |-> "idle", t |-> t, tag |-> 0, rom |-> 0, force |-> FALSE,
              regen |-> FALSE, online |-> FALSE, bios |-> FALSE, tools |-> {}]
    BY DEF Idle
  <1>5. QED
    BY <1>2, <1>3, <1>1, <1>4 DEF Jobs, Phases

LEMMA BpInit == BuildInit => BpTyped /\ AtWork
  <1> SUFFICES ASSUME BuildInit PROVE BpTyped /\ AtWork
    OBVIOUS
  <1>1. /\ latest \in [Ports -> Tags] /\ zip \in [Ports -> 0 .. MaxTag]
        /\ rec \in [Ports -> 0 .. MaxTag]
    BY RevsIs DEF BuildInit
  <1>2. [revs |-> {}, bios |-> {}, bstamp |-> {}] \in Engines /\ [revs |-> {}, stage |-> 0] \in Kits
    BY DEF Engines, Kits
  <1>3. eng \in [Revs -> Engines] /\ sdk \in [Slots -> Kits]
    BY <1>2 DEF BuildInit
  <1>4. QED
    BY <1>1, <1>3, NothingTyped DEF BuildInit, BpTyped, AtWork

(* A job that goes on is the same job.                                     *)
SameJob ==
    /\ bjob'.t = bjob.t /\ bjob'.tag = bjob.tag /\ bjob'.rom = bjob.rom
    /\ bjob'.force = bjob.force /\ bjob'.regen = bjob.regen /\ bjob'.online = bjob.online
LEMMA Goes ==
  ASSUME bjob \in Jobs, NEW pc \in Phases, Go(pc)
  PROVE  bjob' \in Jobs /\ bjob'.pc = pc /\ SameJob /\ bjob'.bios = bjob.bios
         /\ bjob'.tools = bjob.tools
  BY DEF Go, Jobs, SameJob
LEMMA Stops ==
  ASSUME Stop
  PROVE  bjob' \in Jobs /\ bjob'.pc = "idle" /\ AtWork'
  BY NothingTyped DEF Stop, AtWork

(* What the running build looks at.                                        *)
LEMMA LooksTyped ==
  ASSUME BpTyped, AtWork, bjob.pc # "idle"
  PROVE  /\ T \in Ports /\ Rev \in Revs /\ SdkSlot \in Slots
         /\ src[T] \in Trees /\ cgcache[T] \in Caches /\ sdk[SdkSlot] \in Kits
         /\ Emitters \in SUBSET Revs /\ Wanted \in Inputs /\ WantedStamp \in Stamps
         /\ bjob.pc \notin Early => Linked \in Engines /\ src[T].link \in Revs
  <1>1. T \in Ports /\ bjob.tag \in Tags /\ bjob.rom \in Roms /\ bjob \in Jobs
    BY DEF BpTyped, AtWork
  <1>2. Rev \in Revs /\ SdkSlot \in Slots
    BY <1>1, RevsIs DEF Rev, SdkSlot
  <1>3. Emitters \in SUBSET Revs
    BY <1>1 DEF Emitters, Jobs
  <1>4. Wanted \in Inputs /\ WantedStamp \in Stamps
    BY <1>1, <1>2, <1>3 DEF Wanted, WantedStamp, Inputs, Stamps
  <1>5. QED
    BY <1>1, <1>2, <1>3, <1>4 DEF BpTyped, AtWork, Linked

(* h is the caches g, with new BIOS C in that of t.                        *)
NewBios(g, t, b, w, h) ==
    /\ h \in [Ports -> Caches] /\ h[t].c = g[t].c /\ h[t].stamp = g[t].stamp
    /\ h[t].bios = b /\ h[t].bstamp = w /\ \A u \in Ports : u # t => h[u] = g[u]
LEMMA CacheWith ==
  ASSUME NEW g \in [Ports -> Caches], NEW t \in Ports, NEW b \in SUBSET SUBSET Revs,
         NEW w \in SUBSET Revs, NEW h, h = [g EXCEPT ![t].bios = b, ![t].bstamp = w]
  PROVE  NewBios(g, t, b, w, h)
  BY DEF Caches, NewBios
LEMMA CacheGets ==
  ASSUME NEW g \in [Ports -> Caches], NEW t \in Ports, NEW b \in SUBSET SUBSET Revs,
         NEW w \in SUBSET Revs
  PROVE  NewBios(g, t, b, w, [g EXCEPT ![t].bios = b, ![t].bstamp = w])
  BY CacheWith

(* What the BIOS C of a linked engine may leave in the title's cache.      *)
LEMMA StashedIs ==
  ASSUME BpTyped, NEW t \in Ports, t = T
  PROVE  /\ StashedBios(t) \in [Ports -> Caches]
         /\ \A u \in Ports : /\ StashedBios(t)[u].c = cgcache[u].c
                             /\ StashedBios(t)[u].stamp = cgcache[u].stamp
         /\ \A u \in Ports : \/ StashedBios(t)[u] = cgcache[u]
                             \/ /\ u = T /\ src[T].link \in Revs
                                /\ StashedBios(t)[u].bios = Linked.bios
                                /\ StashedBios(t)[u].bstamp = Linked.bstamp
  <1>1. cgcache \in [Ports -> Caches] /\ (src[T].link \in Revs => Linked \in Engines)
    BY DEF BpTyped, Linked
  <1>2. CASE StashedBios(t) = cgcache
    BY <1>1, <1>2
  <1>3. CASE StashedBios(t) # cgcache
    <2>1. /\ src[T].link \in Revs
          /\ StashedBios(t) = [cgcache EXCEPT ![t].bios = Linked.bios, ![t].bstamp = Linked.bstamp]
      BY <1>3 DEF StashedBios
    <2>2. Linked.bios \in SUBSET SUBSET Revs /\ Linked.bstamp \in SUBSET Revs
      BY <1>1, <2>1 DEF Engines
    <2>3. NewBios(cgcache, t, Linked.bios, Linked.bstamp,
                  [cgcache EXCEPT ![t].bios = Linked.bios, ![t].bstamp = Linked.bstamp])
      BY <1>1, <2>2, CacheGets
    <2>4. NewBios(cgcache, t, Linked.bios, Linked.bstamp, StashedBios(t))
      BY <2>1, <2>3
    <2>5. QED
      BY <2>1, <2>4 DEF NewBios
  <1>4. QED
    BY <1>2, <1>3

(* The same of a tree that was cut to one release, and of an engine.       *)
NewTree(g, t, files, marker, h) ==
    /\ h \in [Ports -> Trees] /\ h[t].files = files /\ h[t].marker = marker
    /\ h[t].c = g[t].c /\ h[t].stamp = g[t].stamp /\ h[t].link = g[t].link
    /\ \A u \in Ports : u # t => h[u] = g[u]
LEMMA TreeCut ==
  ASSUME NEW g \in [Ports -> Trees], NEW t \in Ports, NEW files \in SUBSET Tags,
         NEW marker \in 0 .. MaxTag, NEW h,
         h = [g EXCEPT ![t].files = files, ![t].marker = marker]
  PROVE  NewTree(g, t, files, marker, h)
  BY DEF Trees, NewTree
LEMMA TreeGets ==
  ASSUME NEW g \in [Ports -> Trees], NEW t \in Ports, NEW files \in SUBSET Tags,
         NEW marker \in 0 .. MaxTag
  PROVE  NewTree(g, t, files, marker, [g EXCEPT ![t].files = files, ![t].marker = marker])
  BY TreeCut
Marked(g, t, h) == h \in [Ports -> Trees] /\ h[t].link = g[t].link
LEMMA TreeMarked ==
  ASSUME NEW g \in [Ports -> Trees], NEW t \in Ports, NEW marker \in 0 .. MaxTag,
         NEW h, h = [g EXCEPT ![t].marker = marker]
  PROVE  Marked(g, t, h)
  BY DEF Trees, Marked
LEMMA TreeMarks ==
  ASSUME NEW g \in [Ports -> Trees], NEW t \in Ports, NEW marker \in 0 .. MaxTag
  PROVE  Marked(g, t, [g EXCEPT ![t].marker = marker])
  BY TreeMarked
NewEngine(g, d, b, w, h) ==
    /\ h \in [Revs -> Engines] /\ h[d].revs = g[d].revs /\ h[d].bios = b /\ h[d].bstamp = w
    /\ \A e \in Revs : e # d => h[e] = g[e]
LEMMA EngineGets ==
  ASSUME NEW g \in [Revs -> Engines], NEW d \in Revs, NEW b \in SUBSET SUBSET Revs,
         NEW w \in SUBSET Revs
  PROVE  NewEngine(g, d, b, w, [g EXCEPT ![d].bios = b, ![d].bstamp = w])
  <1> DEFINE x == [g[d] EXCEPT !.bios = b, !.bstamp = w]
             h == [g EXCEPT ![d].bios = b, ![d].bstamp = w]
  <1>1. g[d] \in Engines
    OBVIOUS
  <1>2. x \in Engines /\ x.revs = g[d].revs /\ x.bios = b /\ x.bstamp = w
    BY <1>1 DEF Engines
  <1>3. h = [g EXCEPT ![d] = x]
    OBVIOUS
  <1> HIDE DEF x, h
  <1>4. NewEngine(g, d, b, w, h)
    BY <1>2, <1>3 DEF NewEngine
  <1>5. QED
    BY <1>4 DEF h
LEMMA EngineBios ==
  ASSUME NEW g \in [Revs -> Engines], NEW d \in Revs, NEW b \in SUBSET SUBSET Revs
  PROVE  NewEngine(g, d, b, g[d].bstamp, [g EXCEPT ![d].bios = b])
  <1> DEFINE x == [g[d] EXCEPT !.bios = b]
             h == [g EXCEPT ![d].bios = b]
  <1>1. g[d] \in Engines
    OBVIOUS
  <1>2. x \in Engines /\ x.revs = g[d].revs /\ x.bios = b /\ x.bstamp = g[d].bstamp
    BY <1>1 DEF Engines
  <1>3. h = [g EXCEPT ![d] = x]
    OBVIOUS
  <1> HIDE DEF x, h
  <1>4. NewEngine(g, d, b, g[d].bstamp, h)
    BY <1>2, <1>3 DEF NewEngine
  <1>5. QED
    BY <1>4 DEF h
LEMMA EngineMore ==
  ASSUME NEW g \in [Revs -> Engines], NEW d \in Revs, NEW b \in SUBSET SUBSET Revs
  PROVE  NewEngine(g, d, g[d].bios \cup b, g[d].bstamp, [g EXCEPT ![d].bios = @ \cup b])
  <1> DEFINE x == [g[d] EXCEPT !.bios = @ \cup b]
             h == [g EXCEPT ![d].bios = @ \cup b]
  <1>1. g[d] \in Engines
    OBVIOUS
  <1>2. x \in Engines /\ x.revs = g[d].revs /\ x.bios = g[d].bios \cup b /\ x.bstamp = g[d].bstamp
    BY <1>1 DEF Engines
  <1>3. h = [g EXCEPT ![d] = x]
    OBVIOUS
  <1> HIDE DEF x, h
  <1>4. NewEngine(g, d, g[d].bios \cup b, g[d].bstamp, h)
    BY <1>2, <1>3 DEF NewEngine
  <1>5. QED
    BY <1>4 DEF h
LEMMA EngineStamp ==
  ASSUME NEW g \in [Revs -> Engines], NEW d \in Revs, NEW w \in SUBSET Revs
  PROVE  NewEngine(g, d, g[d].bios, w, [g EXCEPT ![d].bstamp = w])
  <1> DEFINE x == [g[d] EXCEPT !.bstamp = w]
             h == [g EXCEPT ![d].bstamp = w]
  <1>1. g[d] \in Engines
    OBVIOUS
  <1>2. x \in Engines /\ x.revs = g[d].revs /\ x.bios = g[d].bios /\ x.bstamp = w
    BY <1>1 DEF Engines
  <1>3. h = [g EXCEPT ![d] = x]
    OBVIOUS
  <1> HIDE DEF x, h
  <1>4. NewEngine(g, d, g[d].bios, w, h)
    BY <1>2, <1>3 DEF NewEngine
  <1>5. QED
    BY <1>4 DEF h

LEMMA DirIs ==
  ASSUME BpTyped, AtWork, bjob.pc # "idle"
  PROVE  EngineDir(Rev) \in Revs
  BY LooksTyped DEF EngineDir

LEMMA SettledTyped ==
  ASSUME BpTyped, NEW d \in Revs, NEW t \in Ports, Rev \in Revs
  PROVE  Settled(d, t) \in Engines
  <1> DEFINE e == [eng[d] EXCEPT !.revs = {Rev}]
  <1>1. eng[d] \in Engines /\ cgcache[t] \in Caches
    BY DEF BpTyped
  <1>2. e \in Engines
    BY <1>1 DEF Engines
  <1>3. \/ Settled(d, t) = e
        \/ Settled(d, t) = [e EXCEPT !.bios = cgcache[t].bios, !.bstamp = cgcache[t].bstamp]
    BY DEF Settled
  <1> HIDE DEF e
  <1>4. QED
    BY <1>1, <1>2, <1>3 DEF Engines, Caches

(* A step of the build ends it or leaves the same job to go on.             *)
JobGoes ==
    /\ bjob' \in Jobs
    /\ bjob'.pc = "idle" \/ (SameJob /\ (bjob'.pc \in Early \/ src'[T].link \in Revs))
LEMMA BuildRuns == BuildStep => bjob.pc # "idle"
  BY
  DEF BuildStep, ReuseSource, Extract, BadZip, SyncCopy, SyncPrune, EngineCopy, MarkSource,
      UsePack, FetchPack, PlacePack, HarvestPack, ReuseSdk, HarvestCli, HarvestEmitters,
      HarvestProfiles, CheckBios, SkipGenerate, RestoreCache, GenerateBegins, GenerateEnds,
      GenerateFails, SdkGone, StampBios, CacheCopy, StampCache, StampSource, Compile, CompileFails,
      Stage, Record, PruneBuild

LEMMA StepTyped ==
  ASSUME BpTyped, AtWork, bjob.pc # "idle",
         bjob' \in Jobs,
         bjob'.pc = "idle" \/ (SameJob /\ (bjob'.pc \in Early \/ src'[T].link \in Revs)),
         latest' = latest, zip' \in [Ports -> 0 .. MaxTag], rec' \in [Ports -> 0 .. MaxTag],
         src' \in [Ports -> Trees], cgcache' \in [Ports -> Caches], eng' \in [Revs -> Engines],
         sdk' \in [Slots -> Kits], obj' \in [Ports -> Binaries], rel' \in [Ports -> Binaries]
  PROVE  BpTyped' /\ AtWork'
  BY DEF BpTyped, AtWork, SameJob, T

LEMMA BpStepTyped == BpTyped /\ AtWork /\ BuildStep => BpTyped' /\ AtWork'
  <1> SUFFICES ASSUME BpTyped, AtWork, BuildStep PROVE BpTyped' /\ AtWork'
    OBVIOUS
  <1>1. bjob.pc # "idle"
    BY BuildRuns
  <1>2. /\ T \in Ports /\ bjob.tag \in Tags /\ bjob.rom \in Roms /\ bjob \in Jobs
        /\ bjob.tag \in 0 .. MaxTag /\ zip \in [Ports -> 0 .. MaxTag]
        /\ rec \in [Ports -> 0 .. MaxTag]
        /\ src \in [Ports -> Trees] /\ cgcache \in [Ports -> Caches] /\ eng \in [Revs -> Engines]
        /\ sdk \in [Slots -> Kits] /\ obj \in [Ports -> Binaries] /\ rel \in [Ports -> Binaries]
    BY <1>1 DEF BpTyped, AtWork, Jobs
  <1>3. /\ Rev \in Revs /\ SdkSlot \in Slots /\ src[T] \in Trees /\ cgcache[T] \in Caches
        /\ sdk[SdkSlot] \in Kits /\ Emitters \in SUBSET Revs /\ Wanted \in Inputs
        /\ WantedStamp \in Stamps
        /\ (bjob.pc \notin Early => Linked \in Engines /\ src[T].link \in Revs)
    BY <1>1, LooksTyped
  <1>4. CASE ReuseSource
    <2>1. /\ latest' = latest /\ zip' = zip /\ rec' = rec /\ src' = src /\ eng' = eng /\ sdk' = sdk
          /\ obj' = obj /\ rel' = rel
      BY <1>4 DEF ReuseSource
    <2>2. cgcache' \in [Ports -> Caches]
      BY <1>4, <1>1, <1>2, <1>3, StashedIs DEF ReuseSource, Early
    <2>3. JobGoes
      BY <1>4, <1>2, <1>3, <2>1, Goes DEF JobGoes, ReuseSource, Early, Phases, UpToDate, Buildable
    <2>4. QED
      BY <1>1, <1>2, <2>1, <2>2, <2>3, StepTyped DEF JobGoes
  <1>5. CASE Extract
    <2>1. /\ latest' = latest /\ rec' = rec /\ src' = src /\ cgcache' = cgcache /\ eng' = eng
          /\ sdk' = sdk /\ obj' = obj /\ rel' = rel
      BY <1>5 DEF Extract
    <2>2. zip' \in [Ports -> 0 .. MaxTag]
      BY <1>5, <1>1, <1>2, <1>3 DEF Extract, Early
    <2>3. JobGoes
      BY <1>5, <1>2, <1>3, <2>1, Goes DEF JobGoes, Extract, Early, Phases
    <2>4. QED
      BY <1>1, <1>2, <2>1, <2>2, <2>3, StepTyped DEF JobGoes
  <1>6. CASE BadZip
    <2>1. /\ latest' = latest /\ rec' = rec /\ src' = src /\ cgcache' = cgcache /\ eng' = eng
          /\ sdk' = sdk /\ obj' = obj /\ rel' = rel
      BY <1>6 DEF BadZip
    <2>2. zip' \in [Ports -> 0 .. MaxTag]
      BY <1>6, <1>1, <1>2, <1>3, RevsIs DEF BadZip, Early
    <2>3. JobGoes
      BY <1>6, <1>2, <1>3, <2>1, Goes, Stops DEF JobGoes, BadZip, Early, Phases, SameJob
    <2>4. QED
      BY <1>1, <1>2, <2>1, <2>2, <2>3, StepTyped DEF JobGoes
  <1>7. CASE SyncCopy
    <2>1. /\ latest' = latest /\ zip' = zip /\ rec' = rec /\ cgcache' = cgcache /\ eng' = eng
          /\ sdk' = sdk /\ obj' = obj /\ rel' = rel
      BY <1>7 DEF SyncCopy
    <2>2. src' \in [Ports -> Trees] /\ (src'[T].link = src[T].link \/ src'[T].link \in Revs)
      BY <1>7, <1>1, <1>2, <1>3 DEF Trees, SyncCopy, Early
    <2>3. JobGoes
      BY <1>7, <1>2, <1>3, <2>1, <2>2, Goes DEF JobGoes, SyncCopy, Early, Phases
    <2>4. QED
      BY <1>1, <1>2, <2>1, <2>2, <2>3, StepTyped DEF JobGoes
  <1>8. CASE SyncPrune
    <2>1. /\ latest' = latest /\ zip' = zip /\ rec' = rec /\ eng' = eng /\ sdk' = sdk
          /\ obj' = obj /\ rel' = rel
      BY <1>8 DEF SyncPrune
    <2>2. src' \in [Ports -> Trees]
      <3>1. src' = [src EXCEPT ![T].files = {bjob.tag}, ![T].marker = 0]
        BY <1>8 DEF SyncPrune
      <3>2. {bjob.tag} \in SUBSET Tags /\ 0 \in 0 .. MaxTag
        BY <1>2, RevsIs
      <3>3. NewTree(src, T, {bjob.tag}, 0, src')
        BY <1>2, <3>1, <3>2, TreeGets
      <3>4. QED
        BY <3>3 DEF NewTree
    <2>3. cgcache' \in [Ports -> Caches]
      BY <1>8, <1>2, StashedIs DEF SyncPrune
    <2>4. bjob' \in Jobs /\ SameJob /\ bjob'.pc \in Early
      BY <1>8, <1>2, Goes DEF SyncPrune, Early, Phases
    <2>9. QED
      BY <1>1, <1>2, <2>1, <2>2, <2>3, <2>4, StepTyped
  <1>9. CASE EngineCopy
    <2>1. /\ latest' = latest /\ zip' = zip /\ rec' = rec /\ src' = src /\ cgcache' = cgcache
          /\ sdk' = sdk /\ obj' = obj /\ rel' = rel
      BY <1>9 DEF EngineCopy
    <2>2. eng' \in [Revs -> Engines]
      BY <1>9, <1>1, <1>2, <1>3, DirIs DEF Engines, EngineCopy, Early
    <2>3. JobGoes
      BY <1>9, <1>2, <1>3, <2>1, Goes DEF JobGoes, EngineCopy, Early, Phases
    <2>4. QED
      BY <1>1, <1>2, <2>1, <2>2, <2>3, StepTyped DEF JobGoes
  <1>10. CASE MarkSource
    <2> DEFINE d == EngineDir(Rev)
    <2>1. /\ latest' = latest /\ zip' = zip /\ rec' = rec /\ sdk' = sdk /\ cgcache' = cgcache
          /\ obj' = obj /\ rel' = rel /\ eng' = [eng EXCEPT ![d] = Settled(d, T)]
          /\ src' = [LinkedTo(d) EXCEPT ![T].marker = bjob.tag]
      BY <1>10 DEF MarkSource
    <2>2. src' \in [Ports -> Trees] /\ src'[T].link \in Revs
      <3>1. d \in Revs
        BY <1>1, DirIs
      <3> HIDE DEF d
      <3>2. LinkedTo(d) \in [Ports -> Trees] /\ LinkedTo(d)[T].link = d
        BY <1>2, <3>1 DEF LinkedTo, Trees
      <3>3. Marked(LinkedTo(d), T, [LinkedTo(d) EXCEPT ![T].marker = bjob.tag])
        BY <1>2, <3>2, TreeMarks
      <3>4. Marked(LinkedTo(d), T, src')
        BY <2>1, <3>3
      <3>5. QED
        BY <3>1, <3>2, <3>4 DEF Marked
    <2>3. eng' \in [Revs -> Engines]
      BY <1>1, <1>2, <1>3, <2>1, DirIs, SettledTyped
    <2>4. bjob' \in Jobs /\ SameJob
      BY <1>10, <1>2, Goes DEF MarkSource, Phases
    <2>9. QED
      BY <1>1, <1>2, <2>1, <2>2, <2>3, <2>4, StepTyped
  <1>11. CASE UsePack
    <2>1. /\ latest' = latest /\ zip' = zip /\ rec' = rec /\ src' = src /\ cgcache' = cgcache
          /\ eng' = eng /\ sdk' = sdk /\ obj' = obj /\ rel' = rel
      BY <1>11 DEF UsePack
    <2>2. JobGoes
      BY <1>11, <1>2, <1>3, <2>1, Goes DEF JobGoes, UsePack, Early, Phases
    <2>3. QED
      BY <1>1, <1>2, <2>1, <2>2, StepTyped DEF JobGoes
  <1>12. CASE FetchPack
    <2>1. /\ latest' = latest /\ zip' = zip /\ rec' = rec /\ src' = src /\ cgcache' = cgcache
          /\ eng' = eng /\ sdk' = sdk /\ obj' = obj /\ rel' = rel
      BY <1>12 DEF FetchPack
    <2>2. JobGoes
      BY <1>12, <1>2, <1>3, <2>1, Goes DEF JobGoes, FetchPack, Early, Phases
    <2>3. QED
      BY <1>1, <1>2, <2>1, <2>2, StepTyped DEF JobGoes
  <1>13. CASE PlacePack
    <2>1. /\ latest' = latest /\ zip' = zip /\ rec' = rec /\ src' = src /\ cgcache' = cgcache
          /\ eng' = eng /\ sdk' = sdk /\ obj' = obj /\ rel' = rel
      BY <1>13 DEF PlacePack
    <2>2. JobGoes
      BY <1>13, <1>2, <1>3, <2>1, Goes DEF JobGoes, PlacePack, Early, Phases
    <2>3. QED
      BY <1>1, <1>2, <2>1, <2>2, StepTyped DEF JobGoes
  <1>14. ASSUME NEW h \in BOOLEAN, HarvestPack(h)
        PROVE  BpTyped' /\ AtWork'
    <2>1. /\ latest' = latest /\ zip' = zip /\ rec' = rec /\ src' = src /\ cgcache' = cgcache
          /\ eng' = eng /\ sdk' = sdk /\ obj' = obj /\ rel' = rel
      BY <1>14 DEF HarvestPack
    <2>2. JobGoes
      BY <1>14, <1>2, <1>3, <2>1, Goes, Stops DEF JobGoes, HarvestPack, Early, Phases, SameJob
    <2>3. QED
      BY <1>1, <1>2, <2>1, <2>2, StepTyped DEF JobGoes
  <1>15. CASE ReuseSdk
    <2>1. /\ latest' = latest /\ zip' = zip /\ rec' = rec /\ src' = src /\ cgcache' = cgcache
          /\ eng' = eng /\ sdk' = sdk /\ obj' = obj /\ rel' = rel
      BY <1>15 DEF ReuseSdk
    <2>2. JobGoes
      BY <1>15, <1>2, <1>3, <2>1, Goes DEF JobGoes, ReuseSdk, Early, Phases
    <2>3. QED
      BY <1>1, <1>2, <2>1, <2>2, StepTyped DEF JobGoes
  <1>16. CASE HarvestCli
    <2>1. /\ latest' = latest /\ zip' = zip /\ rec' = rec /\ src' = src /\ cgcache' = cgcache
          /\ eng' = eng /\ obj' = obj /\ rel' = rel
      BY <1>16 DEF HarvestCli
    <2>2. sdk' \in [Slots -> Kits]
      BY <1>16, <1>1, <1>2, <1>3 DEF Kits, Engines, HarvestCli, Early
    <2>3. JobGoes
      BY <1>16, <1>2, <1>3, <2>1, Goes DEF JobGoes, HarvestCli, Early, Phases
    <2>4. QED
      BY <1>1, <1>2, <2>1, <2>2, <2>3, StepTyped DEF JobGoes
  <1>17. CASE HarvestEmitters
    <2>1. /\ latest' = latest /\ zip' = zip /\ rec' = rec /\ src' = src /\ cgcache' = cgcache
          /\ eng' = eng /\ obj' = obj /\ rel' = rel
      BY <1>17 DEF HarvestEmitters
    <2>2. sdk' \in [Slots -> Kits]
      BY <1>17, <1>1, <1>2, <1>3 DEF Kits, Engines, HarvestEmitters, Early
    <2>3. JobGoes
      BY <1>17, <1>2, <1>3, <2>1, Goes DEF JobGoes, HarvestEmitters, Early, Phases
    <2>4. QED
      BY <1>1, <1>2, <2>1, <2>2, <2>3, StepTyped DEF JobGoes
  <1>18. CASE HarvestProfiles
    <2>1. /\ latest' = latest /\ zip' = zip /\ rec' = rec /\ src' = src /\ cgcache' = cgcache
          /\ eng' = eng /\ obj' = obj /\ rel' = rel
      BY <1>18 DEF HarvestProfiles
    <2>2. sdk' \in [Slots -> Kits]
      BY <1>18, <1>1, <1>2, <1>3 DEF Kits, HarvestProfiles, Early
    <2>3. JobGoes
      BY <1>18, <1>2, <1>3, <2>1, Goes DEF JobGoes, HarvestProfiles, Early, Phases
    <2>4. QED
      BY <1>1, <1>2, <2>1, <2>2, <2>3, StepTyped DEF JobGoes
  <1>19. CASE CheckBios
    <2>1. /\ latest' = latest /\ zip' = zip /\ rec' = rec /\ src' = src /\ sdk' = sdk
          /\ obj' = obj /\ rel' = rel /\ bjob.pc \notin Early
      BY <1>19 DEF CheckBios, Early
    <2>2. eng' \in [Revs -> Engines]
      BY <1>19, <1>2, <1>3, <2>1 DEF CheckBios, Engines
    <2>3. cgcache' \in [Ports -> Caches]
      <3>1. NewBios(cgcache, T, {}, {}, [cgcache EXCEPT ![T].bios = {}, ![T].bstamp = {}])
        BY <1>2, CacheGets
      <3>2. cgcache' = cgcache \/ NewBios(cgcache, T, {}, {}, cgcache')
        BY <1>19, <3>1 DEF CheckBios
      <3>3. QED
        BY <1>2, <3>2 DEF NewBios
    <2>4. bjob' \in Jobs /\ SameJob /\ src'[T].link \in Revs
      BY <1>19, <1>2, <1>3, <2>1 DEF CheckBios, Phases, SameJob, Jobs, Kits
    <2>9. QED
      BY <1>1, <1>2, <2>1, <2>2, <2>3, <2>4, StepTyped
  <1>20. CASE SkipGenerate
    <2>1. /\ latest' = latest /\ zip' = zip /\ rec' = rec /\ cgcache' = cgcache /\ eng' = eng
          /\ sdk' = sdk /\ obj' = obj /\ rel' = rel
      BY <1>20 DEF SkipGenerate
    <2>2. src' \in [Ports -> Trees] /\ (src'[T].link = src[T].link \/ src'[T].link \in Revs)
      BY <1>20, <1>1, <1>2, <1>3 DEF Trees, SkipGenerate, Early
    <2>3. JobGoes
      BY <1>20, <1>2, <1>3, <2>1, <2>2, Goes DEF JobGoes, SkipGenerate, Early, Phases
    <2>4. QED
      BY <1>1, <1>2, <2>1, <2>2, <2>3, StepTyped DEF JobGoes
  <1>21. CASE RestoreCache
    <2>1. /\ latest' = latest /\ zip' = zip /\ rec' = rec /\ cgcache' = cgcache /\ sdk' = sdk
          /\ obj' = obj /\ rel' = rel /\ bjob.pc \notin Early
      BY <1>21 DEF RestoreCache, Early
    <2>2. src' \in [Ports -> Trees] /\ src'[T].link = src[T].link
      BY <1>21, <1>2, <1>3 DEF RestoreCache, Trees, Caches
    <2>3. eng' \in [Revs -> Engines]
      <3>1. cgcache[T].bios \in SUBSET SUBSET Revs /\ cgcache[T].bstamp \in SUBSET Revs
        BY <1>3 DEF Caches
      <3>2. NewEngine(eng, src[T].link, cgcache[T].bios, cgcache[T].bstamp,
                      [eng EXCEPT ![src[T].link].bios = cgcache[T].bios,
                                  ![src[T].link].bstamp = cgcache[T].bstamp])
        BY <1>2, <1>3, <2>1, <3>1, EngineGets
      <3>3. eng' = eng \/ NewEngine(eng, src[T].link, cgcache[T].bios, cgcache[T].bstamp, eng')
        BY <1>21, <3>2 DEF RestoreCache
      <3>4. QED
        BY <1>2, <3>3 DEF NewEngine
    <2>4. bjob' \in Jobs /\ SameJob /\ src'[T].link \in Revs
      BY <1>21, <1>2, <1>3, <2>1, <2>2, Goes DEF RestoreCache, Phases
    <2>9. QED
      BY <1>1, <1>2, <2>1, <2>2, <2>3, <2>4, StepTyped
  <1>22. CASE GenerateBegins
    <2>1. /\ latest' = latest /\ zip' = zip /\ rec' = rec /\ cgcache' = cgcache /\ sdk' = sdk
          /\ obj' = obj /\ rel' = rel /\ bjob.pc \notin Early
      BY <1>22 DEF GenerateBegins, Early
    <2>2. src' \in [Ports -> Trees] /\ src'[T].link = src[T].link
      BY <1>22, <1>2, <1>3 DEF GenerateBegins, Trees
    <2>3. eng' \in [Revs -> Engines]
      <3>1. \/ eng' = eng
            \/ eng' = [eng EXCEPT ![src[T].link].bios = @ \cup {Emitters}]
        BY <1>22 DEF GenerateBegins
      <3>2. {Emitters} \in SUBSET SUBSET Revs /\ src[T].link \in Revs
        BY <1>3, <2>1
      <3>3. NewEngine(eng, src[T].link, Linked.bios \cup {Emitters}, Linked.bstamp,
                      [eng EXCEPT ![src[T].link].bios = @ \cup {Emitters}])
        BY <1>2, <3>2, EngineMore DEF Linked
      <3>4. QED
        BY <1>2, <3>1, <3>3 DEF NewEngine
    <2>4. bjob' \in Jobs /\ SameJob /\ src'[T].link \in Revs
      <3>1. EmitsBios \in BOOLEAN
        BY BuildAssumption DEF EmitsBios
      <3>2. bjob' = [bjob EXCEPT !.pc = "generate", !.bios = EmitsBios]
        BY <1>22 DEF GenerateBegins
      <3>3. QED
        BY <1>2, <1>3, <2>1, <2>2, <3>1, <3>2 DEF Phases, SameJob, Jobs
    <2>9. QED
      BY <1>1, <1>2, <2>1, <2>2, <2>3, <2>4, StepTyped
  <1>23. CASE GenerateEnds
    <2>1. /\ latest' = latest /\ zip' = zip /\ rec' = rec /\ cgcache' = cgcache /\ sdk' = sdk
          /\ obj' = obj /\ rel' = rel /\ bjob.pc \notin Early
      BY <1>23 DEF GenerateEnds, Early
    <2>2. src' \in [Ports -> Trees] /\ src'[T].link = src[T].link
      BY <1>23, <1>2, <1>3 DEF GenerateEnds, Trees
    <2>3. eng' \in [Revs -> Engines]
      <3>1. \/ eng' = eng
            \/ eng' = [eng EXCEPT ![src[T].link].bios = {Emitters}]
        BY <1>23 DEF GenerateEnds
      <3>2. {Emitters} \in SUBSET SUBSET Revs /\ src[T].link \in Revs
        BY <1>3, <2>1
      <3>3. QED
        BY <1>2, <3>1, <3>2 DEF Engines
    <2>4. bjob' \in Jobs /\ SameJob /\ src'[T].link \in Revs
      BY <1>23, <1>2, <1>3, <2>1, <2>2, Goes DEF GenerateEnds, Phases
    <2>9. QED
      BY <1>1, <1>2, <2>1, <2>2, <2>3, <2>4, StepTyped
  <1>24. CASE GenerateFails
    <2>1. /\ latest' = latest /\ zip' = zip /\ rec' = rec /\ src' = src /\ cgcache' = cgcache
          /\ eng' = eng /\ sdk' = sdk /\ obj' = obj /\ rel' = rel
      BY <1>24 DEF GenerateFails
    <2>2. JobGoes
      BY <1>24, Stops DEF JobGoes, GenerateFails
    <2>3. QED
      BY <1>1, <1>2, <2>1, <2>2, StepTyped DEF JobGoes
  <1>25. CASE SdkGone
    <2>1. /\ latest' = latest /\ zip' = zip /\ rec' = rec /\ src' = src /\ cgcache' = cgcache
          /\ eng' = eng /\ sdk' = sdk /\ obj' = obj /\ rel' = rel
      BY <1>25 DEF SdkGone
    <2>2. JobGoes
      BY <1>25, Stops DEF JobGoes, SdkGone
    <2>3. QED
      BY <1>1, <1>2, <2>1, <2>2, StepTyped DEF JobGoes
  <1>26. CASE StampBios
    <2>1. /\ latest' = latest /\ zip' = zip /\ rec' = rec /\ src' = src /\ cgcache' = cgcache
          /\ sdk' = sdk /\ obj' = obj /\ rel' = rel
      BY <1>26 DEF StampBios
    <2>2. eng' \in [Revs -> Engines]
      BY <1>26, <1>1, <1>2, <1>3 DEF Engines, StampBios, Early
    <2>3. JobGoes
      BY <1>26, <1>2, <1>3, <2>1, Goes DEF JobGoes, StampBios, Early, Phases
    <2>4. QED
      BY <1>1, <1>2, <2>1, <2>2, <2>3, StepTyped DEF JobGoes
  <1>27. CASE CacheCopy
    <2>1. /\ latest' = latest /\ zip' = zip /\ rec' = rec /\ src' = src /\ eng' = eng /\ sdk' = sdk
          /\ obj' = obj /\ rel' = rel
      BY <1>27 DEF CacheCopy
    <2>2. cgcache' \in [Ports -> Caches]
      BY <1>27, <1>1, <1>2, <1>3 DEF Trees, Caches, Engines, CacheCopy, Early
    <2>3. JobGoes
      BY <1>27, <1>2, <1>3, <2>1, Goes DEF JobGoes, CacheCopy, Early, Phases
    <2>4. QED
      BY <1>1, <1>2, <2>1, <2>2, <2>3, StepTyped DEF JobGoes
  <1>28. CASE StampCache
    <2>1. /\ latest' = latest /\ zip' = zip /\ rec' = rec /\ src' = src /\ eng' = eng /\ sdk' = sdk
          /\ obj' = obj /\ rel' = rel
      BY <1>28 DEF StampCache
    <2>2. cgcache' \in [Ports -> Caches]
      BY <1>28, <1>1, <1>2, <1>3 DEF Caches, StampCache, Early
    <2>3. JobGoes
      BY <1>28, <1>2, <1>3, <2>1, Goes DEF JobGoes, StampCache, Early, Phases
    <2>4. QED
      BY <1>1, <1>2, <2>1, <2>2, <2>3, StepTyped DEF JobGoes
  <1>29. CASE StampSource
    <2>1. /\ latest' = latest /\ zip' = zip /\ rec' = rec /\ cgcache' = cgcache /\ eng' = eng
          /\ sdk' = sdk /\ obj' = obj /\ rel' = rel
      BY <1>29 DEF StampSource
    <2>2. src' \in [Ports -> Trees] /\ (src'[T].link = src[T].link \/ src'[T].link \in Revs)
      BY <1>29, <1>1, <1>2, <1>3 DEF Trees, StampSource, Early
    <2>3. JobGoes
      BY <1>29, <1>2, <1>3, <2>1, <2>2, Goes DEF JobGoes, StampSource, Early, Phases
    <2>4. QED
      BY <1>1, <1>2, <2>1, <2>2, <2>3, StepTyped DEF JobGoes
  <1>30. CASE Compile
    <2>1. /\ latest' = latest /\ zip' = zip /\ rec' = rec /\ src' = src /\ cgcache' = cgcache
          /\ eng' = eng /\ sdk' = sdk /\ rel' = rel
      BY <1>30 DEF Compile
    <2>2. obj' \in [Ports -> Binaries]
      BY <1>30, <1>1, <1>2, <1>3 DEF Compiled, Binaries, Trees, Engines, Compile, Early
    <2>3. JobGoes
      BY <1>30, <1>2, <1>3, <2>1, Goes DEF JobGoes, Compile, Early, Phases
    <2>4. QED
      BY <1>1, <1>2, <2>1, <2>2, <2>3, StepTyped DEF JobGoes
  <1>31. CASE CompileFails
    <2>1. /\ latest' = latest /\ zip' = zip /\ rec' = rec /\ src' = src /\ cgcache' = cgcache
          /\ eng' = eng /\ sdk' = sdk /\ obj' = obj /\ rel' = rel
      BY <1>31 DEF CompileFails
    <2>2. JobGoes
      BY <1>31, Stops DEF JobGoes, CompileFails
    <2>3. QED
      BY <1>1, <1>2, <2>1, <2>2, StepTyped DEF JobGoes
  <1>32. CASE Stage
    <2>1. /\ latest' = latest /\ zip' = zip /\ rec' = rec /\ src' = src /\ cgcache' = cgcache
          /\ eng' = eng /\ sdk' = sdk /\ obj' = obj
      BY <1>32 DEF Stage
    <2>2. rel' \in [Ports -> Binaries]
      BY <1>32, <1>1, <1>2, <1>3 DEF Stage, Early
    <2>3. JobGoes
      BY <1>32, <1>2, <1>3, <2>1, Goes DEF JobGoes, Stage, Early, Phases
    <2>4. QED
      BY <1>1, <1>2, <2>1, <2>2, <2>3, StepTyped DEF JobGoes
  <1>33. CASE Record
    <2>1. /\ latest' = latest /\ zip' = zip /\ src' = src /\ cgcache' = cgcache /\ eng' = eng
          /\ sdk' = sdk /\ obj' = obj /\ rel' = rel
      BY <1>33 DEF Record
    <2>2. rec' \in [Ports -> 0 .. MaxTag]
      BY <1>33, <1>1, <1>2, <1>3 DEF Record, Early
    <2>3. JobGoes
      BY <1>33, <1>2, <1>3, <2>1, Goes DEF JobGoes, Record, Early, Phases
    <2>4. QED
      BY <1>1, <1>2, <2>1, <2>2, <2>3, StepTyped DEF JobGoes
  <1>34. ASSUME NEW c \in BOOLEAN, PruneBuild(c)
        PROVE  BpTyped' /\ AtWork'
    <2>1. /\ latest' = latest /\ zip' = zip /\ rec' = rec /\ src' = src /\ cgcache' = cgcache
          /\ eng' = eng /\ sdk' = sdk /\ rel' = rel
      BY <1>34 DEF PruneBuild
    <2>2. obj' \in [Ports -> Binaries]
      BY <1>34, <1>1, <1>2, <1>3, NothingTyped DEF PruneBuild, Early
    <2>3. JobGoes
      BY <1>34, Stops DEF JobGoes, PruneBuild
    <2>4. QED
      BY <1>1, <1>2, <2>1, <2>2, <2>3, StepTyped DEF JobGoes
  <1>35. QED
    BY <1>4, <1>5, <1>6, <1>7, <1>8, <1>9, <1>10, <1>11, <1>12, <1>13, <1>14, <1>15, <1>16, <1>17,
       <1>18, <1>19, <1>20, <1>21, <1>22, <1>23, <1>24, <1>25, <1>26, <1>27, <1>28, <1>29, <1>30,
       <1>31, <1>32, <1>33, <1>34
    DEF BuildStep

(* A build that begins, from the hub or the command line, is of a release  *)
(* there is.                                                               *)
LEMMA BeginIs ==
  ASSUME BpTyped, NEW t \in Ports, NEW rom \in Roms, NEW force \in BOOLEAN, NEW regen \in BOOLEAN,
         NEW online \in BOOLEAN, Begin(t, rom, force, regen, online)
  PROVE  /\ bjob' \in Jobs /\ bjob'.pc = "source" /\ bjob'.t = t /\ bjob.pc = "idle"
         /\ bjob'.tag = Resolved(t, online) /\ bjob'.tag \in Tags /\ bjob'.rom \in Roms
         /\ bjob'.tag = latest[t] \/ bjob'.tag = zip[t]
  <1>1. Resolved(t, online) \in {latest[t], zip[t]} /\ Resolved(t, online) > 0
    BY DEF Begin, Resolved
  <1>2. Resolved(t, online) \in Tags /\ Resolved(t, online) \in 0 .. MaxTag
    BY <1>1, RevsIs DEF BpTyped, Tags
  <1>3. {} \in SUBSET Revs
    OBVIOUS
  <1>4. QED
    BY <1>1, <1>2, <1>3 DEF Begin, Jobs, Phases

Begins(t) ==
    \E rom \in Roms, force \in BOOLEAN, regen \in BOOLEAN, online \in BOOLEAN :
        Begin(t, rom, force, regen, online)
Kept == <<latest, zip, rec, eng, sdk>>
LEMMA TitleSteps ==
  ASSUME NEW t \in Ports, NEW rom \in Roms, NEW online \in BOOLEAN, NEW force \in BOOLEAN,
         \/ InstallTitle(t, rom, online) \/ UpdateTitle(t, rom, online)
         \/ RebuildTitle(t, rom, online) \/ BuildTitle(t, rom, force, online)
  PROVE  /\ Begins(t) /\ UNCHANGED Kept
         /\ \/ /\ rec[t] = 0 /\ src' = [src EXCEPT ![t] = NoSource]
               /\ cgcache' = [cgcache EXCEPT ![t] = NoCache]
               /\ obj' = [obj EXCEPT ![t] = NoBinary] /\ rel' = [rel EXCEPT ![t] = NoBinary]
            \/ UNCHANGED <<src, cgcache, obj, rel>>
  <1>1. CASE InstallTitle(t, rom, online)
    <2>1. (src[t].files # {}) \in BOOLEAN
      OBVIOUS
    <2>2. QED
      BY <1>1, <2>1 DEF InstallTitle, Begins, Kept
  <1>2. CASE UpdateTitle(t, rom, online)
    BY <1>2 DEF UpdateTitle, Begins, Kept
  <1>3. CASE RebuildTitle(t, rom, online)
    BY <1>3 DEF RebuildTitle, Begins, Kept
  <1>4. CASE BuildTitle(t, rom, force, online)
    BY <1>4 DEF BuildTitle, Begins, Kept
  <1>5. QED
    BY <1>1, <1>2, <1>3, <1>4

(* What is not a step of the build: a release, a build that begins or      *)
(* dies, and the pruning of the slots.                                     *)
NothingBuilt == UNCHANGED <<zip, src, cgcache, eng, obj, rel, rec>>
Pruned ==
    /\ sdk' \in [Slots -> Kits]
    /\ \A s \in Slots : sdk'[s] = sdk[s] \/ sdk'[s] = [revs |-> {}, stage |-> 0]
LEMMA OtherSteps ==
  ASSUME BpTyped, BuildNext
  PROVE  \/ BuildStep
         \/ \E t \in Ports : /\ latest[t] < MaxTag /\ latest' = [latest EXCEPT ![t] = @ + 1]
                             /\ NothingBuilt /\ UNCHANGED <<sdk, bjob>>
         \/ \E t \in Ports : /\ Begins(t) /\ UNCHANGED Kept
               /\ \/ /\ rec[t] = 0 /\ src' = [src EXCEPT ![t] = NoSource]
                     /\ cgcache' = [cgcache EXCEPT ![t] = NoCache]
                     /\ obj' = [obj EXCEPT ![t] = NoBinary] /\ rel' = [rel EXCEPT ![t] = NoBinary]
                  \/ UNCHANGED <<src, cgcache, obj, rel>>
         \/ NothingBuilt /\ UNCHANGED latest /\ Pruned /\ UNCHANGED bjob
         \/ NothingBuilt /\ UNCHANGED <<latest, sdk>> /\ bjob.pc # "idle" /\ Stop
  <1>1. ASSUME NEW t \in Ports, Publish(t)
        PROVE  /\ latest[t] < MaxTag /\ latest' = [latest EXCEPT ![t] = @ + 1]
               /\ NothingBuilt /\ UNCHANGED <<sdk, bjob>>
    BY <1>1 DEF Publish, NothingBuilt
  <1>2. CASE GcLooks
    BY <1>2 DEF GcLooks, NothingBuilt, Pruned, BpTyped
  <1>3. CASE GcRemoves
    <2>1. [revs |-> {}, stage |-> 0] \in Kits
      BY DEF Kits
    <2>2. QED
      BY <1>3, <2>1 DEF GcRemoves, NothingBuilt, Pruned, BpTyped
  <1>4. CASE BuildDies
    BY <1>4 DEF BuildDies, NothingBuilt
  <1>5. ASSUME NEW t \in Ports, NEW rom \in Roms, NEW online \in BOOLEAN,
               \/ InstallTitle(t, rom, online) \/ UpdateTitle(t, rom, online)
               \/ RebuildTitle(t, rom, online)
               \/ \E force \in BOOLEAN : BuildTitle(t, rom, force, online)
        PROVE  /\ Begins(t) /\ UNCHANGED Kept
               /\ \/ /\ rec[t] = 0 /\ src' = [src EXCEPT ![t] = NoSource]
                     /\ cgcache' = [cgcache EXCEPT ![t] = NoCache]
                     /\ obj' = [obj EXCEPT ![t] = NoBinary] /\ rel' = [rel EXCEPT ![t] = NoBinary]
                  \/ UNCHANGED <<src, cgcache, obj, rel>>
    BY <1>5, TitleSteps
  <1>6. QED
    BY <1>1, <1>2, <1>3, <1>4, <1>5 DEF BuildNext

LEMMA BpStep == BpTyped /\ AtWork /\ [BuildNext]_bpVars => BpTyped' /\ AtWork'
  <1> SUFFICES ASSUME BpTyped, AtWork, [BuildNext]_bpVars PROVE BpTyped' /\ AtWork'
    OBVIOUS
  <1>1. CASE BuildStep
    BY <1>1, BpStepTyped
  <1>2. ASSUME NEW t \in Ports, latest[t] < MaxTag, latest' = [latest EXCEPT ![t] = @ + 1],
               NothingBuilt, UNCHANGED <<sdk, bjob>>
        PROVE  BpTyped' /\ AtWork'
    <2>1. latest' \in [Ports -> Tags]
      BY <1>2, RevsIs DEF BpTyped, Tags
    <2>2. QED
      BY <1>2, <2>1 DEF NothingBuilt, BpTyped, AtWork, T
  <1>3. ASSUME NEW t \in Ports, Begins(t), UNCHANGED Kept,
               \/ /\ rec[t] = 0 /\ src' = [src EXCEPT ![t] = NoSource]
                  /\ cgcache' = [cgcache EXCEPT ![t] = NoCache]
                  /\ obj' = [obj EXCEPT ![t] = NoBinary] /\ rel' = [rel EXCEPT ![t] = NoBinary]
               \/ UNCHANGED <<src, cgcache, obj, rel>>
        PROVE  BpTyped' /\ AtWork'
    <2>1. /\ bjob' \in Jobs /\ bjob'.pc = "source" /\ bjob'.t = t
          /\ bjob'.tag \in Tags /\ bjob'.rom \in Roms
      BY <1>3, BeginIs DEF Begins
    <2>2. /\ src' \in [Ports -> Trees] /\ cgcache' \in [Ports -> Caches]
          /\ obj' \in [Ports -> Binaries] /\ rel' \in [Ports -> Binaries]
      BY <1>3, NothingTyped DEF BpTyped
    <2>3. QED
      BY <1>3, <2>1, <2>2 DEF BpTyped, AtWork, T, Early, Kept
  <1>4. CASE NothingBuilt /\ UNCHANGED latest /\ Pruned /\ UNCHANGED bjob
    BY <1>4 DEF NothingBuilt, Pruned, BpTyped, AtWork, T
  <1>5. CASE NothingBuilt /\ UNCHANGED <<latest, sdk>> /\ Stop
    BY <1>5, Stops DEF NothingBuilt, BpTyped
  <1>6. CASE UNCHANGED bpVars
    BY <1>6 DEF bpVars, BpTyped, AtWork, T
  <1>7. QED
    BY <1>1, <1>2, <1>3, <1>4, <1>5, <1>6, OtherSteps

-----------------------------------------------------------------------------
(* A source tree whose marker names a release holds that release alone, or *)
(* a newer one was copied over it by a build that was cut: the next build  *)
(* is of a newer release than the marker says, and copies again.           *)
Within(t, n) ==
    /\ src[t].marker <= n
    /\ src[t].files # {src[t].marker} => src[t].marker < n
MarkerTells(t) ==
    src[t].marker # 0 => Within(t, latest[t]) /\ (zip[t] # 0 => Within(t, zip[t]))
(* Neither the record nor a kept zip is ahead of what is published, and    *)
(* the record is not ahead of the zip.                                     *)
RecordBehind(t) ==
    zip[t] <= latest[t] /\ rec[t] <= latest[t] /\ (zip[t] # 0 => rec[t] <= zip[t])
StagedWhole(t) ==
    rel[t] # NoBinary => \E n \in Tags : rel[t].files = {n} /\ rec[t] <= n
Whole == {"engine", "mark", "pack", "place", "tools", "emitters", "profiles", "bios", "decide",
          "generate", "stampbios", "cache", "stampcache", "stampsrc", "compile"}
JobTells ==
    bjob.pc # "idle" =>
        /\ rec[T] <= bjob.tag /\ bjob.tag <= latest[T]
        /\ bjob.pc = "source" /\ src[T].marker # 0 => Within(T, bjob.tag)
        /\ bjob.pc # "source" => (zip[T] # 0 => bjob.tag <= zip[T])
        /\ bjob.pc \in {"sync", "promote"} => zip[T] = bjob.tag
        /\ bjob.pc \in Whole => src[T].files = {bjob.tag}
        /\ bjob.pc = "stage" => obj[T].files = {bjob.tag}
        /\ bjob.pc = "record" => rel[T].files = {bjob.tag}
RelInv ==
    /\ \A t \in Ports : MarkerTells(t) /\ RecordBehind(t) /\ StagedWhole(t)
    /\ JobTells

LEMMA RelInit == BuildInit => RelInv
  <1> SUFFICES ASSUME BuildInit PROVE RelInv
    OBVIOUS
  <1>1. \A t \in Ports : /\ src[t].marker = 0 /\ zip[t] = 0 /\ rec[t] = 0
                         /\ latest[t] = 1 /\ rel[t] = NoBinary
    BY DEF BuildInit, NoSource
  <1>2. bjob.pc = "idle"
    BY NothingTyped DEF BuildInit
  <1>3. QED
    BY <1>1, <1>2 DEF RelInv, MarkerTells, RecordBehind, StagedWhole, JobTells

(* What a step of the build does to the releases.                          *)
Others == \A u \in Ports : u # T => /\ src'[u] = src[u] /\ zip'[u] = zip[u] /\ rec'[u] = rec[u]
                                    /\ rel'[u] = rel[u] /\ obj'[u] = obj[u]
SameTree == src'[T].files = src[T].files /\ src'[T].marker = src[T].marker
SameRest == zip'[T] = zip[T] /\ rec'[T] = rec[T] /\ rel'[T] = rel[T] /\ obj'[T] = obj[T]
Effects ==
    /\ Others /\ latest' = latest
    /\ \/ /\ bjob'.pc = "idle" /\ SameTree /\ rec'[T] = rec[T] /\ rel'[T] = rel[T]
          /\ zip'[T] \in {0, zip[T]}
       \/ /\ SameJob
          /\ \/ /\ bjob.pc = "source" /\ bjob'.pc = "pack" /\ src[T].marker = bjob.tag
                /\ SameTree /\ SameRest
             \/ /\ bjob.pc = "source" /\ bjob'.pc = "sync" /\ zip'[T] = bjob.tag
                /\ SameTree /\ rec'[T] = rec[T] /\ rel'[T] = rel[T]
             \/ /\ bjob.pc = "source" /\ bjob'.pc = "source" /\ zip'[T] = 0
                /\ SameTree /\ rec'[T] = rec[T] /\ rel'[T] = rel[T]
             \/ /\ bjob.pc = "sync" /\ bjob'.pc = "promote" /\ SameRest
                /\ src'[T].files = src[T].files \cup {bjob.tag} /\ src'[T].marker = src[T].marker
             \/ /\ bjob.pc = "promote" /\ bjob'.pc = "engine" /\ SameRest
                /\ src'[T].files = {bjob.tag} /\ src'[T].marker = 0
             \/ /\ bjob.pc = "mark" /\ bjob'.pc = "pack" /\ SameRest
                /\ src'[T].files = src[T].files /\ src'[T].marker = bjob.tag
             \/ bjob.pc \in Whole /\ bjob'.pc \in Whole /\ SameTree /\ SameRest
             \/ /\ bjob.pc = "compile" /\ bjob'.pc = "stage" /\ obj'[T].files = src[T].files
                /\ SameTree /\ rec'[T] = rec[T] /\ rel'[T] = rel[T] /\ zip'[T] = zip[T]
             \/ /\ bjob.pc = "stage" /\ bjob'.pc = "record" /\ rel'[T] = obj[T]
                /\ SameTree /\ rec'[T] = rec[T] /\ zip'[T] = zip[T]
             \/ /\ bjob.pc = "record" /\ bjob'.pc = "prune" /\ rec'[T] = bjob.tag
                /\ SameTree /\ rel'[T] = rel[T] /\ zip'[T] = zip[T]
LEMMA BuildEffects ==
  ASSUME BpTyped, AtWork, BuildStep
  PROVE  Effects
  <1>1. bjob.pc # "idle"
    BY BuildRuns
  <1>2. /\ T \in Ports /\ bjob.tag \in Tags /\ bjob \in Jobs
        /\ zip \in [Ports -> 0 .. MaxTag] /\ rec \in [Ports -> 0 .. MaxTag]
        /\ src \in [Ports -> Trees] /\ obj \in [Ports -> Binaries] /\ rel \in [Ports -> Binaries]
    BY <1>1 DEF BpTyped, AtWork
  <1>3. CASE ReuseSource
    BY <1>3, <1>2, Goes, Stops
    DEF ReuseSource, UpToDate, Trees, Phases, Effects, Others, SameTree, SameRest, SameJob, Whole
  <1>4. CASE Extract
    BY <1>4, <1>2, Goes, Stops
    DEF Extract, Trees, Phases, Effects, Others, SameTree, SameRest, SameJob, Whole
  <1>5. CASE BadZip
    BY <1>5, <1>2, Goes, Stops
    DEF BadZip, Trees, Phases, Effects, Others, SameTree, SameRest, SameJob, Whole
  <1>6. CASE SyncCopy
    BY <1>6, <1>2, Goes, Stops
    DEF SyncCopy, Trees, Phases, Effects, Others, SameTree, SameRest, SameJob, Whole
  <1>7. CASE SyncPrune
    BY <1>7, <1>2, Goes, Stops
    DEF SyncPrune, Trees, Phases, Effects, Others, SameTree, SameRest, SameJob, Whole
  <1>8. CASE EngineCopy
    BY <1>8, <1>2, Goes, Stops
    DEF EngineCopy, Trees, Phases, Effects, Others, SameTree, SameRest, SameJob, Whole
  <1>9. CASE MarkSource
    BY <1>9, <1>2, Goes, Stops
    DEF MarkSource, LinkedTo, Trees, Phases, Effects, Others, SameTree, SameRest, SameJob, Whole
  <1>10. CASE UsePack
    BY <1>10, <1>2, Goes, Stops
    DEF UsePack, Trees, Phases, Effects, Others, SameTree, SameRest, SameJob, Whole
  <1>11. CASE FetchPack
    BY <1>11, <1>2, Goes, Stops
    DEF FetchPack, Trees, Phases, Effects, Others, SameTree, SameRest, SameJob, Whole
  <1>12. CASE PlacePack
    BY <1>12, <1>2, Goes, Stops
    DEF PlacePack, Trees, Phases, Effects, Others, SameTree, SameRest, SameJob, Whole
  <1>13. ASSUME NEW h \in BOOLEAN, HarvestPack(h) PROVE Effects
    BY <1>13, <1>2, Goes, Stops
    DEF HarvestPack, Trees, Phases, Effects, Others, SameTree, SameRest, SameJob, Whole
  <1>14. CASE ReuseSdk
    BY <1>14, <1>2, Goes, Stops
    DEF ReuseSdk, Trees, Phases, Effects, Others, SameTree, SameRest, SameJob, Whole
  <1>15. CASE HarvestCli
    BY <1>15, <1>2, Goes, Stops
    DEF HarvestCli, Trees, Phases, Effects, Others, SameTree, SameRest, SameJob, Whole
  <1>16. CASE HarvestEmitters
    BY <1>16, <1>2, Goes, Stops
    DEF HarvestEmitters, Trees, Phases, Effects, Others, SameTree, SameRest, SameJob, Whole
  <1>17. CASE HarvestProfiles
    BY <1>17, <1>2, Goes, Stops
    DEF HarvestProfiles, Trees, Phases, Effects, Others, SameTree, SameRest, SameJob, Whole
  <1>18. CASE CheckBios
    BY <1>18, <1>2, Goes, Stops
    DEF CheckBios, Trees, Phases, Effects, Others, SameTree, SameRest, SameJob, Whole
  <1>19. CASE SkipGenerate
    BY <1>19, <1>2, Goes, Stops
    DEF SkipGenerate, Trees, Phases, Effects, Others, SameTree, SameRest, SameJob, Whole
  <1>20. CASE RestoreCache
    BY <1>20, <1>2, Goes, Stops
    DEF RestoreCache, Trees, Phases, Effects, Others, SameTree, SameRest, SameJob, Whole
  <1>21. CASE GenerateBegins
    BY <1>21, <1>2, Goes, Stops
    DEF GenerateBegins, Trees, Phases, Effects, Others, SameTree, SameRest, SameJob, Whole
  <1>22. CASE GenerateEnds
    BY <1>22, <1>2, Goes, Stops
    DEF GenerateEnds, Trees, Phases, Effects, Others, SameTree, SameRest, SameJob, Whole
  <1>23. CASE GenerateFails
    BY <1>23, <1>2, Goes, Stops
    DEF GenerateFails, Trees, Phases, Effects, Others, SameTree, SameRest, SameJob, Whole
  <1>24. CASE SdkGone
    BY <1>24, <1>2, Goes, Stops
    DEF SdkGone, Trees, Phases, Effects, Others, SameTree, SameRest, SameJob, Whole
  <1>25. CASE StampBios
    BY <1>25, <1>2, Goes, Stops
    DEF StampBios, Trees, Phases, Effects, Others, SameTree, SameRest, SameJob, Whole
  <1>26. CASE CacheCopy
    BY <1>26, <1>2, Goes, Stops
    DEF CacheCopy, Trees, Phases, Effects, Others, SameTree, SameRest, SameJob, Whole
  <1>27. CASE StampCache
    BY <1>27, <1>2, Goes, Stops
    DEF StampCache, Trees, Phases, Effects, Others, SameTree, SameRest, SameJob, Whole
  <1>28. CASE StampSource
    BY <1>28, <1>2, Goes, Stops
    DEF StampSource, Trees, Phases, Effects, Others, SameTree, SameRest, SameJob, Whole
  <1>29. CASE Compile
    BY <1>29, <1>2, Goes, Stops
    DEF Compile, Compiled, Binaries, Trees, Phases, Effects, Others, SameTree, SameRest, SameJob,
        Whole
  <1>30. CASE CompileFails
    BY <1>30, <1>2, Goes, Stops
    DEF CompileFails, Trees, Phases, Effects, Others, SameTree, SameRest, SameJob, Whole
  <1>31. CASE Stage
    BY <1>31, <1>2, Goes, Stops
    DEF Stage, Trees, Phases, Effects, Others, SameTree, SameRest, SameJob, Whole
  <1>32. CASE Record
    BY <1>32, <1>2, Goes, Stops
    DEF Record, Trees, Phases, Effects, Others, SameTree, SameRest, SameJob, Whole
  <1>33. ASSUME NEW c \in BOOLEAN, PruneBuild(c) PROVE Effects
    BY <1>33, <1>2, Goes, Stops
    DEF PruneBuild, Trees, Phases, Effects, Others, SameTree, SameRest, SameJob, Whole
  <1>34. QED
    BY <1>3, <1>4, <1>5, <1>6, <1>7, <1>8, <1>9, <1>10, <1>11, <1>12, <1>13, <1>14, <1>15, <1>16,
       <1>17, <1>18, <1>19, <1>20, <1>21, <1>22, <1>23, <1>24, <1>25, <1>26, <1>27, <1>28, <1>29,
       <1>30, <1>31, <1>32, <1>33
    DEF BuildStep

LEMMA RelBuilds ==
  ASSUME BpTyped, AtWork, RelInv, BuildStep
  PROVE  RelInv'
  <1>1. bjob.pc # "idle"
    BY BuildRuns
  <1>2. T \in Ports /\ bjob.tag \in Tags
    BY <1>1 DEF AtWork
  <1>3. Effects /\ BpTyped'
    BY BuildEffects, BpStepTyped
  <1> PICK b \in Ports : b = T
    BY <1>2
  <1>4. /\ bjob.tag \in Nat /\ bjob.tag # 0 /\ latest' = latest /\ latest[b] \in Nat
        /\ zip[b] \in Nat /\ rec[b] \in Nat /\ src[b].marker \in Nat
        /\ zip'[b] \in Nat /\ rec'[b] \in Nat /\ src'[b].marker \in Nat
    BY <1>2, <1>3, RevsIs DEF BpTyped, Trees, Tags, Effects
  <1>5. /\ MarkerTells(b) /\ RecordBehind(b) /\ StagedWhole(b) /\ JobTells
    BY DEF RelInv
  <1>6. ASSUME NEW t \in Ports, t # T
        PROVE  MarkerTells(t)' /\ RecordBehind(t)' /\ StagedWhole(t)'
    BY <1>3, <1>6 DEF Effects, Others, RelInv, MarkerTells, RecordBehind, StagedWhole, Within
  <1>7. MarkerTells(b)' /\ RecordBehind(b)' /\ StagedWhole(b)' /\ JobTells'
    <2>1. CASE /\ bjob'.pc = "idle" /\ SameTree /\ rec'[T] = rec[T] /\ rel'[T] = rel[T]
               /\ zip'[T] \in {0, zip[T]}
      BY <1>4, <1>5, <2>1
      DEF SameTree, MarkerTells, RecordBehind, StagedWhole, JobTells, Within
    <2>2. CASE /\ SameJob /\ bjob.pc = "source" /\ bjob'.pc = "pack" /\ src[T].marker = bjob.tag
               /\ SameTree /\ SameRest
      BY <1>4, <1>5, <2>2
      DEF SameTree, SameRest, SameJob, MarkerTells, RecordBehind, StagedWhole, JobTells, Within, T,
          Whole
    <2>3. CASE /\ SameJob /\ bjob.pc = "source" /\ bjob'.pc = "sync" /\ zip'[T] = bjob.tag
               /\ SameTree /\ rec'[T] = rec[T] /\ rel'[T] = rel[T]
      BY <1>4, <1>5, <2>3
      DEF SameTree, SameJob, MarkerTells, RecordBehind, StagedWhole, JobTells, Within, T, Whole
    <2>4. CASE /\ SameJob /\ bjob.pc = "source" /\ bjob'.pc = "source" /\ zip'[T] = 0
               /\ SameTree /\ rec'[T] = rec[T] /\ rel'[T] = rel[T]
      BY <1>4, <1>5, <2>4
      DEF SameTree, SameJob, MarkerTells, RecordBehind, StagedWhole, JobTells, Within, T, Whole
    <2>5. CASE /\ SameJob /\ bjob.pc = "sync" /\ bjob'.pc = "promote" /\ SameRest
               /\ src'[T].files = src[T].files \cup {bjob.tag} /\ src'[T].marker = src[T].marker
      BY <1>4, <1>5, <2>5
      DEF SameRest, SameJob, MarkerTells, RecordBehind, StagedWhole, JobTells, Within, T, Whole
    <2>6. CASE /\ SameJob /\ bjob.pc = "promote" /\ bjob'.pc = "engine" /\ SameRest
               /\ src'[T].files = {bjob.tag} /\ src'[T].marker = 0
      BY <1>4, <1>5, <2>6
      DEF SameRest, SameJob, MarkerTells, RecordBehind, StagedWhole, JobTells, Within, T, Whole
    <2>7. CASE /\ SameJob /\ bjob.pc = "mark" /\ bjob'.pc = "pack" /\ SameRest
               /\ src'[T].files = src[T].files /\ src'[T].marker = bjob.tag
      BY <1>4, <1>5, <2>7
      DEF SameRest, SameJob, MarkerTells, RecordBehind, StagedWhole, JobTells, Within, T, Whole
    <2>8. CASE /\ SameJob /\ bjob.pc \in Whole /\ bjob'.pc \in Whole /\ SameTree /\ SameRest
      BY <1>4, <1>5, <2>8
      DEF SameTree, SameRest, SameJob, MarkerTells, RecordBehind, StagedWhole, JobTells, Within, T,
          Whole
    <2>9. CASE /\ SameJob /\ bjob.pc = "compile" /\ bjob'.pc = "stage"
               /\ obj'[T].files = src[T].files
               /\ SameTree /\ rec'[T] = rec[T] /\ rel'[T] = rel[T] /\ zip'[T] = zip[T]
      BY <1>4, <1>5, <2>9
      DEF SameTree, SameJob, MarkerTells, RecordBehind, StagedWhole, JobTells, Within, T, Whole
    <2>10. CASE /\ SameJob /\ bjob.pc = "stage" /\ bjob'.pc = "record" /\ rel'[T] = obj[T]
                /\ SameTree /\ rec'[T] = rec[T] /\ zip'[T] = zip[T]
      BY <1>2, <1>4, <1>5, <2>10
      DEF SameTree, SameJob, MarkerTells, RecordBehind, StagedWhole, JobTells, Within, T, Whole
    <2>11. CASE /\ SameJob /\ bjob.pc = "record" /\ bjob'.pc = "prune" /\ rec'[T] = bjob.tag
                /\ SameTree /\ rel'[T] = rel[T] /\ zip'[T] = zip[T]
      BY <1>2, <1>4, <1>5, <2>11
      DEF SameTree, SameJob, MarkerTells, RecordBehind, StagedWhole, JobTells, Within, T, Whole
    <2>12. QED
      BY <1>3, <2>1, <2>2, <2>3, <2>4, <2>5, <2>6, <2>7, <2>8, <2>9, <2>10, <2>11 DEF Effects
  <1>8. QED
    BY <1>6, <1>7 DEF RelInv

LEMMA RelStep == BpTyped /\ AtWork /\ RelInv /\ [BuildNext]_bpVars => RelInv'
  <1> SUFFICES ASSUME BpTyped, AtWork, RelInv, [BuildNext]_bpVars PROVE RelInv'
    OBVIOUS
  <1>0. \A t \in Ports : MarkerTells(t) /\ RecordBehind(t) /\ StagedWhole(t)
    BY DEF RelInv
  <1>1. CASE BuildStep
    BY <1>1, RelBuilds
  <1>2. ASSUME NEW t \in Ports, latest[t] < MaxTag, latest' = [latest EXCEPT ![t] = @ + 1],
               NothingBuilt, UNCHANGED <<sdk, bjob>>
        PROVE  RelInv'
    <2>1. \A u \in Ports : latest[u] \in Nat /\ latest'[u] \in Nat /\ latest[u] <= latest'[u]
      BY <1>2, RevsIs DEF BpTyped
    <2>2. \A u \in Ports : zip[u] \in Nat /\ rec[u] \in Nat /\ src[u].marker \in Nat
      BY DEF BpTyped, Trees
    <2>3. ASSUME NEW u \in Ports PROVE MarkerTells(u)' /\ RecordBehind(u)' /\ StagedWhole(u)'
      BY <1>0, <1>2, <2>1, <2>2 DEF NothingBuilt, MarkerTells, RecordBehind, StagedWhole, Within
    <2>4. JobTells'
      <3>1. bjob.pc # "idle" => T \in Ports /\ bjob.tag \in Nat
        BY RevsIs DEF AtWork
      <3>2. QED
        BY <1>2, <2>1, <2>2, <3>1 DEF RelInv, NothingBuilt, JobTells, Within, T
    <2>5. QED
      BY <2>3, <2>4 DEF RelInv
  <1>3. ASSUME NEW t \in Ports, Begins(t), UNCHANGED Kept,
               \/ /\ rec[t] = 0 /\ src' = [src EXCEPT ![t] = NoSource]
                  /\ cgcache' = [cgcache EXCEPT ![t] = NoCache]
                  /\ obj' = [obj EXCEPT ![t] = NoBinary] /\ rel' = [rel EXCEPT ![t] = NoBinary]
               \/ UNCHANGED <<src, cgcache, obj, rel>>
        PROVE  RelInv'
    <2>1. /\ bjob'.pc = "source" /\ bjob'.t = t /\ bjob'.tag \in Tags
          /\ bjob'.tag = latest[t] \/ bjob'.tag = zip[t]
      BY <1>3, BeginIs DEF Begins
    <2>2. UNCHANGED <<latest, zip, rec>>
      BY <1>3 DEF Kept
    <2>3. \A u \in Ports : \/ src'[u] = src[u] /\ rel'[u] = rel[u]
                           \/ src'[u].marker = 0 /\ rel'[u] = NoBinary
      BY <1>3 DEF BpTyped, NoSource
    <2>4. ASSUME NEW u \in Ports PROVE MarkerTells(u)' /\ RecordBehind(u)' /\ StagedWhole(u)'
      BY <1>0, <2>2, <2>3 DEF MarkerTells, RecordBehind, StagedWhole, Within
    <2>5. /\ bjob'.tag \in Nat /\ bjob'.tag # 0 /\ latest[t] \in Nat /\ zip[t] \in Nat
          /\ rec[t] \in Nat
      BY <2>1, RevsIs DEF BpTyped
    <2>6. MarkerTells(t)' /\ RecordBehind(t)' /\ t' = T'
      BY <2>1, <2>4 DEF T
    <2>7. JobTells'
      BY <2>1, <2>2, <2>5, <2>6 DEF JobTells, MarkerTells, RecordBehind, Whole
    <2>8. QED
      BY <2>4, <2>7 DEF RelInv
  <1>4. CASE NothingBuilt /\ UNCHANGED latest /\ Pruned /\ UNCHANGED bjob
    BY <1>0, <1>4 DEF RelInv, NothingBuilt, MarkerTells, RecordBehind, StagedWhole, JobTells, Within, T
  <1>5. CASE NothingBuilt /\ UNCHANGED <<latest, sdk>> /\ Stop
    <2>1. bjob'.pc = "idle"
      BY <1>5, Stops
    <2>2. QED
      BY <1>0, <1>5, <2>1
      DEF RelInv, NothingBuilt, MarkerTells, RecordBehind, StagedWhole, JobTells, Within
  <1>6. CASE UNCHANGED bpVars
    BY <1>0, <1>6 DEF bpVars, RelInv, MarkerTells, RecordBehind, StagedWhole, JobTells, Within, T
  <1>7. QED
    BY <1>1, <1>2, <1>3, <1>4, <1>5, <1>6, OtherSteps

(* What is installed was compiled from one release, and the record never   *)
(* names a newer one, whatever builds are cut, fail or follow one another, *)
(* and whatever the network gives (build.cpp:4013 and 4024).               *)
THEOREM OneReleaseHolds == BuildSpec => []OneRelease
  <1>1. RelInv => OneRelease
    BY DEF RelInv, StagedWhole, OneRelease
  <1>2. QED
    BY BpInit, RelInit, BpStep, RelStep, <1>1, PTL DEF BuildSpec

-----------------------------------------------------------------------------
(* A stamp on BIOS C names who wrote it, in an engine and in a cache; a    *)
(* cache that is stamped holds C.                                          *)
Attested(e) == e.bstamp # {} => e.bios = {e.bstamp}
CacheSound(t) == Attested(cgcache[t]) /\ (cgcache[t].stamp # NoStamp => cgcache[t].c # {})
(* What the build knows of the BIOS C beside the linked engine: none that  *)
(* is stale when it decides, its own when it compiles.                     *)
OwnBios == Linked.bios # {} /\ Linked.bstamp = Emitters
JobBios ==
    /\ bjob.pc = "decide" => (HasBios => Linked.bios = {} \/ Linked.bstamp = Emitters)
    /\ bjob.pc = "generate" => /\ bjob.bios => Linked.bstamp \in {{}, Emitters}
                               /\ ~bjob.bios => (HasBios => OwnBios)
    /\ bjob.pc = "stampbios" => src[T].c # {} /\ (HasBios => Linked.bios = {Emitters} \/ OwnBios)
    /\ bjob.pc \in {"cache", "stampcache", "stampsrc", "compile"} =>
          src[T].c # {} /\ (HasBios => OwnBios)
    /\ bjob.pc = "stampcache" => cgcache[T].c # {}
BiosInv ==
    /\ \A d \in Revs : Attested(eng[d])
    /\ \A t \in Ports : CacheSound(t)
    /\ JobBios

(* A commit whose key no other has is alone in the directory of its name;  *)
(* a build of a release that shares nothing is linked to its engine there, *)
(* and the slot, once filled, holds the emitters of that engine.           *)
Sole(r) == \A w \in Revs : ContentId(w) = ContentId(r) => w = r
DirTells(d) == \A w \in eng[d].revs : Sole(w) \/ Sole(d) => w = d
LinkTells(t) ==
    src[t].marker # 0 /\ Sole(EngineOf[t][src[t].marker])
        => src[t].link = EngineOf[t][src[t].marker]
SlotTells(t, n) ==
    Unshared(t, n) /\ sdk[SlotOf[t][n]].stage >= 2
        => sdk[SlotOf[t][n]].revs = {EngineOf[t][n]}
Fits(t, binary) ==
    HasBios /\ (\A n \in binary.files : Unshared(t, n)) => binary.bios = {binary.run}
JobFits ==
    bjob.pc # "idle" =>
        /\ Unshared(T, bjob.tag) =>
            /\ bjob.pc \in Whole \ {"engine", "mark"} => src[T].link = Rev /\ Linked.revs = {Rev}
            /\ bjob.pc \in {"decide", "generate", "stampbios", "cache", "stampcache", "stampsrc",
                            "compile"} => Emitters = {Rev}
        /\ bjob.pc \in {"profiles", "bios"} => sdk[SdkSlot].stage # 1
        /\ bjob.pc = "stage" => Fits(T, obj[T])
FitsInv ==
    /\ \A d \in Revs : DirTells(d)
    /\ \A t \in Ports : LinkTells(t) /\ (rel[t] # NoBinary => Fits(t, rel[t]))
    /\ \A t \in Ports, n \in Tags : SlotTells(t, n)
    /\ JobFits

LEMMA BiosInit == BuildInit => BiosInv /\ FitsInv
  <1> SUFFICES ASSUME BuildInit PROVE BiosInv /\ FitsInv
    OBVIOUS
  <1>1. /\ \A d \in Revs : eng[d].bstamp = {} /\ eng[d].revs = {}
        /\ \A t \in Ports : /\ cgcache[t].bstamp = {} /\ cgcache[t].stamp = NoStamp
                            /\ src[t].marker = 0 /\ rel[t] = NoBinary
        /\ \A s \in Slots : sdk[s].stage = 0
    BY DEF BuildInit, NoCache, NoSource
  <1>2. bjob.pc = "idle"
    BY NothingTyped DEF BuildInit
  <1>3. \A t \in Ports, n \in Tags : SlotTells(t, n)
    BY <1>1, RevsIs DEF SlotTells
  <1>4. QED
    BY <1>1, <1>2, <1>3 DEF BiosInv, FitsInv, CacheSound, Attested, JobBios, JobFits, LinkTells, DirTells

LEMMA RevIsOf ==
  ASSUME NEW w \in Revs
  PROVE  \E u \in Ports, m \in Tags : EngineOf[u][m] = w
  BY DEF Revs
(* A release that shares nothing has a key of its own, and so has the      *)
(* release of anyone who has its slot.                                     *)
LEMMA UnsharedSole ==
  ASSUME NEW t \in Ports, NEW n \in Tags, Unshared(t, n)
  PROVE  Sole(EngineOf[t][n])
  <1>1. ASSUME NEW w \in Revs, ContentId(w) = ContentId(EngineOf[t][n])
        PROVE  w = EngineOf[t][n]
    <2>1. PICK u \in Ports, m \in Tags : EngineOf[u][m] = w
      BY RevIsOf
    <2>2. QED
      BY <1>1, <2>1 DEF Unshared, SharesWith
  <1>2. QED
    BY <1>1 DEF Sole
LEMMA SlotMates ==
  ASSUME NEW t \in Ports, NEW n \in Tags, Unshared(t, n),
         NEW u \in Ports, NEW m \in Tags, SlotOf[u][m] = SlotOf[t][n]
  PROVE  EngineOf[u][m] = EngineOf[t][n] /\ Unshared(u, m)
  <1>1. EngineOf[u][m] = EngineOf[t][n]
    BY DEF Unshared, SharesWith
  <1>2. QED
    BY <1>1 DEF Unshared, SharesWith

(* A commit whose key no other has gets the directory of its own name, and *)
(* no other commit gets that.                                              *)
LEMMA OwnDir ==
  ASSUME BpTyped, FitsInv, NEW w \in Revs
  PROVE  EngineDir(w) \in Revs /\ (Sole(w) \/ Sole(EngineDir(w)) => EngineDir(w) = w)
  <1> DEFINE same == {d \in Revs : \E x \in eng[d].revs : ContentId(x) = ContentId(w)}
  <1>1. EngineDir(w) = IF same = {} THEN w ELSE CHOOSE d \in same : TRUE
    BY DEF EngineDir
  <1>2. CASE same = {}
    BY <1>1, <1>2
  <1>3. CASE same # {}
    <2>1. EngineDir(w) \in same
      BY <1>1, <1>3
    <2>2. PICK x \in eng[EngineDir(w)].revs : ContentId(x) = ContentId(w)
      BY <2>1
    <2>3. EngineDir(w) \in Revs
      BY <2>1
    <2>4. Sole(x) \/ Sole(EngineDir(w)) => x = EngineDir(w)
      BY <2>2, <2>3 DEF FitsInv, DirTells
    <2>5. x \in Revs
      BY <2>2, <2>3 DEF BpTyped, Engines
    <2>6. QED
      BY <2>2, <2>3, <2>4, <2>5 DEF Sole
  <1>4. QED
    BY <1>2, <1>3

(* A step that leaves the engines, the caches, the slots and the C alone,  *)
(* and goes on to where no more is known than before.                      *)
Unphased == {"idle", "source", "sync", "promote", "engine", "mark", "pack", "place", "tools",
             "emitters", "profiles", "bios", "record", "prune"}
LEMMA BiosPlain ==
  ASSUME BiosInv, UNCHANGED eng, bjob'.pc \in Unphased,
         \A t \in Ports : CacheSound(t)'
  PROVE  BiosInv'
  BY DEF BiosInv, JobBios, Unphased, Attested
LEMMA StashSound ==
  ASSUME BpTyped, BiosInv, T \in Ports, cgcache' = StashedBios(T)
  PROVE  \A t \in Ports : CacheSound(t)'
  <1>1. ASSUME NEW t \in Ports
        PROVE  Attested(StashedBios(T)[t]) /\ StashedBios(T)[t].c = cgcache[t].c
               /\ StashedBios(T)[t].stamp = cgcache[t].stamp
    BY StashedIs DEF BiosInv, CacheSound, Attested, Linked
  <1>2. QED
    BY <1>1 DEF BiosInv, CacheSound, Attested

LEMMA BiosBuilds ==
  ASSUME BpTyped, AtWork, BiosInv, BuildStep
  PROVE  BiosInv'
  <1>1. bjob.pc # "idle" /\ BpTyped'
    BY BuildRuns, BpStepTyped
  <1>2. /\ T \in Ports /\ bjob \in Jobs /\ src \in [Ports -> Trees] /\ cgcache \in [Ports -> Caches]
        /\ eng \in [Revs -> Engines] /\ sdk \in [Slots -> Kits]
        /\ src[T] \in Trees /\ cgcache[T] \in Caches /\ Emitters \in SUBSET Revs
        /\ (bjob.pc \notin Early => Linked \in Engines /\ src[T].link \in Revs)
    BY <1>1, LooksTyped DEF BpTyped
  <1>3. (\A d \in Revs : Attested(eng[d])) /\ (\A t \in Ports : CacheSound(t)) /\ JobBios
    BY DEF BiosInv
  <1>4. ASSUME UNCHANGED <<eng, cgcache>>, bjob'.pc \in Unphased
        PROVE  BiosInv'
    BY <1>3, <1>4, BiosPlain DEF CacheSound, Attested
  <1>5. CASE ReuseSource
    <2>1. bjob'.pc \in Unphased
      BY <1>2, <1>5, Goes DEF ReuseSource, Unphased, Phases
    <2>2. \A t \in Ports : CacheSound(t)'
      BY <1>2, <1>5, StashSound DEF ReuseSource
    <2>3. QED
      BY <1>5, <2>1, <2>2, BiosPlain DEF ReuseSource
  <1>6. CASE Extract \/ BadZip \/ SyncCopy \/ UsePack \/ FetchPack \/ PlacePack \/ ReuseSdk
    <2>1. bjob'.pc \in Unphased
      BY <1>2, <1>6, Goes, Stops
      DEF Extract, BadZip, SyncCopy, UsePack, FetchPack, PlacePack, ReuseSdk, Unphased, Phases
    <2>2. QED
      BY <1>4, <1>6, <2>1 DEF Extract, BadZip, SyncCopy, UsePack, FetchPack, PlacePack, ReuseSdk
  <1>7. ASSUME NEW h \in BOOLEAN, HarvestPack(h) PROVE BiosInv'
    <2>1. bjob'.pc \in Unphased
      BY <1>2, <1>7, Goes, Stops DEF HarvestPack, Unphased, Phases
    <2>2. QED
      BY <1>4, <1>7, <2>1 DEF HarvestPack
  <1>8. CASE HarvestCli \/ HarvestEmitters \/ HarvestProfiles
    <2>1. bjob'.pc \in Unphased
      BY <1>2, <1>8, Goes DEF HarvestCli, HarvestEmitters, HarvestProfiles, Unphased, Phases
    <2>2. QED
      BY <1>4, <1>8, <2>1 DEF HarvestCli, HarvestEmitters, HarvestProfiles
  <1>9. CASE GenerateFails \/ SdkGone \/ CompileFails
    <2>1. bjob'.pc \in Unphased
      BY <1>9, Stops DEF GenerateFails, SdkGone, CompileFails, Unphased
    <2>2. QED
      BY <1>4, <1>9, <2>1 DEF GenerateFails, SdkGone, CompileFails
  <1>10. CASE Stage \/ Record
    <2>1. bjob'.pc \in Unphased
      BY <1>2, <1>10, Goes DEF Stage, Record, Unphased, Phases
    <2>2. QED
      BY <1>4, <1>10, <2>1 DEF Stage, Record
  <1>11. ASSUME NEW c \in BOOLEAN, PruneBuild(c) PROVE BiosInv'
    <2>1. bjob'.pc \in Unphased
      BY <1>11, Stops DEF PruneBuild, Unphased
    <2>2. QED
      BY <1>4, <1>11, <2>1 DEF PruneBuild
  <1>12. CASE SyncPrune
    <2>1. bjob'.pc \in Unphased
      BY <1>2, <1>12, Goes DEF SyncPrune, Unphased, Phases
    <2>2. \A t \in Ports : CacheSound(t)'
      BY <1>2, <1>12, StashSound DEF SyncPrune
    <2>3. QED
      BY <1>12, <2>1, <2>2, BiosPlain DEF SyncPrune
  <1>13. CASE EngineCopy
    <2>1. bjob'.pc \in Unphased /\ cgcache' = cgcache
      BY <1>2, <1>13, Goes DEF EngineCopy, Unphased, Phases
    <2>2. \A d \in Revs : eng'[d].bios = eng[d].bios /\ eng'[d].bstamp = eng[d].bstamp
      BY <1>2, <1>13 DEF EngineCopy, Engines
    <2>3. QED
      BY <1>3, <2>1, <2>2 DEF BiosInv, JobBios, Unphased, Attested, CacheSound
  <1>14. CASE MarkSource
    <2> DEFINE d == EngineDir(Rev)
    <2>1. bjob'.pc \in Unphased /\ cgcache' = cgcache /\ eng' = [eng EXCEPT ![d] = Settled(d, T)]
      BY <1>2, <1>14, Goes DEF MarkSource, Unphased, Phases
    <2>2. d \in Revs
      BY <1>1, DirIs
    <2> HIDE DEF d
    <2>3. Attested(Settled(d, T))
      <3>1. \/ /\ Settled(d, T).bios = eng[d].bios /\ Settled(d, T).bstamp = eng[d].bstamp
            \/ /\ Settled(d, T).bios = cgcache[T].bios /\ Settled(d, T).bstamp = cgcache[T].bstamp
        BY <1>2, <2>2 DEF Settled, Engines, Caches
      <3>2. QED
        BY <1>2, <1>3, <2>2, <3>1 DEF Attested, CacheSound
    <2>4. \A e \in Revs : Attested(eng[e])'
      BY <1>2, <1>3, <2>1, <2>2, <2>3 DEF Attested
    <2>5. \A t \in Ports : CacheSound(t)'
      BY <1>3, <2>1 DEF CacheSound, Attested
    <2>6. QED
      BY <2>1, <2>4, <2>5 DEF BiosInv, JobBios, Unphased
  <1> PICK b \in Ports : b = T
    BY <1>2
  <1> PICK l : l = src[b].link
    OBVIOUS
  <1>15. ASSUME bjob.pc \notin Early
         PROVE  /\ l \in Revs /\ Linked = eng[l] /\ Linked \in Engines /\ Attested(Linked)
                /\ CacheSound(b) /\ src[b] \in Trees /\ cgcache[b] \in Caches
    BY <1>2, <1>3, <1>15 DEF Linked
  <1>16. ASSUME bjob'.t = bjob.t, src'[b].link = l
         PROVE  b = T' /\ Linked' = eng'[l]
    BY <1>16 DEF Linked, T
  <1>17. ASSUME NEW g, NEW w, l \in Revs, NewEngine(eng, l, g, w, eng'), w # {} => g = {w}
         PROVE  \A d \in Revs : Attested(eng[d])'
    BY <1>3, <1>17 DEF NewEngine, Attested
  <1>18. CASE CheckBios
    <2>1. /\ bjob.pc \notin Early /\ UNCHANGED src /\ bjob'.t = bjob.t /\ bjob'.pc = "decide"
          /\ bjob'.tools = sdk[SdkSlot].revs
      BY <1>2, <1>18 DEF CheckBios, Early, Jobs
    <2>2. CASE BiosStale(Linked)
      <3>1. NewEngine(eng, l, {}, {}, eng') /\ NewBios(cgcache, b, {}, {}, cgcache')
        <4>1. /\ eng' = [eng EXCEPT ![l].bios = {}, ![l].bstamp = {}]
              /\ cgcache' = [cgcache EXCEPT ![b].bios = {}, ![b].bstamp = {}]
          BY <1>18, <2>2 DEF CheckBios
        <4>2. /\ NewEngine(eng, l, {}, {}, [eng EXCEPT ![l].bios = {}, ![l].bstamp = {}])
              /\ NewBios(cgcache, b, {}, {}, [cgcache EXCEPT ![b].bios = {}, ![b].bstamp = {}])
          BY <1>2, <1>15, <2>1, EngineGets, CacheGets
        <4>3. QED
          BY <4>1, <4>2
      <3>2. \A d \in Revs : Attested(eng[d])'
        BY <1>15, <1>17, <2>1, <3>1
      <3>3. \A t \in Ports : CacheSound(t)'
        BY <1>3, <3>1 DEF NewBios, CacheSound, Attested
      <3>4. Linked'.bios = {}
        BY <1>16, <2>1, <3>1 DEF NewEngine
      <3>5. QED
        BY <2>1, <3>2, <3>3, <3>4 DEF BiosInv, JobBios
    <2>3. CASE ~BiosStale(Linked)
      <3>1. UNCHANGED <<eng, cgcache>>
        BY <1>18, <2>3 DEF CheckBios
      <3>2. (\A d \in Revs : Attested(eng[d])') /\ (\A t \in Ports : CacheSound(t)')
        BY <1>3, <3>1 DEF CacheSound, Attested
      <3>3. HasBios => Linked.bios = {} \/ Linked.bstamp = sdk[SdkSlot].revs
        BY <2>3 DEF BiosStale
      <3>4. Linked' = Linked
        BY <1>15, <1>16, <2>1, <3>1
      <3>5. QED
        BY <2>1, <3>2, <3>3, <3>4 DEF BiosInv, JobBios, Emitters
    <2>4. QED
      BY <2>2, <2>3
  <1>19. CASE SkipGenerate
    <2>1. /\ bjob.pc \notin Early /\ bjob.pc = "decide" /\ UNCHANGED <<eng, cgcache>>
          /\ src'[b].link = l /\ src'[b].c = src[b].c /\ src[b].c # {}
          /\ HasBios => Linked.bios # {}
      BY <1>2, <1>19 DEF SkipGenerate, Early, Trees, Skips, Present, Ready
    <2>2. bjob'.t = bjob.t /\ bjob'.pc = "cache" /\ Emitters' = Emitters
      BY <1>2, <1>19, Goes DEF SkipGenerate, Phases, SameJob, Emitters
    <2>3. (\A d \in Revs : Attested(eng[d])') /\ (\A t \in Ports : CacheSound(t)')
      BY <1>3, <2>1 DEF CacheSound, Attested
    <2>4. b = T' /\ Linked' = Linked /\ (HasBios => OwnBios)
      BY <1>3, <1>15, <1>16, <2>1, <2>2 DEF JobBios, OwnBios
    <2>5. QED
      BY <2>1, <2>2, <2>3, <2>4 DEF BiosInv, JobBios, OwnBios
  <1>20. CASE RestoreCache
    <2>1. /\ bjob.pc \notin Early /\ UNCHANGED cgcache
          /\ src'[b].link = l /\ src'[b].c = cgcache[b].c /\ cgcache[b].c # {}
          /\ HasBios => cgcache[b].bios # {} /\ cgcache[b].bstamp = Emitters
      BY <1>2, <1>20 DEF RestoreCache, Early, Trees, Caches, Restores, Ready, BiosStamped
    <2>2. bjob'.t = bjob.t /\ bjob'.pc = "cache" /\ Emitters' = Emitters
      BY <1>2, <1>20, Goes DEF RestoreCache, Phases, SameJob, Emitters
    <2>3. /\ ~HasBios => eng' = eng
          /\ HasBios => NewEngine(eng, l, cgcache[b].bios, cgcache[b].bstamp, eng')
      <3>1. cgcache[b].bios \in SUBSET SUBSET Revs /\ cgcache[b].bstamp \in SUBSET Revs
        BY <1>15, <2>1 DEF Caches
      <3>2. NewEngine(eng, l, cgcache[b].bios, cgcache[b].bstamp,
                      [eng EXCEPT ![l].bios = cgcache[b].bios, ![l].bstamp = cgcache[b].bstamp])
        BY <1>2, <1>15, <2>1, <3>1, EngineGets
      <3>3. QED
        BY <1>20, <3>2 DEF RestoreCache
    <2>4. \A d \in Revs : Attested(eng[d])'
      BY <1>3, <1>15, <1>17, <2>1, <2>3 DEF Attested, CacheSound
    <2>5. \A t \in Ports : CacheSound(t)'
      BY <1>3, <2>1 DEF CacheSound, Attested
    <2>6. b = T' /\ (HasBios => OwnBios')
      BY <1>16, <2>1, <2>2, <2>3 DEF NewEngine, OwnBios
    <2>7. QED
      BY <2>1, <2>2, <2>4, <2>5, <2>6 DEF BiosInv, JobBios
  <1>21. CASE GenerateBegins
    <2>1. /\ bjob.pc \notin Early /\ bjob.pc = "decide" /\ UNCHANGED cgcache /\ src'[b].link = l
          /\ bjob' = [bjob EXCEPT !.pc = "generate", !.bios = EmitsBios]
      BY <1>2, <1>21 DEF GenerateBegins, Early, Trees
    <2>2. /\ bjob'.t = bjob.t /\ bjob'.pc = "generate" /\ Emitters' = Emitters
          /\ bjob'.bios = EmitsBios
      BY <1>2, <2>1 DEF Jobs, Emitters
    <2>3. \A t \in Ports : CacheSound(t)'
      BY <1>3, <2>1 DEF CacheSound, Attested
    <2>4. b = T' /\ Linked' = eng'[l]
      BY <1>16, <2>1, <2>2
    <2>5. CASE EmitsBios
      <3>1. NewEngine(eng, l, Linked.bios \cup {Emitters}, Linked.bstamp, eng')
        <4>1. eng' = [eng EXCEPT ![l].bios = @ \cup {Emitters}]
          BY <1>21, <2>5 DEF GenerateBegins
        <4>2. NewEngine(eng, l, eng[l].bios \cup {Emitters}, eng[l].bstamp,
                        [eng EXCEPT ![l].bios = @ \cup {Emitters}])
          BY <1>2, <1>15, <2>1, EngineMore
        <4>3. QED
          BY <1>15, <2>1, <4>1, <4>2
      <3>2. HasBios /\ (Linked.bios = {} \/ Linked.bstamp = Emitters)
        BY <1>3, <2>1, <2>5 DEF JobBios, EmitsBios
      <3>3. /\ Linked.bstamp \in {{}, Emitters}
            /\ Linked.bstamp # {} => Linked.bios \cup {Emitters} = {Linked.bstamp}
        BY <1>15, <2>1, <3>2 DEF Attested
      <3>4. \A d \in Revs : Attested(eng[d])'
        BY <1>15, <1>17, <2>1, <3>1, <3>3
      <3>5. Linked'.bstamp \in {{}, Emitters}
        BY <2>4, <3>1, <3>3 DEF NewEngine
      <3>6. QED
        BY <2>2, <2>3, <2>5, <3>4, <3>5 DEF BiosInv, JobBios
    <2>6. CASE ~EmitsBios
      <3>1. eng' = eng
        BY <1>21, <2>6 DEF GenerateBegins
      <3>2. \A d \in Revs : Attested(eng[d])'
        BY <1>3, <3>1 DEF Attested
      <3>3. HasBios => OwnBios
        BY <1>3, <2>1, <2>6 DEF JobBios, EmitsBios, OwnBios
      <3>4. Linked' = Linked
        BY <1>15, <2>1, <2>4, <3>1
      <3>5. QED
        BY <2>2, <2>3, <2>6, <3>2, <3>3, <3>4 DEF BiosInv, JobBios, OwnBios
    <2>7. QED
      BY <2>5, <2>6
  <1>22. CASE GenerateEnds
    <2>1. /\ bjob.pc \notin Early /\ bjob.pc = "generate" /\ UNCHANGED cgcache /\ src'[b].link = l
          /\ src'[b].c # {}
      BY <1>2, <1>22 DEF GenerateEnds, Early, Trees
    <2>2. bjob'.t = bjob.t /\ bjob'.pc = "stampbios" /\ Emitters' = Emitters
      BY <1>2, <1>22, Goes DEF GenerateEnds, Phases, SameJob, Emitters
    <2>3. \A t \in Ports : CacheSound(t)'
      BY <1>3, <2>1 DEF CacheSound, Attested
    <2>4. b = T' /\ Linked' = eng'[l]
      BY <1>16, <2>1, <2>2
    <2>5. CASE bjob.bios
      <3>1. NewEngine(eng, l, {Emitters}, Linked.bstamp, eng')
        <4>1. eng' = [eng EXCEPT ![l].bios = {Emitters}]
          BY <1>22, <2>5 DEF GenerateEnds
        <4>2. NewEngine(eng, l, {Emitters}, eng[l].bstamp, [eng EXCEPT ![l].bios = {Emitters}])
          <5>1. {Emitters} \in SUBSET SUBSET Revs
            BY <1>2
          <5>2. QED
            BY <1>2, <1>15, <2>1, <5>1, EngineBios
        <4>3. QED
          BY <1>15, <2>1, <4>1, <4>2
      <3>2. Linked.bstamp # {} => {Emitters} = {Linked.bstamp}
        BY <1>3, <2>1, <2>5 DEF JobBios
      <3>3. \A d \in Revs : Attested(eng[d])'
        BY <1>15, <1>17, <2>1, <3>1, <3>2
      <3>4. Linked'.bios = {Emitters}
        BY <2>4, <3>1 DEF NewEngine
      <3>5. QED
        BY <2>1, <2>2, <2>3, <2>4, <3>3, <3>4 DEF BiosInv, JobBios
    <2>6. CASE ~bjob.bios
      <3>1. eng' = eng
        BY <1>22, <2>6 DEF GenerateEnds
      <3>2. \A d \in Revs : Attested(eng[d])'
        BY <1>3, <3>1 DEF Attested
      <3>3. Linked' = Linked /\ (HasBios => OwnBios)
        BY <1>3, <1>15, <2>1, <2>4, <2>6, <3>1 DEF JobBios
      <3>4. QED
        BY <2>1, <2>2, <2>3, <2>4, <3>2, <3>3 DEF BiosInv, JobBios, OwnBios
    <2>7. QED
      BY <2>5, <2>6
  <1>23. CASE StampBios
    <2>1. /\ bjob.pc \notin Early /\ bjob.pc = "stampbios" /\ UNCHANGED <<cgcache, src>>
      BY <1>23 DEF StampBios, Early
    <2>2. bjob'.t = bjob.t /\ bjob'.pc = "cache" /\ Emitters' = Emitters
      BY <1>2, <1>23, Goes DEF StampBios, Phases, SameJob, Emitters
    <2>3. \A t \in Ports : CacheSound(t)'
      BY <1>3, <2>1 DEF CacheSound, Attested
    <2>4. b = T' /\ Linked' = eng'[l] /\ src[b].c # {}
      BY <1>3, <1>16, <2>1, <2>2 DEF JobBios
    <2>5. CASE HasBios
      <3>1. NewEngine(eng, l, Linked.bios, Emitters, eng')
        <4>1. eng' = [eng EXCEPT ![l].bstamp = Emitters]
          BY <1>23, <2>5 DEF StampBios
        <4>2. NewEngine(eng, l, eng[l].bios, Emitters, [eng EXCEPT ![l].bstamp = Emitters])
          BY <1>2, <1>15, <2>1, EngineStamp
        <4>3. QED
          BY <1>15, <2>1, <4>1, <4>2
      <3>2. Linked.bios # {} /\ (Emitters # {} => Linked.bios = {Emitters})
        BY <1>3, <1>15, <2>1, <2>5 DEF JobBios, OwnBios, Attested
      <3>3. \A d \in Revs : Attested(eng[d])'
        BY <1>15, <1>17, <2>1, <3>1, <3>2
      <3>4. Linked'.bios # {} /\ Linked'.bstamp = Emitters
        BY <2>4, <3>1, <3>2 DEF NewEngine
      <3>5. QED
        BY <2>1, <2>2, <2>3, <2>4, <3>3, <3>4 DEF BiosInv, JobBios, OwnBios
    <2>6. CASE ~HasBios
      <3>1. eng' = eng
        BY <1>23, <2>6 DEF StampBios
      <3>2. \A d \in Revs : Attested(eng[d])'
        BY <1>3, <3>1 DEF Attested
      <3>3. QED
        BY <2>1, <2>2, <2>3, <2>4, <2>6, <3>2 DEF BiosInv, JobBios
    <2>7. QED
      BY <2>5, <2>6
  <1>24. CASE CacheCopy
    <2>1. /\ bjob.pc \notin Early /\ bjob.pc = "cache" /\ UNCHANGED <<eng, src>>
          /\ cgcache' = [cgcache EXCEPT ![b].c = src[b].c, ![b].bios = Linked.bios,
                                        ![b].bstamp = Linked.bstamp]
      BY <1>24 DEF CacheCopy, Early
    <2>2. bjob'.t = bjob.t /\ bjob'.pc = "stampcache" /\ Emitters' = Emitters
      BY <1>2, <1>24, Goes DEF CacheCopy, Phases, SameJob, Emitters
    <2>3. src[b].c # {} /\ (HasBios => OwnBios)
      BY <1>3, <2>1 DEF JobBios
    <2>4. /\ cgcache'[b].c = src[b].c /\ cgcache'[b].bios = Linked.bios
          /\ cgcache'[b].bstamp = Linked.bstamp
          /\ \A t \in Ports : t # b => cgcache'[t] = cgcache[t]
      BY <1>2, <2>1 DEF Caches
    <2>5. \A t \in Ports : CacheSound(t)'
      <3>1. Attested(cgcache'[b])
        <4> HIDE DEF Linked
        <4>1. Attested(Linked)
          BY <1>15, <2>1
        <4>2. QED
          BY <2>4, <4>1 DEF Attested
      <3>2. cgcache'[b].c # {}
        BY <2>3, <2>4
      <3>3. CacheSound(b)'
        BY <3>1, <3>2 DEF CacheSound
      <3>4. \A t \in Ports : t # b => CacheSound(t)'
        BY <1>3, <2>4 DEF CacheSound
      <3>5. QED
        BY <3>3, <3>4
    <2>6. \A d \in Revs : Attested(eng[d])'
      BY <1>3, <2>1 DEF Attested
    <2>7. b = T' /\ Linked' = Linked
      BY <1>15, <1>16, <2>1, <2>2
    <2>8. QED
      BY <2>1, <2>2, <2>3, <2>4, <2>5, <2>6, <2>7 DEF BiosInv, JobBios, OwnBios
  <1>25. CASE StampCache
    <2>1. /\ bjob.pc \notin Early /\ bjob.pc = "stampcache" /\ UNCHANGED <<eng, src>>
          /\ cgcache' = [cgcache EXCEPT ![b].stamp = WantedStamp]
      BY <1>25 DEF StampCache, Early
    <2>2. bjob'.t = bjob.t /\ bjob'.pc = "stampsrc" /\ Emitters' = Emitters
      BY <1>2, <1>25, Goes DEF StampCache, Phases, SameJob, Emitters
    <2>3. src[b].c # {} /\ (HasBios => OwnBios) /\ cgcache[b].c # {}
      BY <1>3, <2>1 DEF JobBios
    <2>4. \A t \in Ports : /\ cgcache'[t].c = cgcache[t].c /\ cgcache'[t].bios = cgcache[t].bios
                           /\ cgcache'[t].bstamp = cgcache[t].bstamp
                           /\ t # b => cgcache'[t] = cgcache[t]
      BY <1>2, <2>1 DEF Caches
    <2>5. \A t \in Ports : CacheSound(t)'
      BY <1>3, <2>3, <2>4 DEF CacheSound, Attested
    <2>6. \A d \in Revs : Attested(eng[d])'
      BY <1>3, <2>1 DEF Attested
    <2>7. b = T' /\ Linked' = Linked
      BY <1>15, <1>16, <2>1, <2>2
    <2>8. QED
      BY <2>1, <2>2, <2>3, <2>5, <2>6, <2>7 DEF BiosInv, JobBios, OwnBios
  <1>26. CASE StampSource
    <2>1. /\ bjob.pc \notin Early /\ bjob.pc = "stampsrc" /\ UNCHANGED <<eng, cgcache>>
          /\ src'[b].link = l /\ src'[b].c = src[b].c
      BY <1>2, <1>26 DEF StampSource, Early, Trees
    <2>2. bjob'.t = bjob.t /\ bjob'.pc = "compile" /\ Emitters' = Emitters
      BY <1>2, <1>26, Goes DEF StampSource, Phases, SameJob, Emitters
    <2>3. (\A d \in Revs : Attested(eng[d])') /\ (\A t \in Ports : CacheSound(t)')
      BY <1>3, <2>1 DEF CacheSound, Attested
    <2>4. b = T' /\ Linked' = Linked /\ src[b].c # {} /\ (HasBios => OwnBios)
      BY <1>3, <1>15, <1>16, <2>1, <2>2 DEF JobBios
    <2>5. QED
      BY <2>1, <2>2, <2>3, <2>4 DEF BiosInv, JobBios, OwnBios
  <1>27. CASE Compile
    <2>1. bjob'.pc = "stage" /\ UNCHANGED <<eng, cgcache>>
      BY <1>2, <1>27, Goes DEF Compile, Phases
    <2>2. QED
      BY <1>3, <2>1 DEF BiosInv, JobBios, CacheSound, Attested
  <1>28. QED
    BY <1>5, <1>6, <1>7, <1>8, <1>9, <1>10, <1>11, <1>12, <1>13, <1>14, <1>18, <1>19, <1>20,
       <1>21, <1>22, <1>23, <1>24, <1>25, <1>26, <1>27 DEF BuildStep

LEMMA BiosStep == BpTyped /\ AtWork /\ BiosInv /\ [BuildNext]_bpVars => BiosInv'
  <1> SUFFICES ASSUME BpTyped, AtWork, BiosInv, [BuildNext]_bpVars PROVE BiosInv'
    OBVIOUS
  <1>0. \A t \in Ports : CacheSound(t)
    BY DEF BiosInv
  <1>1. CASE BuildStep
    BY <1>1, BiosBuilds
  <1>2. CASE NothingBuilt /\ UNCHANGED bjob
    BY <1>2 DEF NothingBuilt, BiosInv, JobBios, CacheSound, Attested, OwnBios, Linked, Emitters, T
  <1>3. ASSUME NEW t \in Ports, Begins(t), UNCHANGED Kept,
               \/ cgcache' = [cgcache EXCEPT ![t] = NoCache]
               \/ UNCHANGED <<src, cgcache, obj, rel>>
        PROVE  BiosInv'
    <2>1. bjob'.pc \in Unphased /\ UNCHANGED eng
      BY <1>3, BeginIs DEF Begins, Kept, Unphased
    <2>2. \A u \in Ports : cgcache'[u] = cgcache[u] \/ cgcache'[u] = NoCache
      BY <1>3 DEF BpTyped
    <2>3. \A u \in Ports : CacheSound(u)'
      BY <1>0, <2>2 DEF CacheSound, Attested, NoCache
    <2>4. QED
      BY <2>1, <2>3, BiosPlain
  <1>4. CASE NothingBuilt /\ Stop
    <2>1. bjob'.pc \in Unphased
      BY <1>4, Stops DEF Unphased
    <2>2. QED
      BY <1>0, <1>4, <2>1, BiosPlain DEF NothingBuilt, CacheSound, Attested
  <1>5. CASE UNCHANGED bpVars
    BY <1>5 DEF bpVars, BiosInv, JobBios, CacheSound, Attested, OwnBios, Linked, Emitters, T
  <1>6. QED
    BY <1>1, <1>2, <1>3, <1>4, <1>5, OtherSteps

(* The types; a stamp on BIOS C says who wrote it, and the cache's stamp   *)
(* is never on an empty cache (build.cpp:1160 and 1405).                   *)
THEOREM BuildTyped == BuildSpec => []BuildTypeOK
  <1>1. BpTyped /\ BiosInv => BuildTypeOK
    <2> SUFFICES ASSUME BpTyped, BiosInv PROVE BuildTypeOK
      OBVIOUS
    <2>1. ASSUME NEW t \in Ports
          PROVE  /\ src[t].files \subseteq Tags /\ src[t].marker \in 0 .. MaxTag
                 /\ src[t].c \subseteq Inputs /\ src[t].stamp \in Stamps
                 /\ src[t].link \in Revs \cup {0}
                 /\ cgcache[t].stamp \in Stamps
                 /\ cgcache[t].stamp # NoStamp => cgcache[t].c # {}
                 /\ obj[t] \in Binaries /\ rel[t] \in Binaries
      <3>1. src[t] \in Trees /\ cgcache[t] \in Caches /\ CacheSound(t)
        BY DEF BpTyped, BiosInv
      <3>2. obj[t] \in Binaries /\ rel[t] \in Binaries
        BY DEF BpTyped
      <3>3. QED
        BY <3>1, <3>2 DEF Trees, Caches, CacheSound
    <2>2. ASSUME NEW d \in Revs
          PROVE  eng[d].bstamp # {} /\ eng[d].bios # {} => eng[d].bios = {eng[d].bstamp}
      BY DEF BiosInv, Attested
    <2>3. bjob.pc \in Phases
      BY DEF BpTyped, Jobs
    <2>4. QED
      BY <2>1, <2>2, <2>3 DEF BuildTypeOK
  <1>2. BuildInit => BpTyped /\ AtWork /\ BiosInv
    BY BpInit, BiosInit
  <1>3. BpTyped /\ AtWork /\ BiosInv /\ [BuildNext]_bpVars => (BpTyped /\ AtWork /\ BiosInv)'
    BY BpStep, BiosStep
  <1>4. QED
    BY <1>1, <1>2, <1>3, PTL DEF BuildSpec

-----------------------------------------------------------------------------
(* What holds of the trees, the engines and the slots, apart from the job. *)
TreesFit ==
    /\ \A d \in Revs : DirTells(d)
    /\ \A t \in Ports : LinkTells(t) /\ (rel[t] # NoBinary => Fits(t, rel[t]))
    /\ \A t \in Ports, n \in Tags : SlotTells(t, n)
SameLinks ==
    /\ \A d \in Revs : eng'[d].revs = eng[d].revs
    /\ \A t \in Ports : src'[t].link = src[t].link /\ src'[t].marker = src[t].marker
LEMMA TreesKept ==
  ASSUME TreesFit, SameLinks, UNCHANGED <<sdk, rel>>
  PROVE  TreesFit'
  BY DEF TreesFit, SameLinks, DirTells, LinkTells, SlotTells, Fits

(* where nothing is known of the link, and where C is made *)
NotLinked == {"idle", "source", "sync", "promote", "engine", "mark", "record", "prune"}
CodePhases == {"decide", "generate", "stampbios", "cache", "stampcache", "stampsrc", "compile"}
LEMMA FitsBuilds ==
  ASSUME BpTyped, AtWork, BiosInv, RelInv, FitsInv, BuildStep
  PROVE  FitsInv'
  <1>1. bjob.pc # "idle" /\ BpTyped' /\ TreesFit /\ JobFits
    BY BuildRuns, BpStepTyped DEF FitsInv, TreesFit
  <1>2. /\ T \in Ports /\ bjob \in Jobs /\ bjob.tag \in Tags /\ bjob.tag # 0 /\ Rev \in Revs
        /\ SdkSlot \in Slots /\ src \in [Ports -> Trees] /\ cgcache \in [Ports -> Caches]
        /\ eng \in [Revs -> Engines] /\ sdk \in [Slots -> Kits]
        /\ rel \in [Ports -> Binaries] /\ obj \in [Ports -> Binaries]
        /\ (bjob.pc \notin Early => Linked \in Engines /\ src[T].link \in Revs)
    BY <1>1, LooksTyped, RevsIs DEF BpTyped, AtWork
  <1> PICK b \in Ports : b = T
    BY <1>2
  <1> PICK l : l = src[b].link
    OBVIOUS
  <1> PICK r \in Revs, n \in Tags : r = Rev /\ n = bjob.tag
    BY <1>2
  <1> PICK k \in Slots : k = SdkSlot
    BY <1>2
  <1> PICK e \in Revs : e = EngineDir(Rev)
    BY <1>2, OwnDir
  <1>3. r = EngineOf[b][n] /\ k = SlotOf[b][n] /\ (Sole(r) \/ Sole(e) => e = r)
    BY <1>2, OwnDir DEF Rev, SdkSlot
  <1>33. Unshared(b, n) => Sole(r) /\ e = r
    BY <1>3, UnsharedSole
  <1>34. bjob.pc \in Whole => src[b].files = {n}
    BY <1>1 DEF RelInv, JobTells
  <1>4. ASSUME SameJob
        PROVE  /\ b = T' /\ r = Rev' /\ n = bjob'.tag /\ k = SdkSlot'
               /\ src'[b].link = l => Linked' = eng'[l]
    BY <1>4 DEF SameJob, T, Rev, SdkSlot, Linked
  <1>5. ASSUME bjob.pc \notin Early
        PROVE  /\ l \in Revs /\ Linked = eng[l]
               /\ bjob.pc \in Whole /\ Unshared(b, n) => l = r /\ eng[r].revs = {r}
    BY <1>1, <1>2, <1>5 DEF Linked, JobFits, Early
  <1>6. ASSUME NEW u \in Ports, NEW m \in Tags, SlotOf[u][m] = k, Unshared(u, m)
        PROVE  EngineOf[u][m] = r /\ Unshared(b, n)
    BY <1>3, <1>6, SlotMates
  <1>7. ASSUME SameLinks, UNCHANGED <<sdk, rel>>,
               \/ bjob'.pc \in NotLinked
               \/ SameJob /\ bjob.pc \in {"pack", "place"} /\ bjob'.pc \in {"place", "tools"}
               \/ /\ SameJob /\ bjob.pc \in CodePhases /\ bjob'.pc \in CodePhases
                  /\ bjob'.tools = bjob.tools
        PROVE  FitsInv'
    <2>1. TreesFit'
      BY <1>1, <1>7, TreesKept
    <2>2. JobFits'
      <3>1. CASE bjob'.pc \in NotLinked
        BY <3>1 DEF JobFits, Whole, NotLinked
      <3>2. CASE /\ SameJob /\ bjob.pc \in {"pack", "place"} /\ bjob'.pc \in {"place", "tools"}
        <4>1. Unshared(b, n) => src'[b].link = r /\ eng'[r].revs = {r}
          BY <1>5, <1>7, <3>2 DEF SameLinks, Early, Whole
        <4>2. QED
          BY <1>4, <1>5, <3>2, <4>1 DEF JobFits, Whole, Early
      <3>3. CASE /\ SameJob /\ bjob.pc \in CodePhases /\ bjob'.pc \in CodePhases
                 /\ bjob'.tools = bjob.tools
        <4>1. Unshared(b, n) => src'[b].link = r /\ eng'[r].revs = {r}
          BY <1>5, <1>7, <3>3 DEF SameLinks, Early, Whole, CodePhases
        <4>2. Unshared(b, n) => Emitters' = {Rev'}
          BY <1>1, <1>4, <3>3 DEF JobFits, CodePhases, Emitters
        <4>3. QED
          BY <1>4, <1>5, <3>3, <4>1, <4>2 DEF JobFits, Whole, CodePhases, Early
      <3>4. QED
        BY <1>7, <3>1, <3>2, <3>3
    <2>3. QED
      BY <2>1, <2>2 DEF FitsInv, TreesFit
  <1>8. CASE ReuseSource
    <2>1. /\ bjob'.pc = "pack" /\ SameJob /\ UNCHANGED <<src, eng, sdk, rel>> /\ UpToDate(T)
          /\ bjob.pc = "source"
      BY <1>2, <1>8, Goes DEF ReuseSource, Phases
    <2>2. Unshared(b, n) => l = r
      BY <1>1, <1>2, <1>3, <1>33, <2>1 DEF UpToDate, TreesFit, LinkTells
    <2>3. Unshared(b, n) => eng[r].revs = {r}
      BY <1>1, <1>33, <2>1, <2>2 DEF UpToDate, Buildable, TreesFit, DirTells
    <2>4. TreesFit'
      BY <1>1, <2>1, TreesKept DEF SameLinks
    <2>5. QED
      BY <1>4, <2>1, <2>2, <2>3, <2>4 DEF FitsInv, TreesFit, JobFits
  <1>9. CASE Extract \/ BadZip \/ GenerateFails \/ SdkGone \/ CompileFails \/ Record
    <2>1. bjob'.pc \in NotLinked
      BY <1>2, <1>9, Goes, Stops
      DEF NotLinked, Extract, BadZip, GenerateFails, SdkGone, CompileFails, Record, Phases
    <2>2. SameLinks /\ UNCHANGED <<sdk, rel>>
      BY <1>9 DEF Extract, BadZip, GenerateFails, SdkGone, CompileFails, Record, SameLinks
    <2>3. QED
      BY <1>7, <2>1, <2>2
  <1>10. ASSUME NEW c \in BOOLEAN, PruneBuild(c) PROVE FitsInv'
    <2>1. bjob'.pc \in NotLinked
      BY <1>10, Stops DEF PruneBuild, NotLinked
    <2>2. SameLinks /\ UNCHANGED <<sdk, rel>>
      BY <1>10 DEF PruneBuild, SameLinks
    <2>3. QED
      BY <1>7, <2>1, <2>2
  <1>11. CASE SyncCopy
    <2>1. bjob'.pc \in NotLinked
      BY <1>2, <1>11, Goes DEF NotLinked, SyncCopy, Phases
    <2>2. SameLinks /\ UNCHANGED <<sdk, rel>>
      BY <1>2, <1>11 DEF SyncCopy, SameLinks, Trees
    <2>3. QED
      BY <1>7, <2>1, <2>2
  <1>12. CASE SyncPrune
    <2>1. bjob'.pc = "engine" /\ UNCHANGED <<eng, sdk, rel>>
      BY <1>2, <1>12, Goes DEF SyncPrune, Phases
    <2>2. \A t \in Ports : src'[t].marker = 0 \/ src'[t] = src[t]
      BY <1>2, <1>12 DEF SyncPrune, Trees
    <2>3. QED
      BY <1>1, <2>1, <2>2 DEF FitsInv, TreesFit, DirTells, LinkTells, SlotTells, JobFits, Fits, Whole
  <1>13. CASE EngineCopy
    <2>1. bjob'.pc = "mark" /\ UNCHANGED <<src, sdk, rel>>
      BY <1>2, <1>13, Goes DEF EngineCopy, Phases
    <2>2. eng' = [eng EXCEPT ![e].revs = @ \cup {r}]
      BY <1>3, <1>13 DEF EngineCopy
    <2>3. ASSUME NEW d \in Revs, NEW w \in eng'[d].revs
          PROVE  w \in eng[d].revs \/ (d = e /\ w = r)
      <3>1. d # e => eng'[d] = eng[d]
        BY <1>2, <2>2
      <3>2. eng'[e] = [eng[e] EXCEPT !.revs = @ \cup {r}] /\ eng[e] \in Engines
        BY <1>2, <2>2
      <3>3. eng'[e].revs = eng[e].revs \cup {r}
        BY <3>2 DEF Engines
      <3>4. QED
        BY <2>3, <3>1, <3>3
    <2>4. \A d \in Revs : DirTells(d)'
      BY <1>1, <1>3, <2>3 DEF TreesFit, DirTells
    <2>5. QED
      BY <1>1, <2>1, <2>4 DEF FitsInv, TreesFit, LinkTells, SlotTells, JobFits, Fits, Whole
  <1>14. CASE MarkSource
    <2>1. /\ bjob'.pc = "pack" /\ SameJob /\ UNCHANGED <<sdk, rel>>
          /\ eng' = [eng EXCEPT ![e] = Settled(e, b)]
          /\ src' = [LinkedTo(e) EXCEPT ![b].marker = n]
      BY <1>2, <1>3, <1>14, Goes DEF MarkSource, Phases
    <2>2. Settled(e, b).revs = {r}
      BY <1>2 DEF Settled, Engines
    <2>3. /\ src'[b].link = e /\ src'[b].marker = n
          /\ \A t \in Ports : t # b => src'[t] = src[t]
      BY <1>2, <2>1 DEF LinkedTo, Trees
    <2>4. eng'[e].revs = {r} /\ \A d \in Revs : d # e => eng'[d] = eng[d]
      BY <1>1, <1>2, <2>1, <2>2 DEF TreesFit
    <2>8. \A d \in Revs : DirTells(d)'
      BY <1>1, <1>3, <2>4 DEF TreesFit, DirTells
    <2>5. \A t \in Ports : LinkTells(t)'
      BY <1>1, <1>3, <2>3 DEF TreesFit, LinkTells
    <2>6. JobFits'
      <3>1. r = Rev' /\ b = T' /\ n = bjob'.tag /\ Linked' = eng'[e]
        BY <1>4, <2>1, <2>3 DEF Linked
      <3>2. QED
        BY <1>33, <2>1, <2>3, <2>4, <3>1 DEF JobFits
    <2>7. QED
      BY <1>1, <2>1, <2>5, <2>6, <2>8 DEF FitsInv, TreesFit, SlotTells, Fits
  <1>15. CASE UsePack \/ FetchPack \/ PlacePack
    <2>1. SameJob /\ bjob.pc \in {"pack", "place"} /\ bjob'.pc \in {"place", "tools"}
      BY <1>2, <1>15, Goes DEF UsePack, FetchPack, PlacePack, Phases
    <2>2. SameLinks /\ UNCHANGED <<sdk, rel>>
      BY <1>15 DEF UsePack, FetchPack, PlacePack, SameLinks
    <2>3. QED
      BY <1>7, <2>1, <2>2
  <1>16. ASSUME NEW h \in BOOLEAN, HarvestPack(h) PROVE FitsInv'
    <2>1. \/ bjob'.pc \in NotLinked
          \/ SameJob /\ bjob.pc \in {"pack", "place"} /\ bjob'.pc \in {"place", "tools"}
      BY <1>2, <1>16, Goes, Stops DEF HarvestPack, Phases, NotLinked
    <2>2. SameLinks /\ UNCHANGED <<sdk, rel>>
      BY <1>16 DEF HarvestPack, SameLinks
    <2>3. QED
      BY <1>7, <2>1, <2>2
  <1>17. ASSUME bjob.pc \in {"tools", "emitters", "profiles"}, SameJob, UNCHANGED <<src, eng, rel>>,
                NEW stage, NEW revs, sdk'[k].stage = stage, sdk'[k].revs = revs,
                \A s \in Slots : s # k => sdk'[s] = sdk[s],
                Unshared(b, n) /\ stage >= 2 => revs = {r},
                bjob'.pc \in {"emitters", "profiles", "bios"},
                bjob'.pc # "emitters" => stage # 1
         PROVE  FitsInv'
    <2>1. \A u \in Ports, m \in Tags : SlotTells(u, m)'
      <3>1. ASSUME NEW u \in Ports, NEW m \in Tags PROVE SlotTells(u, m)'
        <4>1. CASE SlotOf[u][m] = k
          BY <1>6, <1>17, <4>1 DEF SlotTells
        <4>2. CASE SlotOf[u][m] # k
          BY <1>1, <1>17, <4>2, RevsIs DEF TreesFit, SlotTells
        <4>3. QED
          BY <4>1, <4>2
      <3>2. QED
        BY <3>1
    <2>2. JobFits'
      BY <1>4, <1>5, <1>17 DEF JobFits, Early, Whole
    <2>3. QED
      BY <1>1, <1>17, <2>1, <2>2 DEF FitsInv, TreesFit, DirTells, LinkTells, Fits
  <1>18. /\ sdk[k].stage \in 0 .. 3 /\ (Unshared(b, n) /\ sdk[k].stage >= 2 => sdk[k].revs = {r})
         /\ bjob.pc \in {"profiles", "bios"} => sdk[k].stage # 1
    BY <1>1, <1>2, <1>3 DEF Kits, TreesFit, SlotTells, JobFits
  <1>19. CASE ReuseSdk
    <2>1. bjob.pc = "tools" /\ bjob'.pc = "bios" /\ SameJob /\ UNCHANGED <<src, eng, rel, sdk>>
      BY <1>2, <1>19, Goes DEF ReuseSdk, Phases
    <2>2. sdk[k].stage >= 2 /\ sdk[k].stage # 1
      BY <1>18, <1>19 DEF ReuseSdk, SdkComplete
    <2>3. QED
      BY <1>17, <1>18, <2>1, <2>2
  <1>20. CASE HarvestCli
    <2>1. bjob.pc = "tools" /\ bjob'.pc = "emitters" /\ SameJob /\ UNCHANGED <<src, eng, rel>>
      BY <1>2, <1>20, Goes DEF HarvestCli, Phases
    <2>2. sdk'[k].stage = 1 /\ \A s \in Slots : s # k => sdk'[s] = sdk[s]
      BY <1>2, <1>20 DEF HarvestCli, Kits
    <2>3. QED
      BY <1>17, <2>1, <2>2
  <1>21. CASE HarvestEmitters
    <2>1. bjob.pc = "emitters" /\ bjob'.pc = "profiles" /\ SameJob /\ UNCHANGED <<src, eng, rel>>
      BY <1>2, <1>21, Goes DEF HarvestEmitters, Phases
    <2>2. /\ sdk'[k].stage = 2 /\ (Unshared(b, n) => sdk'[k].revs = {r})
          /\ \A s \in Slots : s # k => sdk'[s] = sdk[s]
      BY <1>2, <1>5, <1>21, <2>1 DEF HarvestEmitters, Kits, Early, Whole
    <2>3. QED
      BY <1>17, <2>1, <2>2
  <1>22. CASE HarvestProfiles
    <2>1. /\ bjob.pc = "profiles" /\ bjob'.pc = "bios" /\ SameJob /\ UNCHANGED <<src, eng, rel>>
          /\ sdk[k].stage > 0
      BY <1>2, <1>22, Goes DEF HarvestProfiles, Phases
    <2>2. /\ sdk'[k].stage = 3 /\ sdk'[k].revs = sdk[k].revs
          /\ \A s \in Slots : s # k => sdk'[s] = sdk[s]
      BY <1>2, <1>22 DEF HarvestProfiles, Kits
    <2>3. Unshared(b, n) => sdk[k].revs = {r}
      BY <1>18, <2>1
    <2>4. QED
      BY <1>17, <2>1, <2>2, <2>3
  <1>23. CASE CheckBios
    <2>1. /\ bjob.pc = "bios" /\ bjob'.pc = "decide" /\ SameJob /\ UNCHANGED <<src, sdk, rel>>
          /\ bjob'.tools = sdk[k].revs /\ sdk[k].stage > 0
      BY <1>2, <1>23 DEF CheckBios, Jobs, SameJob
    <2>2. \A d \in Revs : eng'[d].revs = eng[d].revs
      BY <1>2, <1>23 DEF CheckBios, Engines
    <2>3. TreesFit'
      BY <1>1, <2>1, <2>2, TreesKept DEF SameLinks
    <2>4. Unshared(b, n) => sdk[k].revs = {r}
      BY <1>18, <2>1
    <2>5. JobFits'
      BY <1>4, <1>5, <2>1, <2>2, <2>4 DEF JobFits, Emitters, Early, Whole
    <2>6. QED
      BY <2>3, <2>5 DEF FitsInv, TreesFit
  <1>24. CASE SkipGenerate \/ StampSource
    <2>1. SameJob /\ bjob.pc \in CodePhases /\ bjob'.pc \in CodePhases /\ bjob'.tools = bjob.tools
      BY <1>2, <1>24, Goes DEF SkipGenerate, StampSource, Phases, CodePhases
    <2>2. src' = [src EXCEPT ![b].stamp = WantedStamp] /\ UNCHANGED <<eng, sdk, rel>>
      BY <1>24 DEF SkipGenerate, StampSource
    <2>3. SameLinks /\ UNCHANGED <<sdk, rel>>
      BY <1>2, <2>2 DEF SameLinks, Trees
    <2>4. QED
      BY <1>7, <2>1, <2>3
  <1>25. CASE CacheCopy \/ StampCache
    <2>1. SameJob /\ bjob.pc \in CodePhases /\ bjob'.pc \in CodePhases /\ bjob'.tools = bjob.tools
      BY <1>2, <1>25, Goes DEF CacheCopy, StampCache, Phases, CodePhases
    <2>2. SameLinks /\ UNCHANGED <<sdk, rel>>
      BY <1>25 DEF CacheCopy, StampCache, SameLinks
    <2>3. QED
      BY <1>7, <2>1, <2>2
  <1>26. CASE RestoreCache
    <2>1. SameJob /\ bjob.pc \in CodePhases /\ bjob'.pc \in CodePhases /\ bjob'.tools = bjob.tools
      BY <1>2, <1>26, Goes DEF RestoreCache, Phases, CodePhases
    <2>2. \A d \in Revs : eng'[d].revs = eng[d].revs
      BY <1>2, <1>26 DEF RestoreCache, Engines
    <2>3. SameLinks /\ UNCHANGED <<sdk, rel>>
      BY <1>2, <1>26, <2>2 DEF RestoreCache, SameLinks, Trees
    <2>4. QED
      BY <1>7, <2>1, <2>3
  <1>27. CASE GenerateBegins
    <2>1. SameJob /\ bjob.pc \in CodePhases /\ bjob'.pc \in CodePhases /\ bjob'.tools = bjob.tools
      BY <1>2, <1>27 DEF GenerateBegins, Jobs, SameJob, CodePhases
    <2>2. \A d \in Revs : eng'[d].revs = eng[d].revs
      BY <1>2, <1>27 DEF GenerateBegins, Engines
    <2>3. SameLinks /\ UNCHANGED <<sdk, rel>>
      BY <1>2, <1>27, <2>2 DEF GenerateBegins, SameLinks, Trees
    <2>4. QED
      BY <1>7, <2>1, <2>3
  <1>28. CASE GenerateEnds
    <2>1. SameJob /\ bjob.pc \in CodePhases /\ bjob'.pc \in CodePhases /\ bjob'.tools = bjob.tools
      BY <1>2, <1>28, Goes DEF GenerateEnds, Phases, CodePhases
    <2>2. \A d \in Revs : eng'[d].revs = eng[d].revs
      BY <1>2, <1>28 DEF GenerateEnds, Engines
    <2>3. SameLinks /\ UNCHANGED <<sdk, rel>>
      BY <1>2, <1>28, <2>2 DEF GenerateEnds, SameLinks, Trees
    <2>4. QED
      BY <1>7, <2>1, <2>3
  <1>29. CASE StampBios
    <2>1. SameJob /\ bjob.pc \in CodePhases /\ bjob'.pc \in CodePhases /\ bjob'.tools = bjob.tools
      BY <1>2, <1>29, Goes DEF StampBios, Phases, CodePhases
    <2>2. SameLinks /\ UNCHANGED <<sdk, rel>>
      BY <1>2, <1>29 DEF StampBios, SameLinks, Engines
    <2>3. QED
      BY <1>7, <2>1, <2>2
  <1>30. CASE Compile
    <2>1. /\ bjob.pc = "compile" /\ bjob'.pc = "stage" /\ SameJob
          /\ UNCHANGED <<src, eng, sdk, rel>>
          /\ obj'[b] = Compiled
      BY <1>2, <1>30, Goes DEF Compile, Phases
    <2>2. /\ Linked = eng[l] /\ l \in Revs
          /\ Unshared(b, n) => eng[l].revs = {r} /\ Emitters = {r}
      BY <1>1, <1>5, <2>1 DEF Early, Whole, JobFits
    <2>3. HasBios /\ Unshared(b, n) => Linked.bios = {{r}}
      BY <2>1, <2>2 DEF BiosInv, JobBios, OwnBios, Attested
    <2>4. Fits(b, obj'[b])
      <3>1. Compiled.bios = Linked.bios /\ Compiled.run = Linked.revs /\ Compiled.files = {n}
        BY <1>34, <2>1 DEF Compiled, Whole
      <3>2. QED
        BY <2>1, <2>2, <2>3, <3>1 DEF Fits
    <2>5. TreesFit'
      BY <1>1, <2>1, TreesKept DEF SameLinks
    <2>6. JobFits'
      BY <1>4, <2>1, <2>4 DEF JobFits, Whole, Fits
    <2>7. QED
      BY <2>5, <2>6 DEF FitsInv, TreesFit
  <1>31. CASE Stage
    <2>1. /\ bjob.pc = "stage" /\ bjob'.pc = "record" /\ UNCHANGED <<src, eng, sdk>>
          /\ rel' = [rel EXCEPT ![b] = obj[b]]
      BY <1>2, <1>31, Goes DEF Stage, Phases
    <2>4. \A t \in Ports : rel'[t] = IF t = b THEN obj[b] ELSE rel[t]
      BY <1>2, <2>1
    <2>2. Fits(b, obj[b])
      BY <1>1, <2>1 DEF JobFits
    <2>5. ASSUME NEW t \in Ports, rel'[t] # NoBinary PROVE Fits(t, rel'[t])
      BY <1>1, <2>2, <2>4, <2>5 DEF TreesFit
    <2>6. \A d \in Revs : DirTells(d)'
      BY <1>1, <2>1 DEF TreesFit, DirTells
    <2>7. \A t \in Ports : LinkTells(t)' /\ \A m \in Tags : SlotTells(t, m)'
      BY <1>1, <2>1 DEF TreesFit, LinkTells, SlotTells
    <2>8. JobFits'
      BY <2>1 DEF JobFits, Whole
    <2>3. QED
      BY <2>5, <2>6, <2>7, <2>8 DEF FitsInv, Fits
  <1>32. QED
    BY <1>8, <1>9, <1>10, <1>11, <1>12, <1>13, <1>14, <1>15, <1>16, <1>19, <1>20, <1>21, <1>22,
       <1>23, <1>24, <1>25, <1>26, <1>27, <1>28, <1>29, <1>30, <1>31 DEF BuildStep

LEMMA FitsStep ==
  BpTyped /\ AtWork /\ BiosInv /\ RelInv /\ FitsInv /\ [BuildNext]_bpVars => FitsInv'
  <1> SUFFICES ASSUME BpTyped, AtWork, BiosInv, RelInv, FitsInv, [BuildNext]_bpVars
               PROVE  FitsInv'
    OBVIOUS
  <1>0. TreesFit /\ JobFits
    BY DEF FitsInv, TreesFit
  <1>1. CASE BuildStep
    BY <1>1, FitsBuilds
  <1>2. CASE NothingBuilt /\ Pruned /\ UNCHANGED bjob
    <2>1. \A t \in Ports, n \in Tags : SlotTells(t, n)'
      <3>1. ASSUME NEW t \in Ports, NEW n \in Tags PROVE SlotTells(t, n)'
        <4>1. SlotOf[t][n] \in Slots
          BY RevsIs
        <4>2. CASE sdk'[SlotOf[t][n]] = sdk[SlotOf[t][n]]
          BY <1>0, <4>2 DEF TreesFit, SlotTells
        <4>3. CASE sdk'[SlotOf[t][n]] = [revs |-> {}, stage |-> 0]
          BY <4>3 DEF SlotTells
        <4>4. QED
          BY <1>2, <4>1, <4>2, <4>3 DEF Pruned
      <3>2. QED
        BY <3>1
    <2>2. JobFits'
      <3>1. bjob.pc # "idle" => SdkSlot \in Slots
        BY LooksTyped
      <3>2. bjob.pc # "idle" => sdk'[SdkSlot].stage \in {0, sdk[SdkSlot].stage}
        BY <1>2, <3>1 DEF Pruned
      <3>3. QED
        BY <1>0, <1>2, <3>2 DEF NothingBuilt, JobFits, Rev, Linked, SdkSlot, Emitters, T, Fits
    <2>3. QED
      BY <1>0, <1>2, <2>1, <2>2 DEF FitsInv, TreesFit, NothingBuilt, DirTells, LinkTells, Fits
  <1>3. ASSUME NEW t \in Ports, Begins(t), UNCHANGED Kept,
               \/ /\ src' = [src EXCEPT ![t] = NoSource] /\ rel' = [rel EXCEPT ![t] = NoBinary]
               \/ UNCHANGED <<src, cgcache, obj, rel>>
        PROVE  FitsInv'
    <2>1. bjob'.pc = "source" /\ UNCHANGED <<eng, sdk>>
      BY <1>3, BeginIs DEF Begins, Kept
    <2>2. \A u \in Ports : \/ src'[u] = src[u] /\ rel'[u] = rel[u]
                           \/ src'[u].marker = 0 /\ rel'[u] = NoBinary
      BY <1>3 DEF BpTyped, NoSource
    <2>3. QED
      BY <1>0, <2>1, <2>2 DEF FitsInv, TreesFit, DirTells, LinkTells, SlotTells, JobFits, Whole
  <1>4. CASE NothingBuilt /\ UNCHANGED sdk /\ Stop
    <2>1. bjob'.pc = "idle"
      BY <1>4, Stops
    <2>2. QED
      BY <1>0, <1>4, <2>1
      DEF FitsInv, TreesFit, NothingBuilt, DirTells, LinkTells, SlotTells, JobFits, Fits
  <1>5. CASE UNCHANGED bpVars
    BY <1>0, <1>5
    DEF bpVars, FitsInv, TreesFit, DirTells, LinkTells, SlotTells, JobFits, Fits, Rev, Linked,
        SdkSlot, Emitters, T
  <1>6. QED
    <2>1. UNCHANGED sdk => Pruned
      BY DEF Pruned, BpTyped
    <2>2. QED
      BY <1>1, <1>2, <1>3, <1>4, <1>5, <2>1, OtherSteps

(* Whatever the titles, tags, engine commits and key files are: in the     *)
(* build of a release whose slot and directory no other engine's release   *)
(* shares, BIOS C was written by the emitters of the engine it is linked   *)
(* against, through updates, restored caches, failed generates, crashes    *)
(* and builds of releases that do share (build.cpp:1140, 4422 and 4500).   *)
THEOREM BiosFitsHolds == BuildSpec => []BiosFitsRuntime
  <1>1. FitsInv => BiosFitsRuntime
    BY DEF FitsInv, Fits, BiosFitsRuntime
  <1>2. BuildInit => BpTyped /\ AtWork /\ BiosInv /\ RelInv /\ FitsInv
    BY BpInit, BiosInit, RelInit
  <1>3. BpTyped /\ AtWork /\ BiosInv /\ RelInv /\ FitsInv /\ [BuildNext]_bpVars
        => (BpTyped /\ AtWork /\ BiosInv /\ RelInv /\ FitsInv)'
    BY BpStep, BiosStep, RelStep, FitsStep
  <1>4. QED
    BY <1>1, <1>2, <1>3, PTL DEF BuildSpec

-----------------------------------------------------------------------------
(* ---- a title's saves ---- *)

(* What a save may be, a file that is there or none; the folders, the slot *)
(* and the sync that hold them.                                            *)
SaveFiles == [v : Cut .. MaxPlays, t : 1 .. MaxClock]
MaybeSave == {None} \cup SaveFiles
SaveFolders == [Names -> MaybeSave]
SlotShapes == [is : {"none", "link", "hard", "file"}, to : Names \cup {NoName}, file : MaybeSave]
SlotHolds(s) ==
    /\ s \in SlotShapes
    /\ s.is \in {"hard", "file"} => s.file # None
    /\ s.is = "link" => s.to \in Names
SyTyped ==
    /\ now \in 1 .. MaxClock /\ plays \in 0 .. MaxPlays
    /\ lib \in SaveFolders /\ remote \in SaveFolders
    /\ alias \in Names \cup {NoName} /\ pref \in Names \cup {NoName}
    /\ SlotHolds(slot) /\ preserved \in MaybeSave /\ flat \in MaybeSave
    /\ sync \in [at : {"idle", "saves"}, local : SaveFolders, listed : SaveFolders,
                 todo : SUBSET Names]
    /\ sync.at = "saves" => \A n \in Names : sync.listed[n] # None => remote[n] # None

LEMMA NamesListed ==
  /\ Names = {"rom", "title", "slot", "rom-2", "title-2", "rom-3", "title-3"}
  /\ NoName \notin Names /\ Slot \in Names
  /\ \A l, n : n \in Stems => n \in Names /\ FreeName(l, n) \in Names
  BY DEF Names, Stems, Slot, Second, Third, NoName, FreeName

LEMMA FileMade ==
  /\ \A t \in 1 .. MaxClock, v \in Cut .. MaxPlays : File(v, t) \in SaveFiles
  /\ 0 \in Cut .. MaxPlays /\ Cut \in Cut .. MaxPlays /\ None \notin SaveFiles
  /\ \A f \in SaveFiles, t \in 1 .. MaxClock : File(f.v, t) \in SaveFiles
  <1>1. \A t \in 1 .. MaxClock, v \in Cut .. MaxPlays : File(v, t) \in SaveFiles
    BY DEF File, SaveFiles
  <1>2. 0 \in Cut .. MaxPlays /\ Cut \in Cut .. MaxPlays
    BY SaveSyncAssumption DEF Cut
  <1>3. None \notin SaveFiles
    <2>1. \A f \in SaveFiles : DOMAIN f = {"v", "t"}
      BY DEF SaveFiles
    <2>2. DOMAIN None = {}
      BY DEF None
    <2> QED
      BY <2>1, <2>2
  <1>4. \A f \in SaveFiles : f.v \in Cut .. MaxPlays
    BY DEF SaveFiles
  <1> QED
    BY <1>1, <1>2, <1>3, <1>4

LEMMA ReadsTyped ==
  ASSUME NEW l \in SaveFolders, NEW a \in Names \cup {NoName}, NEW n \in Names
  PROVE  Reads(l, a, n) \in MaybeSave /\ l[n] \in MaybeSave
  BY DEF Reads, SaveFolders

LEMMA CopiedTyped ==
  ASSUME NEW l \in SaveFolders, NEW n \in Stems, NEW from \in SaveFiles, now \in 1 .. MaxClock,
         NEW c \in Copied(l, n, from)
  PROVE  c[1] \in SaveFolders
  <1> DEFINE d == Target(l, n, from)
             put(f) == [l EXCEPT ![d] = f]
  <1>1. put(File(from.v, now)) \in SaveFolders /\ put(File(Cut, now)) \in SaveFolders
    <2>1. File(from.v, now) \in MaybeSave /\ File(Cut, now) \in MaybeSave
      BY FileMade DEF MaybeSave
    <2> QED
      BY <2>1 DEF SaveFolders
  <1>2. \/ c = <<l, TRUE>>
        \/ c = <<put(File(from.v, now)), TRUE>>
        \/ c = <<put(File(Cut, now)), FALSE>>
    BY DEF Copied
  <1> HIDE DEF put, d
  <1>3. CASE c = <<l, TRUE>>
    BY <1>3
  <1>4. CASE c = <<put(File(from.v, now)), TRUE>>
    BY <1>1, <1>4
  <1>5. CASE c = <<put(File(Cut, now)), FALSE>>
    BY <1>1, <1>5
  <1> QED
    BY <1>2, <1>3, <1>4, <1>5

LEMMA MigratedTyped ==
  ASSUME NEW l \in SaveFolders, flat \in MaybeSave, NEW m \in Migrated(l)
  PROVE  m[1] \in SaveFolders /\ m[2] \in MaybeSave
  <1> DEFINE put(n) == [l EXCEPT ![n] = flat]
  <1>1. put("rom") \in SaveFolders /\ put(FreeName(l, "rom")) \in SaveFolders
    BY DEF SaveFolders
  <1>2. m \in {<<l, None>>, <<put("rom"), None>>, <<put(FreeName(l, "rom")), None>>}
    BY DEF Migrated
  <1> HIDE DEF put
  <1> QED
    BY <1>1, <1>2 DEF MaybeSave

LEMMA NoSlotHolds == SlotHolds(NoSlot)
  BY FileMade DEF SlotHolds, SlotShapes, NoSlot, MaybeSave

LEMMA PromotedTyped ==
  ASSUME SyTyped, NEW stem \in Stems, NEW s, SlotHolds(s), NEW p \in PromotedFrom(stem, s)
  PROVE  p.lib \in SaveFolders /\ p.flat \in MaybeSave /\ SlotHolds(p.slot)
  <1>1. lib \in SaveFolders /\ flat \in MaybeSave /\ now \in 1 .. MaxClock
    BY DEF SyTyped
  <1>2. CASE s.is \in {"hard", "file"}
    <2>1. PICK m \in Migrated(lib) : \E c \in Copied(m[1], stem, s.file) :
             p = [lib |-> c[1], flat |-> m[2], slot |-> IF c[2] THEN NoSlot ELSE s]
      BY <1>2 DEF PromotedFrom
    <2>2. PICK c \in Copied(m[1], stem, s.file) :
             p = [lib |-> c[1], flat |-> m[2], slot |-> IF c[2] THEN NoSlot ELSE s]
      BY <2>1
    <2>3. m[1] \in SaveFolders /\ m[2] \in MaybeSave
      BY <1>1, MigratedTyped
    <2>4. s.file \in SaveFiles
      BY <1>2 DEF SlotHolds, SlotShapes, MaybeSave
    <2>5. c[1] \in SaveFolders
      BY <1>1, <2>3, <2>4, CopiedTyped
    <2>6. p.lib = c[1] /\ p.flat = m[2] /\ p.slot \in {s, NoSlot}
      BY <2>2
    <2> QED
      BY <2>3, <2>5, <2>6, NoSlotHolds
  <1>3. CASE s.is \notin {"hard", "file"}
    <2>1. PICK m \in Migrated(lib) :
             p = [lib |-> m[1], flat |-> m[2],
                  slot |-> IF s.is = "link" /\ ~Taken(m[1], alias, s.to) THEN NoSlot ELSE s]
      BY <1>3 DEF PromotedFrom
    <2>2. p.lib = m[1] /\ p.flat = m[2] /\ p.slot \in {s, NoSlot}
      BY <2>1
    <2> QED
      BY <1>1, <2>2, MigratedTyped, NoSlotHolds
  <1> QED
    BY <1>2, <1>3

LEMMA EnsuredTyped ==
  ASSUME SyTyped, NEW l \in SaveFolders, NEW e \in Ensured(l, alias)
  PROVE  /\ e[1] \in Names /\ e[2] \in SaveFolders /\ e[3] \in Names
         /\ Taken(e[2], alias, e[1])
  <1>1. pref \in Names \cup {NoName} /\ alias \in Names \cup {NoName} /\ now \in 1 .. MaxClock
    BY DEF SyTyped
  <1>2. CASE pref # NoName /\ Taken(l, alias, pref)
    <2>1. e = <<pref, l, pref>>
      BY <1>2 DEF Ensured
    <2>2. e[1] = pref /\ e[2] = l /\ e[3] = pref
      BY <2>1
    <2> QED
      BY <1>1, <1>2, <2>2
  <1>3. CASE ~(pref # NoName /\ Taken(l, alias, pref))
    <2> DEFINE named == {n \in Names \ {Slot} : Managed(l, n)}
               named1 == IF Managed(l, "rom") THEN {"rom"} ELSE named
    <2>0. "rom" \in Names \ {Slot}
      BY NamesListed DEF Slot
    <2>1. CASE named # {}
      <3>1. PICK n \in named1 : e = <<n, l, IF pref = NoName THEN n ELSE pref>>
        BY <1>3, <2>1 DEF Ensured
      <3>2. n \in Names \ {Slot} /\ l[n] # None
        BY <2>0 DEF Managed
      <3>3. e[1] = n /\ e[2] = l /\ e[3] \in {n, pref} /\ e[3] # NoName
        BY <3>1, <3>2, NamesListed
      <3> QED
        BY <1>1, <3>2, <3>3 DEF Taken, Reads
    <2>2. CASE named = {}
      <3>1. e = <<"rom", [l EXCEPT !["rom"] = File(0, now)], "rom">>
        BY <1>3, <2>2 DEF Ensured
      <3>2. e[1] = "rom" /\ e[2] = [l EXCEPT !["rom"] = File(0, now)] /\ e[3] = "rom"
        BY <3>1
      <3>3. File(0, now) \in SaveFiles
        BY <1>1, FileMade
      <3>4. e[2] \in SaveFolders /\ e[2]["rom"] # None
        BY <2>0, <3>2, <3>3, FileMade DEF MaybeSave, SaveFolders
      <3> QED
        BY <2>0, <3>2, <3>4 DEF Taken, Reads
    <2> QED
      BY <2>1, <2>2
  <1> QED
    BY <1>2, <1>3

LEMMA BindTyped ==
  ASSUME now \in 1 .. MaxClock, NEW n \in Names, NEW l \in SaveFolders,
         NEW a \in Names \cup {NoName}, Taken(l, a, n), NEW s, SlotHolds(s), Bind(n, l, a, s)
  PROVE  SlotHolds(slot') /\ lib' \in SaveFolders /\ alias' \in Names \cup {NoName}
  <1>1. PICK how \in Bridges :
          /\ slot' = Activated(s, n, l, a, how)
          /\ lib' = Aliased(l, a, n, how)[1] /\ alias' = Aliased(l, a, n, how)[2]
    BY DEF Bind
  <1>2. how \in {"link", "hard", "copy"}
    BY SaveSyncAssumption
  <1>3. Reads(l, a, n) \in SaveFiles
    BY ReadsTyped DEF Taken, MaybeSave
  <1>4. SlotHolds(slot')
    <2>1. CASE s.is \in {"link", "hard"} /\ s.to = n
      BY <1>1, <2>1 DEF Activated
    <2>2. CASE ~(s.is \in {"link", "hard"} /\ s.to = n)
      <3>1. slot' = Bridged(n, l, a, how)
        BY <1>1, <2>2 DEF Activated
      <3>2. CASE how = "link"
        <4>1. slot' = [is |-> "link", to |-> n, file |-> None]
          BY <3>1, <3>2 DEF Bridged
        <4> QED
          BY <4>1 DEF SlotHolds, SlotShapes, MaybeSave
      <3>3. CASE how = "hard"
        <4>1. slot' = [is |-> "hard", to |-> n, file |-> Reads(l, a, n)]
          BY <3>1, <3>3 DEF Bridged
        <4> QED
          BY <1>3, <4>1, FileMade DEF SlotHolds, SlotShapes, MaybeSave
      <3>4. CASE how = "copy"
        <4>1. slot' = [is |-> "file", to |-> n, file |-> File(Reads(l, a, n).v, now)]
          BY <3>1, <3>4 DEF Bridged
        <4>2. File(Reads(l, a, n).v, now) \in SaveFiles
          BY <1>3, FileMade
        <4> QED
          BY <4>1, <4>2, FileMade DEF SlotHolds, SlotShapes, MaybeSave
      <3> QED
        BY <1>2, <3>2, <3>3, <3>4
    <2> QED
      BY <2>1, <2>2
  <1>5. CASE n = Slot \/ a = n
    <2>1. Aliased(l, a, n, how) = <<l, a>>
      BY <1>5 DEF Aliased
    <2> QED
      BY <1>1, <1>4, <2>1
  <1>6. CASE ~(n = Slot \/ a = n)
    <2>1. l[n] \in SaveFiles
      BY <1>3, <1>6 DEF Reads
    <2> DEFINE put(f) == [l EXCEPT ![Slot] = f]
    <2>2. put(None) \in SaveFolders /\ put(File(l[n].v, now)) \in SaveFolders
      <3>1. None \in MaybeSave /\ File(l[n].v, now) \in MaybeSave
        BY <2>1, FileMade DEF MaybeSave
      <3> QED
        BY <3>1 DEF SaveFolders
    <2>3. \/ Aliased(l, a, n, how) = <<put(None), n>>
          \/ Aliased(l, a, n, how) = <<put(File(l[n].v, now)), NoName>>
      BY <1>6 DEF Aliased
    <2> HIDE DEF put
    <2> QED
      BY <1>1, <1>4, <2>2, <2>3
  <1> QED
    BY <1>5, <1>6

(* ---- the steps -------------------------------------------------------- *)
LEMMA SyInit == SaveSyncInit => SyTyped
  <1> SUFFICES ASSUME SaveSyncInit PROVE SyTyped
    OBVIOUS
  <1>1. None \in MaybeSave /\ [n \in Names |-> None] \in SaveFolders
    BY DEF MaybeSave, SaveFolders
  <1>2. NoSync \in [at : {"idle", "saves"}, local : SaveFolders, listed : SaveFolders,
                    todo : SUBSET Names] /\ NoSync.at = "idle"
    BY <1>1 DEF NoSync
  <1> QED
    BY <1>1, <1>2, NoSlotHolds, SaveSyncAssumption DEF SaveSyncInit, SyTyped

(* A step that leaves the sync alone, or ends it.                          *)
LEMMA SyRest ==
  ASSUME SyTyped, sync' = sync \/ sync' = NoSync, remote' = remote,
         (/\ now \in 1 .. MaxClock /\ plays \in 0 .. MaxPlays
          /\ lib \in SaveFolders
          /\ alias \in Names \cup {NoName} /\ pref \in Names \cup {NoName}
          /\ SlotHolds(slot) /\ preserved \in MaybeSave /\ flat \in MaybeSave)'
  PROVE  SyTyped'
  <1>1. None \in MaybeSave /\ [n \in Names |-> None] \in SaveFolders
    BY DEF MaybeSave, SaveFolders
  <1>2. NoSync \in [at : {"idle", "saves"}, local : SaveFolders, listed : SaveFolders,
                    todo : SUBSET Names] /\ NoSync.at = "idle"
    BY <1>1 DEF NoSync
  <1> QED
    BY <1>2 DEF SyTyped

LEMMA UnlinkedHolds == ASSUME SlotHolds(slot), NEW n PROVE SlotHolds(Unlinked(n))
  BY DEF SlotHolds, SlotShapes, Unlinked

LEMMA LaunchTyped == SyTyped /\ Launch => SyTyped'
  <1> SUFFICES ASSUME SyTyped, Launch PROVE SyTyped'
    OBVIOUS
  <1>1. PICK p \in Promoted("rom") : \E e \in Ensured(p.lib, alias) :
          /\ pref' = e[3] /\ flat' = p.flat /\ Bind(e[1], e[2], alias, p.slot)
    BY DEF Launch
  <1>2. PICK e \in Ensured(p.lib, alias) :
          /\ pref' = e[3] /\ flat' = p.flat /\ Bind(e[1], e[2], alias, p.slot)
    BY <1>1
  <1>3. "rom" \in Stems /\ SlotHolds(slot) /\ p \in PromotedFrom("rom", slot)
    BY DEF Stems, SyTyped, Promoted
  <1>4. p.lib \in SaveFolders /\ p.flat \in MaybeSave /\ SlotHolds(p.slot)
    BY <1>3, PromotedTyped
  <1>5. e[1] \in Names /\ e[2] \in SaveFolders /\ e[3] \in Names /\ Taken(e[2], alias, e[1])
    BY <1>4, EnsuredTyped
  <1>6. now \in 1 .. MaxClock /\ alias \in Names \cup {NoName}
    BY DEF SyTyped
  <1>7. SlotHolds(slot') /\ lib' \in SaveFolders /\ alias' \in Names \cup {NoName}
    BY <1>2, <1>4, <1>5, <1>6, BindTyped
  <1>8. UNCHANGED <<now, preserved, remote, sync, plays>>
    BY DEF Launch
  <1>9. SlotHolds(slot)'
    BY <1>7 DEF SlotHolds, SlotShapes
  <1> QED
    BY <1>2, <1>4, <1>5, <1>7, <1>8, <1>9, SyRest DEF SyTyped

LEMMA PromotionsTyped == SyTyped /\ (CreateSave \/ ScanSaves \/ Install) => SyTyped'
  <1> SUFFICES ASSUME SyTyped, CreateSave \/ ScanSaves \/ Install PROVE SyTyped'
    OBVIOUS
  <1>0. /\ "rom" \in Stems /\ SlotHolds(slot) /\ now \in 1 .. MaxClock
        /\ preserved \in MaybeSave /\ pref \in Names \cup {NoName}
    BY DEF Stems, SyTyped
  <1>1. lib' \in SaveFolders /\ pref' \in Names \cup {NoName} /\ flat' \in MaybeSave /\ SlotHolds(slot')
    <2>1. CASE CreateSave
      <3>1. PICK p \in PromotedFrom("rom", slot) :
              /\ \E n \in Names : lib' = [p.lib EXCEPT ![n] = File(0, now)] /\ pref' = n
              /\ slot' = p.slot /\ flat' = p.flat
        BY <1>0, <2>1, NamesListed DEF CreateSave, Promoted
      <3>2. p.lib \in SaveFolders /\ p.flat \in MaybeSave /\ SlotHolds(p.slot)
        BY <1>0, PromotedTyped
      <3>3. File(0, now) \in MaybeSave
        BY <1>0, FileMade DEF MaybeSave
      <3>4. PICK n \in Names : lib' = [p.lib EXCEPT ![n] = File(0, now)] /\ pref' = n
        BY <3>1
      <3>5. lib' \in SaveFolders
        BY <3>2, <3>3, <3>4 DEF SaveFolders
      <3> QED
        BY <3>1, <3>2, <3>4, <3>5
    <2>2. CASE ScanSaves
      <3>1. PICK p \in PromotedFrom("rom", slot) : lib' = p.lib /\ slot' = p.slot /\ flat' = p.flat
        BY <2>2 DEF ScanSaves, Promoted
      <3> QED
        BY <1>0, <2>2, <3>1, PromotedTyped DEF ScanSaves
    <2>3. CASE Install
      <3>1. SlotHolds(Restored(preserved))
        <4>1. CASE preserved = None
          BY <4>1, NoSlotHolds DEF Restored
        <4>2. CASE preserved # None
          <5>1. File(preserved.v, now) \in SaveFiles
            BY <1>0, <4>2, FileMade DEF MaybeSave
          <5>2. Restored(preserved) = [is |-> "file", to |-> NoName, file |-> File(preserved.v, now)]
            BY <4>2 DEF Restored
          <5> QED
            BY <5>1, <5>2, FileMade DEF SlotHolds, SlotShapes, MaybeSave
        <4> QED
          BY <4>1, <4>2
      <3>2. PICK p \in PromotedFrom("rom", Restored(preserved)) : \E e \in Ensured(p.lib, alias) :
               lib' = e[2] /\ pref' = e[3] /\ slot' = p.slot /\ flat' = p.flat
        BY <2>3 DEF Install
      <3>3. PICK e \in Ensured(p.lib, alias) :
               lib' = e[2] /\ pref' = e[3] /\ slot' = p.slot /\ flat' = p.flat
        BY <3>2
      <3>4. p.lib \in SaveFolders /\ p.flat \in MaybeSave /\ SlotHolds(p.slot)
        BY <1>0, <3>1, PromotedTyped
      <3> QED
        BY <3>3, <3>4, EnsuredTyped
    <2> QED
      BY <2>1, <2>2, <2>3
  <1>2. UNCHANGED <<now, alias, preserved, remote, sync, plays>>
    BY DEF CreateSave, ScanSaves, Install
  <1>3. SlotHolds(slot)'
    BY <1>1 DEF SlotHolds, SlotShapes
  <1> QED
    BY <1>1, <1>2, <1>3, SyRest DEF SyTyped

LEMMA GameSavesTyped == SyTyped /\ GameSaves => SyTyped'
  <1> SUFFICES ASSUME SyTyped, GameSaves PROVE SyTyped'
    OBVIOUS
  <1> DEFINE f == File(plays', now')
             n == CASE open = "install" -> slot.to
                    [] open = Slot /\ alias # NoName -> alias
                    [] OTHER -> open
             put == [lib EXCEPT ![n] = f]
             kept == [slot EXCEPT !.file = f]
             made == [slot EXCEPT !.is = "file", !.file = f]
  <1>1. now' \in 1 .. MaxClock /\ plays' \in 0 .. MaxPlays /\ plays' \in Cut .. MaxPlays
    BY SaveSyncAssumption DEF GameSaves, SyTyped, Cut
  <1>2. f \in SaveFiles /\ f \in MaybeSave /\ f # None
    BY <1>1, FileMade DEF MaybeSave
  <1>3. lib' = put \/ lib' = lib
    BY DEF GameSaves
  <1>4. slot' = slot \/ (slot' = kept /\ slot.is = "hard") \/ slot' = made
    BY DEF GameSaves
  <1> HIDE DEF f, n
  <1>5. put \in SaveFolders
    BY <1>2 DEF SaveFolders, SyTyped
  <1>6. SlotHolds(kept) \/ slot.is # "hard"
    BY <1>2 DEF SlotHolds, SlotShapes, SyTyped
  <1>7. SlotHolds(made)
    BY <1>2 DEF SlotHolds, SlotShapes, SyTyped
  <1> HIDE DEF put, kept, made
  <1>8. SlotHolds(slot')
    BY <1>4, <1>6, <1>7 DEF SyTyped
  <1>9. SlotHolds(slot)'
    BY <1>8 DEF SlotHolds, SlotShapes
  <1>10. lib' \in SaveFolders
    BY <1>3, <1>5 DEF SyTyped
  <1>11. UNCHANGED <<alias, preserved, flat, remote, pref, sync>>
    BY DEF GameSaves
  <1> QED
    BY <1>1, <1>9, <1>10, <1>11, SyRest DEF SyTyped

(* The picker: no save is made but of ones that are there.                 *)
LEMMA PickerTyped ==
  ASSUME SyTyped,
         \/ RefreshRows
         \/ \E n \in Names : Select(n) \/ DeleteSave(n) \/ ImportSave(n)
         \/ \E n, m \in Names : RenameSave(n, m)
  PROVE  SyTyped'
  <1>1. None \in MaybeSave /\ File(0, now) \in MaybeSave /\ lib \in SaveFolders
    BY FileMade DEF MaybeSave, SyTyped
  <1>2. lib' \in SaveFolders /\ (\E n \in Names : slot' \in {slot, Unlinked(n)})
        /\ pref' \in Names \cup {NoName}
    <2>1. CASE RefreshRows \/ \E n \in Names : Select(n)
      BY <1>1, <2>1, NamesListed DEF RefreshRows, Select
    <2>2. CASE \E n \in Names : DeleteSave(n)
      <3>1. PICK n \in Names : DeleteSave(n)
        BY <2>2
      <3>2. lib' = [lib EXCEPT ![n] = None] /\ slot' = Unlinked(n) /\ pref' \in {NoName, pref}
        BY <3>1 DEF DeleteSave
      <3> QED
        BY <1>1, <3>2 DEF SaveFolders, SyTyped
    <2>3. CASE \E n \in Names : ImportSave(n)
      <3>1. PICK n \in Names : ImportSave(n)
        BY <2>3
      <3>2. PICK d \in Names : lib' = [lib EXCEPT ![d] = File(0, now)] /\ slot' = Unlinked(d)
        BY <3>1 DEF ImportSave, SyTyped
      <3>3. pref' = n
        BY <3>1 DEF ImportSave
      <3> QED
        BY <1>1, <3>2, <3>3 DEF SaveFolders
    <2>4. CASE \E n, m \in Names : RenameSave(n, m)
      <3>1. PICK n, m \in Names : RenameSave(n, m)
        BY <2>4
      <3>2. /\ lib' = [lib EXCEPT ![n] = None, ![m] = lib[n]]
            /\ slot' = Unlinked(n) /\ pref' \in {m, pref}
        BY <3>1 DEF RenameSave
      <3> QED
        BY <1>1, <3>2 DEF SaveFolders, SyTyped
    <2> QED
      BY <2>1, <2>2, <2>3, <2>4
  <1>3. SlotHolds(slot')
    BY <1>2, UnlinkedHolds DEF SyTyped
  <1>4. SlotHolds(slot)'
    BY <1>3 DEF SlotHolds, SlotShapes
  <1>5. UNCHANGED <<now, alias, preserved, flat, remote, sync, plays>>
    BY DEF RefreshRows, Select, DeleteSave, ImportSave, RenameSave
  <1> QED
    BY <1>2, <1>4, <1>5, SyRest DEF SyTyped

LEMMA InstallsTyped == SyTyped /\ (Update \/ Uninstall) => SyTyped'
  <1> SUFFICES ASSUME SyTyped, Update \/ Uninstall PROVE SyTyped'
    OBVIOUS
  <1>1. lib \in SaveFolders /\ alias \in Names \cup {NoName} /\ now \in 1 .. MaxClock
        /\ preserved \in MaybeSave /\ SlotHolds(slot)
    BY DEF SyTyped
  <1>2. SlotReads \in MaybeSave
    <2>1. CASE slot.is = "none"
      BY <2>1 DEF SlotReads, MaybeSave
    <2>2. CASE slot.is = "link"
      <3>1. slot.to \in Names /\ SlotReads = Reads(lib, alias, slot.to)
        BY <1>1, <2>2 DEF SlotReads, SlotHolds
      <3> QED
        BY <1>1, <3>1, ReadsTyped
    <2>3. CASE slot.is \notin {"none", "link"}
      <3>1. SlotReads = slot.file
        BY <2>3 DEF SlotReads
      <3> QED
        BY <1>1, <3>1 DEF SlotHolds, SlotShapes
    <2> QED
      BY <2>1, <2>2, <2>3
  <1>3. Stashed \in MaybeSave
    <2>1. SlotReads # None => File(SlotReads.v, now) \in SaveFiles
      BY <1>1, <1>2, FileMade DEF MaybeSave
    <2> QED
      BY <1>1, <2>1 DEF Stashed, MaybeSave
  <1>4. SlotHolds(Restored(Stashed))
    <2>1. CASE Stashed = None
      BY <2>1, NoSlotHolds DEF Restored
    <2>2. CASE Stashed # None
      <3>1. File(Stashed.v, now) \in SaveFiles
        BY <1>1, <1>3, <2>2, FileMade DEF MaybeSave
      <3>2. Restored(Stashed) = [is |-> "file", to |-> NoName, file |-> File(Stashed.v, now)]
        BY <2>2 DEF Restored
      <3> QED
        BY <3>1, <3>2, FileMade DEF SlotHolds, SlotShapes, MaybeSave
    <2> QED
      BY <2>1, <2>2
  <1>5. slot' \in {Restored(Stashed), NoSlot} /\ preserved' \in {Stashed, None}
    BY DEF Update, Uninstall
  <1>6. SlotHolds(slot') /\ preserved' \in MaybeSave
    BY <1>3, <1>4, <1>5, NoSlotHolds DEF MaybeSave
  <1>7. SlotHolds(slot)'
    BY <1>6 DEF SlotHolds, SlotShapes
  <1>8. UNCHANGED <<now, lib, alias, flat, remote, pref, sync, plays>>
    BY DEF Update, Uninstall
  <1> QED
    BY <1>6, <1>7, <1>8, SyRest DEF SyTyped

LEMMA SyncBeginsTyped == SyTyped /\ SyncBegins => SyTyped'
  <1> SUFFICES ASSUME SyTyped, SyncBegins PROVE SyTyped'
    OBVIOUS
  <1>1. PICK p \in Promoted("title") :
          /\ lib' = p.lib /\ slot' = p.slot /\ flat' = p.flat
          /\ LET here == [n \in Names |-> Reads(p.lib, alias, n)] IN
             sync' = [at |-> "saves", local |-> here, listed |-> remote,
                      todo |-> {n \in Names : here[n] # None \/ remote[n] # None}]
    BY DEF SyncBegins
  <1>2. "title" \in Stems /\ SlotHolds(slot) /\ p \in PromotedFrom("title", slot)
    BY DEF Stems, SyTyped, Promoted
  <1>3. p.lib \in SaveFolders /\ p.flat \in MaybeSave /\ SlotHolds(p.slot)
    BY <1>2, PromotedTyped
  <1>4. [n \in Names |-> Reads(p.lib, alias, n)] \in SaveFolders
    BY <1>3, ReadsTyped DEF SaveFolders, SyTyped
  <1>5. SlotHolds(slot')
    BY <1>1, <1>3
  <1>6. SlotHolds(slot)'
    BY <1>5 DEF SlotHolds, SlotShapes
  <1>7. UNCHANGED <<now, alias, preserved, remote, pref, plays>>
    BY DEF SyncBegins
  <1> QED
    BY <1>1, <1>3, <1>4, <1>6, <1>7 DEF SyTyped

LEMMA SyncOneTyped == ASSUME SyTyped, NEW n \in Names, SyncOne(n) PROVE SyTyped'
  <1>1. /\ sync.at = "saves" /\ UNCHANGED <<now, preserved, flat, plays>>
        /\ Skip(n) \/ Upload(n) \/ Download(n)
    BY DEF SyncOne
  <1>2. /\ sync' = [sync EXCEPT !.todo = @ \ {n}]
        /\ sync' \in [at : {"idle", "saves"}, local : SaveFolders, listed : SaveFolders,
                      todo : SUBSET Names]
        /\ sync'.listed = sync.listed
    <2>1. sync' = [sync EXCEPT !.todo = @ \ {n}]
      BY <1>1 DEF Skip, Upload, Download, Done
    <2> QED
      BY <2>1 DEF SyTyped
  <1>3. lib \in SaveFolders /\ remote \in SaveFolders /\ alias \in Names \cup {NoName}
        /\ now \in 1 .. MaxClock /\ SlotHolds(slot) /\ pref \in Names \cup {NoName}
    BY DEF SyTyped
  <1>4. CASE Skip(n)
    BY <1>1, <1>2, <1>4 DEF Skip, SyTyped, SlotHolds, SlotShapes
  <1>5. CASE Upload(n)
    <2>1. Reads(lib, alias, n) \in SaveFiles
      BY <1>3, <1>5, ReadsTyped DEF Upload, Taken, MaybeSave
    <2>2. File(Reads(lib, alias, n).v, now) \in SaveFiles
      BY <1>3, <2>1, FileMade
    <2>3. PICK f \in SaveFiles : remote' = [remote EXCEPT ![n] = f]
      BY <1>5, <2>2 DEF Upload
    <2>4. remote' \in SaveFolders /\ \A m \in Names : remote[m] # None => remote'[m] # None
      BY <1>3, <2>3, FileMade DEF SaveFolders, MaybeSave
    <2>5. UNCHANGED <<lib, alias, slot, pref>>
      BY <1>5 DEF Upload
    <2> QED
      BY <1>1, <1>2, <2>4, <2>5 DEF SyTyped, SlotHolds, SlotShapes
  <1>6. CASE Download(n)
    <2>1. sync.listed[n] # None
      <3>1. sync.local[n] \in MaybeSave /\ sync.listed[n] \in MaybeSave
        BY DEF SyTyped, SaveFolders
      <3>2. Time(sync.local[n]) >= 0
        BY <3>1 DEF Time, MaybeSave, SaveFiles
      <3>3. ~(Time(sync.local[n]) >= Time(sync.listed[n]))
        BY <1>6 DEF Download, KeepsLocal
      <3>4. sync.listed[n] = None => Time(sync.listed[n]) = 0
        BY DEF Time
      <3> QED
        BY <3>2, <3>3, <3>4
    <2>2. remote[n] \in SaveFiles
      BY <1>1, <1>3, <2>1 DEF SyTyped, SaveFolders, MaybeSave
    <2>3. File(remote[n].v, now) \in SaveFiles
      BY <1>3, <2>2, FileMade
    <2>4. PICK f \in SaveFiles : lib' = [lib EXCEPT ![n] = f]
      BY <1>6, <2>3 DEF Download
    <2>5. lib' \in SaveFolders
      BY <1>3, <2>4 DEF SaveFolders, MaybeSave
    <2>6. slot' = Unlinked(n) /\ alias' \in {NoName, alias} /\ pref' \in {n, pref} /\ remote' = remote
      BY <1>6 DEF Download
    <2>7. SlotHolds(slot')
      BY <1>3, <2>6, UnlinkedHolds
    <2>8. SlotHolds(slot)'
      BY <2>7 DEF SlotHolds, SlotShapes
    <2> QED
      BY <1>1, <1>2, <1>3, <2>5, <2>6, <2>8 DEF SyTyped
  <1> QED
    BY <1>1, <1>4, <1>5, <1>6

LEMMA SyncEndsTyped == SyTyped /\ SyncEnds => SyTyped'
  <1> SUFFICES ASSUME SyTyped, SyncEnds PROVE SyTyped'
    OBVIOUS
  <1>1. UNCHANGED <<now, preserved, flat, remote, pref, plays>> /\ sync' = NoSync
    BY DEF SyncEnds
  <1>2. \/ UNCHANGED <<lib, alias, slot>>
        \/ \E n \in Names : Taken(lib, alias, n) /\ Bind(n, lib, alias, slot)
    BY DEF SyncEnds
  <1>3. SlotHolds(slot') /\ lib' \in SaveFolders /\ alias' \in Names \cup {NoName}
    BY <1>2, BindTyped DEF SyTyped
  <1>4. SlotHolds(slot)'
    BY <1>3 DEF SlotHolds, SlotShapes
  <1> QED
    BY <1>1, <1>3, <1>4, SyRest DEF SyTyped

LEMMA OthersTyped ==
  ASSUME SyTyped,
         \/ Tick \/ GameEnds \/ PlayedElsewhere \/ SyncFails \/ UNCHANGED ssVars
         \/ \E n \in Names : OtherUploads(n)
  PROVE  SyTyped'
  <1>1. CASE Tick \/ GameEnds \/ SyncFails \/ UNCHANGED ssVars
    <2>1. now' \in 1 .. MaxClock
      BY <1>1, SaveSyncAssumption DEF Tick, GameEnds, SyncFails, ssVars, SyTyped
    <2>2. UNCHANGED <<lib, alias, slot, preserved, flat, remote, pref, plays>> /\ sync' \in {sync, NoSync}
      BY <1>1 DEF Tick, GameEnds, SyncFails, ssVars
    <2> QED
      BY <2>1, <2>2, SyRest DEF SyTyped, SlotHolds, SlotShapes
  <1>2. CASE PlayedElsewhere
    <2>1. plays' \in 0 .. MaxPlays /\ plays' \in Cut .. MaxPlays
      BY <1>2, SaveSyncAssumption DEF PlayedElsewhere, SyTyped, Cut
    <2>2. flat' = File(plays', now) /\ UNCHANGED <<now, lib, alias, slot, preserved, remote, pref, sync>>
      BY <1>2 DEF PlayedElsewhere
    <2>3. flat' \in MaybeSave
      BY <2>1, <2>2, FileMade DEF SyTyped, MaybeSave
    <2> QED
      BY <2>1, <2>2, <2>3, SyRest DEF SyTyped, SlotHolds, SlotShapes
  <1>3. CASE \E n \in Names : OtherUploads(n)
    <2>1. PICK n \in Names : OtherUploads(n)
      BY <1>3
    <2>2. plays' \in 0 .. MaxPlays /\ plays' \in Cut .. MaxPlays
      BY <2>1, SaveSyncAssumption DEF OtherUploads, SyTyped, Cut
    <2>3. PICK v \in {0, plays'} : remote' = [remote EXCEPT ![n] = File(v, now)]
      BY <2>1 DEF OtherUploads
    <2>4. File(v, now) \in SaveFiles
      BY <2>2, FileMade DEF SyTyped
    <2>5. PICK f \in SaveFiles : remote' = [remote EXCEPT ![n] = f]
      BY <2>3, <2>4
    <2>6. remote' \in SaveFolders /\ \A m \in Names : remote[m] # None => remote'[m] # None
      BY <2>5, FileMade DEF SaveFolders, MaybeSave, SyTyped
    <2>7. UNCHANGED <<now, lib, alias, slot, preserved, flat, pref, sync>>
      BY <2>1 DEF OtherUploads
    <2> QED
      BY <2>2, <2>6, <2>7 DEF SyTyped, SlotHolds, SlotShapes
  <1> QED
    BY <1>1, <1>2, <1>3

LEMMA SyStep == SyTyped /\ [SaveSyncNext]_ssVars => SyTyped'
  BY LaunchTyped, PromotionsTyped, GameSavesTyped, PickerTyped, InstallsTyped, SyncBeginsTyped,
     SyncOneTyped, SyncEndsTyped, OthersTyped DEF SaveSyncNext

(* Whatever is promoted, bound, stashed or synced, and whichever copies    *)
(* fail, a save is a file some game or device wrote, or one cut short.     *)
THEOREM SaveSyncTyped == SaveSyncSpec => []SaveSyncTypeOK
<1>1. SyTyped => SaveSyncTypeOK
  BY DEF SyTyped, SaveSyncTypeOK, SaveFolders, MaybeSave, SaveFiles, SlotHolds, SlotShapes, IsFile
<1> QED
  BY <1>1, SyInit, SyStep, PTL DEF SaveSyncSpec

-----------------------------------------------------------------------------
(* ---- the three together ---- *)

(* A behaviour of one of them is a behaviour of each.                      *)
LEMMA PartsRun ==
  /\ LibrarySpec => LibraryIndexSpec
  /\ LibrarySpec => SaveSyncSpec
  /\ LibrarySpec => BuildSpec
<1>1. LibraryInit => LibraryIndexInit /\ SaveSyncInit /\ BuildInit
  BY DEF LibraryInit
<1>2. [LibraryNext]_libraryVars =>
        [LibraryIndexNext]_liVars /\ [SaveSyncNext]_ssVars /\ [BuildNext]_bpVars
  <2> SUFFICES ASSUME [LibraryNext]_libraryVars
               PROVE  [LibraryIndexNext]_liVars /\ [SaveSyncNext]_ssVars /\ [BuildNext]_bpVars
    OBVIOUS
  <2> QED
    BY DEF LibraryNext, libraryVars
<1> QED
  BY <1>1, <1>2, PTL DEF LibrarySpec, LibraryIndexSpec, SaveSyncSpec, BuildSpec

(* The index of the dumps, a title's saves and the builds keep their types *)
(* (library_index.cpp, romm_saves.cpp, hub_build.cpp).                     *)
THEOREM LibraryTyped == LibrarySpec => []LibraryTypeOK
<1>1. LibraryIndexTypeOK /\ SaveSyncTypeOK /\ BuildTypeOK => LibraryTypeOK
  BY DEF LibraryTypeOK
<1> QED
  BY <1>1, PartsRun, LibraryIndexTyped, SaveSyncTyped, BuildTyped, PTL
=============================================================================
