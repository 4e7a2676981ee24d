---------------------------- MODULE LibraryIndex ----------------------------
(***************************************************************************)
(* The library index (library_index.cpp, romscan.cpp): which dump on disk  *)
(* is which title's ROM.  It is a file loaded, changed and saved whole, by *)
(* way of one field, library, that the main worker's scans, downloads and  *)
(* clean-ups share with the UI thread.  Every job and every clean-up ends  *)
(* with a reload, so that between them the field holds what is stored.     *)
(* A path names a dump and the cue sheet beside it, if any.                *)
(***************************************************************************)
EXTENDS Naturals, FiniteSets, FiniteSetsExt

CONSTANTS Titles,          \* the titles any catalog may have, by number
          Catalogs,        \* the catalogs there are
          Paths,           \* where dumps may lie
          Contents,        \* what a dump may be
          TitlePlatform(_), FolderPlatform(_),  \* of a title, of a path
          Identity(_),     \* the dumps of a title; two titles may share one
          NeedsCue(_),     \* is a cue sheet with the right tracks required
          MaxDumps,        \* bound: changes of the library folder
          MaxScans         \* bound: scans

Platforms == {TitlePlatform(t) : t \in Titles}
NoDigest == "none"
NoTitle == 0
NoEntry == [digest |-> NoDigest, stamp |-> 0, title |-> NoTitle]
EmptyIndex == [files |-> [p \in Paths |-> NoEntry], binds |-> {}]

ASSUME LibraryIndexAssumption ==
    /\ Titles \subseteq Nat \ {NoTitle} /\ NoDigest \notin Contents
    /\ \A t \in Titles : Identity(t) \subseteq Contents
    /\ Catalogs \subseteq SUBSET Titles

VARIABLES dumps,    \* on disk: what each path holds, its time stamp, its cue
          catalog,  \* the titles of the catalog loaded
          stored,   \* library-index.json
          walk,     \* the worker: "idle", or the scan it is in
          library,  \* the field: the index as loaded
          found,    \* the digest the scan has of each path it saw
          ui,       \* the UI thread: "idle", or cleaning up
          clean,    \* has a full rebuild been stored that began from nothing,
                    \*   was left alone, and no dump changed since it began
          grown, scans

liVars == <<dumps, catalog, stored, walk, library, found, ui, clean, grown, scans>>

Gone == [what |-> NoDigest, stamp |-> 0, cue |-> FALSE]
OnDisk(p) == dumps[p].what # NoDigest
NoWalk == [at |-> "idle", platforms |-> {}, whole |-> FALSE, of |-> [p \in Paths |-> 0]]

LibraryIndexInit ==
    /\ dumps = [p \in Paths |-> Gone] /\ catalog \in Catalogs
    /\ stored = EmptyIndex /\ library = EmptyIndex /\ walk = NoWalk
    /\ found = [p \in Paths |-> NoDigest] /\ ui = "idle"
    /\ clean = FALSE /\ grown = 0 /\ scans = 0

(* Cue sheets matter to discs only.                                        *)
Cues(p) == {cue \in BOOLEAN : cue => \E t \in Titles : NeedsCue(t) /\ TitlePlatform(t) = FolderPlatform(p)}
(* The user adds, replaces or removes a dump; replacing changes its size   *)
(* or its time.                                                            *)
ChangeDump(p, what, cue) ==
    /\ grown < MaxDumps /\ grown' = grown + 1
    /\ dumps' = [dumps EXCEPT ![p] =
          IF what = NoDigest THEN Gone
          ELSE [what |-> what, stamp |-> grown', cue |-> cue]]
    /\ clean' = FALSE /\ walk' = [walk EXCEPT !.whole = FALSE]
    /\ UNCHANGED <<catalog, stored, library, found, ui, scans>>
RefreshCatalog(titles) ==
    /\ walk.at = "idle" /\ titles # catalog
    /\ catalog' = titles
    /\ UNCHANGED <<dumps, stored, walk, library, found, ui, clean, grown, scans>>

(* preferred_rom: a dump that is there, with its cue when it is a disc.    *)
TocOk(t, p) == NeedsCue(t) => dumps[p].cue
PreferredRoms(index, t) ==
    {p \in Paths : <<t, p>> \in index.binds /\ OnDisk(p) /\ TocOk(t, p)}

(* A save writes a copy and renames it in.  A copy that cannot be opened   *)
(* changes nothing; one cut short for want of space is renamed too, and    *)
(* loads as no index at all.  Nobody looks at the outcome.                 *)
Saves(index) == {index, EmptyIndex, stored}
(* An index is stored, and the field reloaded from what was.               *)
Store(index) == stored' \in Saves(index) /\ library' = stored'

(***************************************************************************)
(* The scan                                                                *)
(***************************************************************************)
Seen(platforms) == {p \in Paths : FolderPlatform(p) \in platforms /\ OnDisk(p)}
Cached(index, p) ==
    /\ index.files[p].digest # NoDigest
    /\ index.files[p].stamp = dumps[p].stamp
MatchedBy(t, digests) ==
    \E p \in Paths : FolderPlatform(p) = TitlePlatform(t) /\ digests[p] \in Identity(t)

(* What the walk knows when it hashed the paths in more: a path is left    *)
(* unhashed when every title it could be has been found.                   *)
Digests(index, full, platforms, more) ==
    [p \in Paths |->
       IF p \notin Seen(platforms) THEN NoDigest
       ELSE IF p \in more THEN dumps[p].what
       ELSE IF ~full /\ Cached(index, p) THEN index.files[p].digest ELSE NoDigest]
Walked(index, full, platforms) ==
    {d \in {Digests(index, full, platforms, more) : more \in SUBSET Seen(platforms)} :
        \A p \in Seen(platforms), t \in catalog :
            /\ d[p] = NoDigest /\ FolderPlatform(p) = TitlePlatform(t)
            /\ dumps[p].what \in Identity(t)
            => MatchedBy(t, d)}

(* A full rebuild of every platform starts from an empty index.  Only      *)
(* platforms of which the catalog has titles are walked.                   *)
(* Mutant of ScanBase. *)
ScanBaseStored(whole) == stored
ScanBase(whole) == IF whole THEN EmptyIndex ELSE stored
Walk(platforms, whole) ==
    [at |-> "walked", platforms |-> platforms, whole |-> whole,
     of |-> [p \in Paths |-> dumps[p].stamp]]
BeginScan(full, platforms) ==
    /\ walk.at = "idle" /\ scans < MaxScans /\ scans' = scans + 1
    /\ LET whole == full /\ platforms = Platforms
           known == platforms \intersect {TitlePlatform(t) : t \in catalog}
       IN /\ library' = ScanBase(whole)
          /\ found' \in Walked(library', full, known)
          /\ walk' = Walk(known, whole)
    /\ UNCHANGED <<dumps, catalog, stored, ui, clean, grown>>

Matches ==
    {m \in catalog \X Paths :
        /\ FolderPlatform(m[2]) = TitlePlatform(m[1]) /\ found[m[2]] \in Identity(m[1])
        /\ TocOk(m[1], m[2])}
(* A dump is stamped with the first title of those found; one that was not *)
(* hashed keeps its digest and its title, under its new size and time.     *)
Stamped(index, p) ==
    LET of == {t \in {m[1] : m \in Matches} :
                  FolderPlatform(p) = TitlePlatform(t) /\ found[p] \in Identity(t)}
    IN [digest |-> IF found[p] = NoDigest THEN index.files[p].digest ELSE found[p],
        stamp |-> walk.of[p],
        title |-> CASE of # {} -> Min(of)
                    [] of = {} /\ found[p] # NoDigest -> NoTitle
                    [] OTHER -> index.files[p].title]
(* The titles' binds are built anew: from what this scan matched and from  *)
(* the title each file is stamped with.                                    *)
FileBinds(files) == {<<files[p].title, p>> : p \in {q \in Paths : files[q].title # NoTitle}}
Merge(index) ==
    LET files == [p \in Paths |->
          IF FolderPlatform(p) \notin walk.platforms THEN index.files[p]
          ELSE IF walk.of[p] = 0 THEN NoEntry ELSE Stamped(index, p)]
    IN [files |-> files, binds |-> Matches \union FileBinds(files)]
(* What was found is merged into the field as it then is: the walk takes   *)
(* minutes.                                                                *)
MergeScan ==
    /\ walk.at = "walked"
    /\ library' = Merge(library) /\ found' = [p \in Paths |-> NoDigest]
    /\ walk' = [NoWalk EXCEPT !.at = "merged", !.whole = walk.whole]
    /\ UNCHANGED <<dumps, catalog, stored, ui, clean, grown, scans>>
SaveScan ==
    /\ walk.at = "merged" /\ walk' = NoWalk
    /\ Store(library)
    /\ clean' = (clean \/ (walk.whole /\ stored' \in {library, EmptyIndex}))
    /\ UNCHANGED <<dumps, catalog, found, ui, grown, scans>>

(***************************************************************************)
(* What changes the index without a scan                                   *)
(***************************************************************************)
(* Mutant of Purged. *)
PurgedBindsOnly(index, platforms) ==
    [files |-> index.files,
     binds |-> {b \in index.binds : FolderPlatform(b[2]) \in platforms => OnDisk(b[2])}]
Purged(index, platforms) ==
    LET files == [p \in Paths |->
          IF FolderPlatform(p) \in platforms /\ ~OnDisk(p) THEN NoEntry ELSE index.files[p]]
    IN [files |-> files, binds |-> FileBinds(files)]
PurgeMissing(platforms) ==
    /\ walk.at = "idle"
    /\ Store(Purged(stored, platforms))
    /\ UNCHANGED <<dumps, catalog, walk, found, ui, clean, grown, scans>>

(* The UI thread reloads the field whenever its rows are refreshed (saved  *)
(* settings, a renamed save), jobs running or not.  A rebuild is then no   *)
(* longer one from nothing.                                                *)
UiAssigns(index) == library' = index /\ walk' = [walk EXCEPT !.whole = FALSE]
UiReloads ==
    /\ ui = "idle" /\ UiAssigns(stored)
    /\ UNCHANGED <<dumps, catalog, stored, found, ui, clean, grown, scans>>
(* It reloads and cleans up when Install or Build finds the title's dump   *)
(* gone.                                                                   *)
UiPurges(t) ==
    /\ ui = "idle" /\ ui' = "purged" /\ t \in catalog
    /\ PreferredRoms(stored, t) = {} /\ \E p \in Paths : <<t, p>> \in stored.binds
    /\ UiAssigns(Purged(stored, {TitlePlatform(t)}))
    /\ UNCHANGED <<dumps, catalog, stored, found, clean, grown, scans>>
UiSaves ==
    /\ ui = "purged" /\ ui' = "idle"
    /\ stored' \in Saves(library) /\ UiAssigns(stored')
    /\ UNCHANGED <<dumps, catalog, found, clean, grown, scans>>

(* Titles the catalog gained are matched to digests the index has; those   *)
(* left without a dump have their platforms scanned.                       *)
Rematched(index) ==
    LET title(p) ==
          LET f == index.files[p]
              of == {t \in catalog : f.digest \in Identity(t) /\ TocOk(t, p)}
          IN IF f.title = NoTitle /\ of # {} THEN Min(of) ELSE f.title
        files == [p \in Paths |-> [index.files[p] EXCEPT !.title = title(p)]]
    IN IF files = index.files THEN index ELSE [files |-> files, binds |-> FileBinds(files)]
Missing(index) == {t \in catalog : \A p \in Paths : <<t, p>> \notin index.binds}
AutoScan ==
    /\ walk.at = "idle" /\ ui = "idle" /\ scans < MaxScans
    /\ LET index == Rematched(stored)
           platforms == {TitlePlatform(t) : t \in Missing(index)}
       IN /\ stored' \in IF index = stored THEN {index} ELSE Saves(index)
          /\ library' = stored'
          /\ IF platforms = {} THEN UNCHANGED <<walk, found, scans>>
             ELSE /\ found' \in Walked(stored', FALSE, platforms)
                  /\ walk' = Walk(platforms, FALSE)
                  /\ scans' = scans + 1
    /\ UNCHANGED <<dumps, catalog, ui, clean, grown>>

BoundTo(index, t, p, what, stamp) ==
    [files |-> [index.files EXCEPT ![p] = [digest |-> what, stamp |-> stamp, title |-> t]],
     binds |-> index.binds \union {<<t, p>>}]
(* A downloaded set is hashed and bound; when it is not what the title     *)
(* needs, its platform is scanned.                                         *)
BindDownload(t, p, what, cue) ==
    /\ walk.at = "idle" /\ t \in catalog /\ grown < MaxDumps /\ scans < MaxScans
    /\ FolderPlatform(p) = TitlePlatform(t) /\ ~OnDisk(p)
    /\ grown' = grown + 1 /\ UNCHANGED <<catalog, ui>> /\ clean' = FALSE
    /\ dumps' = [dumps EXCEPT ![p] = [what |-> what, stamp |-> grown', cue |-> cue]]
    /\ IF what \in Identity(t) /\ (NeedsCue(t) => cue)
       THEN /\ Store(BoundTo(stored, t, p, what, grown'))
            /\ UNCHANGED <<walk, found, scans>>
       ELSE /\ library' = stored /\ UNCHANGED stored
            /\ found' \in Walked(stored, FALSE, {TitlePlatform(t)})'
            /\ walk' = Walk({TitlePlatform(t)}, FALSE)'
            /\ scans' = scans + 1

(* Titles that left the catalog lose their binds.                          *)
PruneTitles ==
    /\ walk.at = "idle"
    /\ Store(
          [files |-> [p \in Paths |-> IF stored.files[p].title \in catalog THEN stored.files[p]
                                      ELSE [stored.files[p] EXCEPT !.title = NoTitle]],
           binds |-> {b \in stored.binds : b[1] \in catalog}])
    /\ UNCHANGED <<dumps, catalog, walk, found, ui, clean, grown, scans>>

LibraryIndexNext ==
    \/ \E p \in Paths, what \in Contents \union {NoDigest} :
         \E cue \in Cues(p) : ChangeDump(p, what, cue)
    \/ \E titles \in Catalogs : RefreshCatalog(titles)
    \/ \E full \in BOOLEAN, platforms \in (SUBSET Platforms) \ {{}} :
         BeginScan(full, platforms)
    \/ MergeScan \/ SaveScan \/ AutoScan \/ PruneTitles \/ UiReloads \/ UiSaves
    \/ \E platforms \in (SUBSET Platforms) \ {{}} : PurgeMissing(platforms)
    \/ \E t \in Titles : UiPurges(t)
    \/ \E t \in Titles, p \in Paths, what \in Contents :
         \E cue \in Cues(p) : BindDownload(t, p, what, cue)
LibraryIndexSpec == LibraryIndexInit /\ [][LibraryIndexNext]_liVars

----------------------------------------------------------------------------
IndexTypeOK(index) ==
    /\ \A p \in Paths :
         /\ index.files[p].digest \in Contents \union {NoDigest}
         /\ index.files[p].title \in Titles \union {NoTitle}
    /\ FileBinds(index.files) \subseteq index.binds /\ index.binds \subseteq Titles \X Paths
LibraryIndexTypeOK ==
    /\ IndexTypeOK(stored) /\ IndexTypeOK(library) /\ ui \in {"idle", "purged"}
    /\ catalog \subseteq Titles /\ walk.platforms \subseteq Platforms

(* An index may hold an old digest for a dump that was replaced; a full    *)
(* rebuild heals that for good, whatever scans, clean-ups, reloads,        *)
(* catalogs and failed saves come after it: until a dump changes again no  *)
(* title is bound to a dump that is not its own.  Not so a rebuild during  *)
(* which the UI thread assigned the field: it was merged over the old      *)
(* index (hub_model.cpp:409, 1804-1859, 4271-4283, romscan.cpp:317-385,    *)
(* library_index.cpp:538-745, 869-897).                                    *)
RebuildHeals ==
    clean => \A b \in stored.binds : dumps[b[2]].what \in Identity(b[1])
=============================================================================
