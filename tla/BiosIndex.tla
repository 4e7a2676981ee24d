----------------------------- MODULE BiosIndex -----------------------------
(***************************************************************************)
(* The BIOS index (bios_index.cpp, hub_model.cpp): which image under the   *)
(* BIOS folder serves which title.  The hub holds one index in memory.     *)
(* Its worker loads, scans into and saves it; so does refresh_rows, which  *)
(* the UI thread calls too, whatever the worker is at.  `retcomm bios      *)
(* scan` is a process of its own.                                          *)
(*                                                                         *)
(* A row keeps the image that was hashed, for its size and digests, with   *)
(* the kinds of digest there are of it and the file's time stamp.  Which   *)
(* of a title's images is preferred is left out.  Two threads on the index *)
(* in memory are taken to assign it whole.                                 *)
(***************************************************************************)
EXTENDS Naturals, FiniteSets

CONSTANTS Consoles,        \* the platforms, by number as they are ordered
          BiosTitles,      \* titles that want a BIOS
          BiosCatalogs,    \* the catalogs there are
          BiosPaths,       \* where images may lie
          Images,          \* what an image may be
          BiosRoots,       \* folders that may be the BIOS folder
          ConsoleOf(_),    \* of a title
          FolderOf(_),     \* the platform of a path's folder, 0 when it has none
          RootOf(_),       \* of a path
          Kinds(_),        \* the kinds of digest a title gives
          Genuine(_),      \* the images with a title's digests
          Sized(_),        \* the images of a size it takes
          Hinted(_),       \* the paths with a file name it gives
          MaxImages,       \* bound: changes of the images, and of the folder
          MaxBiosScans     \* bound: scans

NoImage == "none"
NoRow == [what |-> NoImage, kinds |-> {}, stamp |-> 0, console |-> 0]
NoBios == [rows |-> [p \in BiosPaths |-> NoRow], binds |-> {}]

ASSUME BiosAssumption ==
    /\ Consoles \subseteq Nat \ {0} /\ NoImage \notin Images /\ MaxImages \in Nat
    /\ BiosCatalogs \subseteq SUBSET BiosTitles
    /\ \A t \in BiosTitles :
          /\ ConsoleOf(t) \in Consoles /\ Genuine(t) \subseteq Sized(t)
          /\ Sized(t) \subseteq Images

VARIABLES images,    \* on disk: what each path holds, and its time stamp
          biosRoot,  \* cfg.bios_root
          listed,    \* the titles of the catalog loaded
          biosFile,  \* bios-index.json; cut short, it loads as empty
          biosNow,   \* the hub's index in memory
          biosScan,  \* the worker's
          biosUi,    \* refresh_rows on the UI thread
          biosCli,   \* what the other process will save, if it runs
          healed,    \* since a full rebuild, has no image changed, no other
                     \*   process saved and nobody put back an index of before
          imaged, biosScans

biVars == <<images, biosRoot, listed, biosFile, biosNow, biosScan, biosUi, biosCli, healed,
            imaged, biosScans>>

There(p) == images[p].what # NoImage
NoScan == [at |-> "idle", whole |-> FALSE, roots |-> {}, rows |-> [p \in BiosPaths |-> NoRow]]
NoReload == [at |-> "no", index |-> NoBios]

BiosInit ==
    /\ images = [p \in BiosPaths |-> [what |-> NoImage, stamp |-> 0]]
    /\ biosRoot \in BiosRoots /\ listed \in BiosCatalogs
    /\ biosFile = NoBios /\ biosNow = NoBios /\ biosScan = NoScan /\ biosUi = NoReload
    /\ biosCli = <<>> /\ healed = FALSE /\ imaged = 0 /\ biosScans = 0

ChangeImage(p, what) ==
    /\ imaged < MaxImages /\ imaged' = imaged + 1
    /\ images' = [images EXCEPT ![p] = [what |-> what, stamp |-> imaged']]
    /\ healed' = FALSE /\ biosScan' = [biosScan EXCEPT !.whole = FALSE]
    /\ UNCHANGED <<biosRoot, listed, biosFile, biosNow, biosUi, biosCli, biosScans>>

(* A save truncates the file and writes it.                                *)
BiosWritten(index) == {index, NoBios}

(***************************************************************************)
(* Matching, from what the rows say                                        *)
(***************************************************************************)
ByDigest(t, row) == row.kinds \intersect Kinds(t) # {} /\ row.what \in Genuine(t)
BySize(t) == Kinds(t) = {} /\ Sized(t) # Images
TryMatch(t, p, row) ==
    /\ row.what \in Sized(t)
    /\ ByDigest(t, row) \/ p \in Hinted(t) \/ BySize(t)
(* Every title's binds are built anew from all the rows.                   *)
Rematch(rows, titles) ==
    [rows |-> rows,
     binds |-> {b \in titles \X BiosPaths : TryMatch(b[1], b[2], rows[b[2]])}]

(***************************************************************************)
(* The scan.  Each platform's folders are walked, and the whole BIOS       *)
(* folder when no platform was asked for; a file in no walked folder goes  *)
(* to the first platform that has a use for its size.                      *)
(***************************************************************************)
NeedsOf(c) == {t \in listed : ConsoleOf(t) = c}
SizeInteresting(c, what) == \E t \in NeedsOf(c) : what \in Sized(t)
AskedOf(platforms) == IF platforms = {} THEN Consoles ELSE platforms
ScanConsole(p, platforms) ==
    LET use == {c \in Consoles : SizeInteresting(c, images[p].what)}
    IN  IF FolderOf(p) \in use \cap AskedOf(platforms) THEN {FolderOf(p)}
        ELSE IF platforms = {} THEN {c \in use : \A d \in use : c <= d} ELSE {}
(* A row is taken from the cache when it is as old as the file and has     *)
(* every kind of digest that the platform's titles give.                   *)
Hashed(p, c, cache) ==
    LET want == UNION {Kinds(t) : t \in NeedsOf(c)}
        old == cache.rows[p]
        fresh == old.stamp = images[p].stamp /\ old.kinds # {} /\ want \subseteq old.kinds
    IN  [what |-> images[p].what, stamp |-> images[p].stamp, console |-> c,
         kinds |-> IF fresh THEN old.kinds ELSE want]
(* Nothing is walked when no title wants a BIOS or the folder is not there.*)
ScannedRoots(roots, mounted) == IF listed # {} /\ mounted THEN roots ELSE {}
ScanBios(roots, platforms, cache) ==
    [p \in BiosPaths |->
        LET to == IF There(p) /\ RootOf(p) \in roots THEN ScanConsole(p, platforms) ELSE {}
        IN  IF to = {} THEN NoRow ELSE Hashed(p, CHOOSE c \in to : TRUE, cache)]
(* Rows under a folder that was scanned go unless the scan saw the file,   *)
(* those of platforms that were not asked for included.                    *)
MergeScan(index, roots, seen) ==
    Rematch([p \in BiosPaths |->
               IF seen[p] # NoRow THEN seen[p]
               ELSE IF RootOf(p) \in roots THEN NoRow ELSE index.rows[p]], listed)

(* Mutant of BaseOf. *)
BaseOfKeeps(whole) == biosFile
(* A full rebuild of every platform starts from an empty index.            *)
BaseOf(whole) == IF whole THEN NoBios ELSE biosFile
BiosBegins(full, platforms, mounted) ==
    LET whole == full /\ platforms = {}
        base == BaseOf(whole)
        roots == ScannedRoots({biosRoot}, mounted)
    IN  /\ biosNow' = base
        /\ biosScan' = [at |-> "walked", whole |-> whole, roots |-> roots,
                    rows |-> ScanBios(roots, platforms, IF full THEN NoBios ELSE base)]
BeginBiosScan(full, platforms, mounted) ==
    /\ biosScan.at = "idle" /\ biosScans < MaxBiosScans /\ biosScans' = biosScans + 1
    /\ BiosBegins(full, platforms, mounted)
    /\ UNCHANGED <<images, biosRoot, listed, biosFile, biosUi, biosCli, healed, imaged>>
(* The merge is into the index in memory, whoever assigned it last.        *)
EndBiosScan ==
    /\ biosScan.at = "walked" /\ biosScan' = [NoScan EXCEPT !.at = "ended"]
    /\ biosNow' = MergeScan(biosNow, biosScan.roots, biosScan.rows)
    /\ biosFile' \in BiosWritten(biosNow')
    /\ healed' = (healed \/ (biosScan.whole /\ biosUi.at # "loaded" /\ biosCli = <<>>))
    /\ UNCHANGED <<images, biosRoot, listed, biosUi, biosCli, imaged, biosScans>>

(* Clean missing.                                                          *)
PurgeMissingBios(platforms) ==
    /\ biosScan.at = "idle" /\ biosScan' = [NoScan EXCEPT !.at = "ended"]
    /\ biosNow' = Rematch([p \in BiosPaths |->
                  IF biosFile.rows[p].console \in AskedOf(platforms) /\ ~There(p)
                  THEN NoRow ELSE biosFile.rows[p]], listed)
    /\ biosFile' \in BiosWritten(biosNow')
    /\ UNCHANGED <<images, biosRoot, listed, biosUi, biosCli, healed, imaged, biosScans>>
(* A catalog is matched to the images the index has, without a scan; a     *)
(* check for updates leaves that to the end of the job.                    *)
RefreshBiosCatalog(titles, check) ==
    /\ biosScan.at = "idle" /\ titles # listed /\ listed' = titles
    /\ biosScan' = [NoScan EXCEPT !.at = "ended"]
    /\ IF check THEN UNCHANGED <<biosFile, biosNow>>
       ELSE /\ biosNow' = Rematch(biosFile.rows, titles)
            /\ biosFile' \in BiosWritten(biosNow')
    /\ UNCHANGED <<images, biosRoot, biosUi, biosCli, healed, imaged, biosScans>>
(* Titles that left the catalog lose their binds.                          *)
PruneBios ==
    /\ biosScan.at = "idle" /\ biosScan' = [NoScan EXCEPT !.at = "ended"]
    /\ LET kept == [biosFile EXCEPT !.binds = {b \in @ : b[1] \in listed}]
       IN  biosFile' \in IF kept = biosFile THEN {biosFile} ELSE BiosWritten(kept)
    /\ biosNow' = biosFile'
    /\ UNCHANGED <<images, biosRoot, listed, biosUi, biosCli, healed, imaged, biosScans>>

(***************************************************************************)
(* refresh_rows: loads the index, matches it to the catalog, and saves it  *)
(* when a title gained its first image.  A job ends with it.               *)
(***************************************************************************)
Bound(index) == {b[1] : b \in index.binds}
Gained(index) == Bound(Rematch(index.rows, listed)) \ Bound(index) # {}
JobEndsReloading ==
    /\ biosScan.at = "ended" /\ biosNow' = Rematch(biosFile.rows, listed)
    /\ biosScan' = IF Gained(biosFile) THEN [biosScan EXCEPT !.at = "saving"] ELSE NoScan
    /\ UNCHANGED <<images, biosRoot, listed, biosFile, biosUi, biosCli, healed, imaged, biosScans>>
JobEndsSaving ==
    /\ biosScan.at = "saving" /\ biosScan' = NoScan /\ biosFile' \in BiosWritten(biosNow)
    /\ UNCHANGED <<images, biosRoot, listed, biosNow, biosUi, biosCli, healed, imaged, biosScans>>
UiLoadsBios ==
    /\ biosUi.at = "no" /\ biosUi' = [at |-> "loaded", index |-> biosFile]
    /\ UNCHANGED <<images, biosRoot, listed, biosFile, biosNow, biosScan, biosCli, healed, imaged,
                   biosScans>>
UiAssignsBios ==
    /\ biosUi.at = "loaded" /\ biosNow' = Rematch(biosUi.index.rows, listed)
    /\ biosUi' = IF Gained(biosUi.index) THEN [NoReload EXCEPT !.at = "save"] ELSE NoReload
    /\ biosScan' = [biosScan EXCEPT !.whole = FALSE]
    /\ UNCHANGED <<images, biosRoot, listed, biosFile, biosCli, healed, imaged, biosScans>>
UiSavesBios ==
    /\ biosUi.at = "save" /\ biosUi' = NoReload /\ biosFile' \in BiosWritten(biosNow)
    /\ UNCHANGED <<images, biosRoot, listed, biosNow, biosScan, biosCli, healed, imaged, biosScans>>
(* The BIOS folder is set in Settings; then the rows are refreshed.         *)
SetBiosRoot(root) ==
    /\ root # biosRoot /\ biosRoot' = root /\ biosUi.at = "no"
    /\ imaged < MaxImages /\ imaged' = imaged + 1
    /\ biosUi' = [at |-> "loaded", index |-> biosFile]
    /\ UNCHANGED <<images, listed, biosFile, biosNow, biosScan, biosCli, healed, biosScans>>

(* retcomm bios scan, of the BIOS folder or of folders it is given.        *)
CliScans(full, roots) ==
    /\ biosCli = <<>> /\ biosScans < MaxBiosScans /\ biosScans' = biosScans + 1
    /\ LET base == BaseOf(full /\ roots = {})
           walked == ScannedRoots(IF roots = {} THEN {biosRoot} ELSE roots, TRUE)
           seen == ScanBios(walked, {}, IF full THEN NoBios ELSE base)
       IN  biosCli' = <<MergeScan(base, walked, seen)>>
    /\ UNCHANGED <<images, biosRoot, listed, biosFile, biosNow, biosScan, biosUi, healed, imaged>>
CliSaves ==
    /\ biosCli # <<>> /\ biosCli' = <<>> /\ biosFile' \in BiosWritten(biosCli[1])
    /\ healed' = FALSE /\ biosScan' = [biosScan EXCEPT !.whole = FALSE]
    /\ UNCHANGED <<images, biosRoot, listed, biosNow, biosUi, imaged, biosScans>>

BiosWorker ==
    \/ \E full, mounted \in BOOLEAN, platforms \in {{}} \cup {{c} : c \in Consoles} :
          BeginBiosScan(full, platforms, mounted)
    \/ EndBiosScan \/ JobEndsReloading \/ JobEndsSaving \/ PruneBios
    \/ \E platforms \in {{}} \cup {{c} : c \in Consoles} : PurgeMissingBios(platforms)
    \/ \E titles \in BiosCatalogs, check \in BOOLEAN : RefreshBiosCatalog(titles, check)
BiosOthers ==
    \/ \E p \in BiosPaths, what \in Images \cup {NoImage} : ChangeImage(p, what)
    \/ UiLoadsBios \/ UiAssignsBios \/ UiSavesBios
    \/ \E root \in BiosRoots : SetBiosRoot(root)
    \/ \E full \in BOOLEAN, roots \in SUBSET BiosRoots : CliScans(full, roots)
    \/ CliSaves
BiosNext == BiosWorker \/ BiosOthers
BiosSpec == BiosInit /\ [][BiosNext]_biVars

-----------------------------------------------------------------------------
Rows == [what : Images \cup {NoImage}, kinds : SUBSET UNION {Kinds(t) : t \in BiosTitles},
         stamp : 0 .. MaxImages, console : Consoles \cup {0}]
BiosTypeOK ==
    /\ \A p \in BiosPaths : images[p].what \in Images \cup {NoImage}
    /\ biosRoot \in BiosRoots /\ listed \in SUBSET BiosTitles
    /\ \A index \in {biosFile, biosNow, biosUi.index} :
          /\ \A p \in BiosPaths : index.rows[p] \in Rows
          /\ index.binds \subseteq BiosTitles \X BiosPaths
    /\ biosScan.at \in {"idle", "walked", "ended", "saving"} /\ biosScan.roots \subseteq BiosRoots
    /\ biosUi.at \in {"no", "loaded", "save"}

(* A full rebuild of the BIOS index heals it: until an image changes, what *)
(* a title is bound to, in memory and on disk, is an image it takes,       *)
(* through whatever scans of one platform, moves of the BIOS folder,       *)
(* catalogs, clean-ups and failed saves follow, unless another process     *)
(* saves or the UI thread puts back an index it loaded before              *)
(* (hub_model.cpp:1873-1909, 1997-2055, bios_index.cpp:568-627).           *)
BiosHeals ==
    healed => \A index \in {biosFile, biosNow} : \A b \in index.binds :
                 TryMatch(b[1], b[2], [index.rows[b[2]] EXCEPT !.what = images[b[2]].what])
=============================================================================
