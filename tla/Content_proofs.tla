---------------------------- MODULE Content_proofs ----------------------------
(***************************************************************************)
(* Proofs about what is chosen and fetched beside a title's build: the     *)
(* index of a RomM server's ROMs, for every catalog, any number of scans   *)
(* and downloads, and a server that fails at any request; the index of     *)
(* BIOS images, for every console and title, any scans and catalogs and a  *)
(* save that fails; a title's entries among Steam's games, for any         *)
(* profiles, titles and launchers; and config.json and its writers, for    *)
(* any number of changes, of worker reads, of other processes and of       *)
(* failed saves.                                                           *)
(***************************************************************************)
EXTENDS RommFetch, SteamShortcuts, BiosIndex, HubConfig, FiniteSetTheorems, SequenceTheorems, TLAPS

(* The index of the server's ROMs.                                         *)

Marks == {"unknown", "available", "missing"}

(* The index a scan builds says missing only where the server's search was *)
(* answered: with no match, or with an entry whose files it did not tell.  *)
NotedAnswered ==
    job = "scan" => \A t \in Titles : noted[t] = "missing" => t \in denied \cup untold

MarksInv ==
    /\ noted \in [Titles -> Marks] /\ marks \in [Titles -> Marks]
    /\ NotedAnswered
-----------------------------------------------------------------------------
LEMMA MarksInit == RommFetchInit => MarksInv
  BY DEF RommFetchInit, MarksInv, NotedAnswered, Marks, Blank

LEMMA MarksStep == MarksInv /\ [RommFetchNext]_rfVars => MarksInv'
  <1> SUFFICES ASSUME MarksInv, [RommFetchNext]_rfVars PROVE MarksInv'
    OBVIOUS
  <1> USE DEF MarksInv, NotedAnswered, Marks
  <1>1. CASE BeginRommScan
    BY <1>1 DEF BeginRommScan, Requests, Blank
  <1>2. ASSUME NEW told \in BOOLEAN, ScanTitle(told) PROVE MarksInv'
    <2>1. noted' \in [Titles -> Marks] /\ marks' \in [Titles -> Marks]
      BY <1>2 DEF ScanTitle
    <2>2. \A t \in Titles : noted'[t] = "missing" => t = cursor \/ noted[t] = "missing"
      BY <1>2 DEF ScanTitle
    <2>3. NotedAnswered'
      BY <1>2, <2>2 DEF ScanTitle
    <2>4. QED
      BY <2>1, <2>3
  <1>3. CASE SearchFails
    BY <1>3 DEF SearchFails
  <1>4. ASSUME NEW saved \in BOOLEAN, EndRommScan(saved) PROVE MarksInv'
    BY <1>4 DEF EndRommScan
  <1>5. ASSUME NEW t \in Titles, NEW told \in BOOLEAN, FetchRom(t, told) PROVE MarksInv'
    BY <1>5 DEF FetchRom, Requests
  <1>6. CASE FileArrives
    BY <1>6 DEF FileArrives
  <1>7. CASE FileFails
    BY <1>7 DEF FileFails
  <1>8. ASSUME NEW matches \in BOOLEAN, BindRom(matches) PROVE MarksInv'
    BY <1>8 DEF BindRom
  <1>9. ASSUME NEW t \in Titles, NEW found \in BOOLEAN, FetchBios(t, found) PROVE MarksInv'
    BY <1>9 DEF FetchBios, Requests
  <1>10. ASSUME NEW t \in Titles, NEW o, Offer(t, o) PROVE MarksInv'
    BY <1>10 DEF Offer
  <1>11. CASE UNCHANGED rfVars
    BY <1>11 DEF rfVars
  <1>12. QED
    BY <1>1, <1>2, <1>3, <1>4, <1>5, <1>6, <1>7, <1>8, <1>9, <1>10, <1>11 DEF RommFetchNext

(* Only the end of a scan and a download write marks, and a download says  *)
(* available of the title it bound.                                        *)
LEMMA MarksGo ==
  MarksInv /\ [RommFetchNext]_rfVars =>
    \A t \in Titles : marks[t] = "available" /\ marks'[t] = "missing" => t \in denied \cup untold
  <1> SUFFICES ASSUME MarksInv, [RommFetchNext]_rfVars, NEW t \in Titles,
                      marks[t] = "available", marks'[t] = "missing"
               PROVE  t \in denied \cup untold
    OBVIOUS
  <1>1. ASSUME NEW saved \in BOOLEAN, EndRommScan(saved) PROVE t \in denied \cup untold
    BY <1>1 DEF EndRommScan, MarksInv, NotedAnswered
  <1>2. ASSUME NEW matches \in BOOLEAN, BindRom(matches) PROVE FALSE
    BY <1>2 DEF BindRom, MarksInv
  <1>3. ASSUME UNCHANGED marks PROVE FALSE
    BY <1>3
  <1>4. QED
    BY <1>1, <1>2, <1>3
    DEF RommFetchNext, rfVars, BeginRommScan, ScanTitle, SearchFails, FetchRom, FileArrives,
        FileFails, FetchBios, Offer

(* A search that fails, at whatever title it falls, turns no available ROM *)
(* into a missing one (romm_fetch.cpp:535-590): of what becomes missing    *)
(* the server, in that scan, denied a match or told no files.              *)
THEOREM SearchOutageKeepsMarksHolds == RommFetchSpec => SearchOutageKeepsMarks
  BY MarksInit, MarksStep, MarksGo, PTL DEF RommFetchSpec, SearchOutageKeepsMarks

(* A file of a ROM is at hand as long as its requests are not all spent.   *)
LEMMA PartsOfTries ==
    ASSUME NEW t \in Nat, NEW u \in Nat \ {0}, NEW n \in Nat, t \div u + 1 \in 1 .. n
    PROVE  t + 1 \in 0 .. u * n /\ (t \div u + 1) * u \in 0 .. u * n
<1> DEFINE q == t \div u
           rest == n - (q + 1)
<1>1. q \in Nat /\ t < u * (q + 1)
  <2>1. t = u * q + (t % u) /\ q \in Int /\ t % u \in 0 .. (u - 1)
    OBVIOUS
  <2>2. u * (q + 1) = u * q + u
    BY <2>1
  <2> QED  BY <2>1, <2>2
<1>2. rest \in Nat /\ n = (q + 1) + rest
  BY <1>1
<1>3. u * n = u * (q + 1) + u * rest
  BY <1>1, <1>2
<1>4. u * rest >= 0 /\ u * rest \in Int /\ u * (q + 1) \in Int /\ (q + 1) * u = u * (q + 1)
  BY <1>1, <1>2
<1>5. (q + 1) * u >= 0
  BY <1>1
<1> HIDE DEF q, rest
<1>6. u * n \in Int
  OBVIOUS
<1>7. t + 1 \in 0 .. u * n /\ (q + 1) * u \in 0 .. u * n
  BY <1>1, <1>3, <1>4, <1>5, <1>6
<1> QED  BY <1>7 DEF q

(* A download is of a title of the catalog.                                *)
RommTyped == RommFetchTypeOK /\ (job = "parts" => cursor \in Titles)

LEMMA NoTries == 0 \in 0 .. Urls * Parts
BY RommFetchAssumption

LEMMA TitlesAreNumbers == Titles \subseteq Nat
<1>1. Cardinality(Titles) \in Nat
  BY RommFetchAssumption, FS_CardinalityType
<1> QED  BY <1>1, RommFetchAssumption

LEMMA RommInit == RommFetchInit => RommTyped
<1> SUFFICES ASSUME RommFetchInit PROVE RommTyped
  OBVIOUS
<1>1. 0 \in 0 .. MaxRequests /\ 0 \in 0 .. MaxOffers
  BY RommFetchAssumption
<1>2. offers \in [Titles -> {"none", "name", "digests"}]
  BY DEF RommFetchInit
<1> QED  BY <1>1, <1>2, NoTries DEF RommFetchInit, RommTyped, RommFetchTypeOK, Blank

LEMMA RommStep == ASSUME RommTyped, [RommFetchNext]_rfVars PROVE RommTyped'
<1> DEFINE Asked == {"unknown", "available", "missing"}
<1>1. ASSUME Requests PROVE requests' \in 0 .. MaxRequests
  BY <1>1, RommFetchAssumption DEF Requests, RommTyped, RommFetchTypeOK
<1>2. CASE BeginRommScan
  <2>1. noted' \in [Titles -> Asked] /\ requests' \in 0 .. MaxRequests
    BY <1>1, <1>2 DEF BeginRommScan, Blank
  <2> QED  BY <1>2, <2>1 DEF BeginRommScan, Requests, RommTyped, RommFetchTypeOK
<1>3. ASSUME NEW told \in BOOLEAN, ScanTitle(told) PROVE RommTyped'
  <2>1. noted' \in [Titles -> Asked]
    BY <1>3 DEF ScanTitle, RommTyped, RommFetchTypeOK
  <2>2. cursor' \in Nat /\ denied' \subseteq Titles /\ untold' \subseteq Titles
    BY <1>3 DEF ScanTitle, RommTyped, RommFetchTypeOK
  <2> QED  BY <1>3, <2>1, <2>2 DEF ScanTitle, RommTyped, RommFetchTypeOK
<1>4. CASE SearchFails
  BY <1>4 DEF SearchFails, RommTyped, RommFetchTypeOK
<1>5. ASSUME NEW saved \in BOOLEAN, EndRommScan(saved) PROVE RommTyped'
  BY <1>5 DEF EndRommScan, RommTyped, RommFetchTypeOK
<1>6. ASSUME NEW t \in Titles, NEW told \in BOOLEAN, FetchRom(t, told) PROVE RommTyped'
  <2>1. requests' \in 0 .. MaxRequests /\ tries' \in 0 .. Urls * Parts /\ cursor' \in Nat
    BY <1>1, <1>6, NoTries, TitlesAreNumbers DEF FetchRom
  <2> QED  BY <1>6, <2>1 DEF FetchRom, RommTyped, RommFetchTypeOK
<1>7. ASSUME job = "parts", Part \in Whole
      PROVE  tries + 1 \in 0 .. Urls * Parts /\ Part * Urls \in 0 .. Urls * Parts
  <2>1. tries \in Nat /\ Urls \in Nat \ {0} /\ Parts \in Nat /\ tries \div Urls + 1 \in 1 .. Parts
    BY <1>7, RommFetchAssumption DEF RommTyped, RommFetchTypeOK, Part, Whole
  <2> QED  BY <2>1, PartsOfTries DEF Part
<1>8. CASE FileArrives
  <2>1. files' \in [Titles -> SUBSET Whole]
    BY <1>8 DEF FileArrives, RommTyped, RommFetchTypeOK
  <2>2. tries' \in 0 .. Urls * Parts
    BY <1>7, <1>8 DEF FileArrives
  <2> QED  BY <1>8, <2>1, <2>2 DEF FileArrives, RommTyped, RommFetchTypeOK
<1>9. CASE FileFails
  <2>1. files' \in [Titles -> SUBSET Whole]
    BY <1>9 DEF FileFails, RommTyped, RommFetchTypeOK
  <2>2. tries' \in 0 .. Urls * Parts
    BY <1>7, <1>9 DEF FileFails
  <2> QED  BY <1>9, <2>1, <2>2 DEF FileFails, RommTyped, RommFetchTypeOK
<1>10. ASSUME NEW matches \in BOOLEAN, BindRom(matches) PROVE RommTyped'
  <2>1. marks' \in [Titles -> Asked] /\ bound' \subseteq Titles
    BY <1>10 DEF BindRom, RommTyped, RommFetchTypeOK
  <2> QED  BY <1>10, <2>1 DEF BindRom, RommTyped, RommFetchTypeOK
<1>11. ASSUME NEW t \in Titles, NEW found \in BOOLEAN, FetchBios(t, found) PROVE RommTyped'
  <2>1. requests' \in 0 .. MaxRequests
    BY <1>1, <1>11 DEF FetchBios
  <2> QED  BY <1>11, <2>1 DEF FetchBios, Requests, RommTyped, RommFetchTypeOK
<1>12. ASSUME NEW t \in Titles, NEW o \in {"none", "name", "digests"}, Offer(t, o)
       PROVE  RommTyped'
  <2>1. offers' \in [Titles -> {"none", "name", "digests"}]
    BY <1>12 DEF Offer, RommTyped, RommFetchTypeOK
  <2>2. changes' \in 0 .. MaxOffers
    BY <1>12, RommFetchAssumption DEF Offer, RommTyped, RommFetchTypeOK
  <2> QED  BY <1>12, <2>1, <2>2 DEF Offer, RommTyped, RommFetchTypeOK
<1>13. CASE UNCHANGED rfVars
  BY <1>13 DEF rfVars, RommTyped, RommFetchTypeOK
<1> QED  BY <1>2, <1>3, <1>4, <1>5, <1>6, <1>8, <1>9, <1>10, <1>11, <1>12, <1>13 DEF RommFetchNext

(* The index, the files of a ROM and the count of its requests keep their  *)
(* types, however many of them fail: no download asks for a file more often *)
(* than it has URLs (romm_fetch.cpp:612-657).                              *)
THEOREM RommFetchTyped == RommFetchSpec => []RommFetchTypeOK
<1>1. RommTyped => RommFetchTypeOK
  BY DEF RommTyped
<1> QED  BY <1>1, RommInit, RommStep, PTL DEF RommFetchSpec

-----------------------------------------------------------------------------
(***************************************************************************)
(* The BIOS index.  A row agrees with the disk when it tells of the image  *)
(* that is there, or of none; an index is right when its rows agree and    *)
(* each bind is one that its row gives.                                    *)
(***************************************************************************)
AnyKind == UNION {Kinds(t) : t \in BiosTitles}
Stamps == 0 .. MaxImages
BiosRow == [what : Images \cup {NoImage}, kinds : SUBSET AnyKind, stamp : Stamps,
            console : Consoles \cup {0}]
BiosRows == [BiosPaths -> BiosRow]
BiosIdx == [rows : BiosRows, binds : SUBSET (BiosTitles \X BiosPaths)]
OnDisks == [BiosPaths -> [what : Images \cup {NoImage}, stamp : Stamps]]
Agree(rows, disk) == \A p \in BiosPaths : rows[p].what \in {NoImage, disk[p].what}
Earned(index) == \A b \in index.binds : TryMatch(b[1], b[2], index.rows[b[2]])
Right(index, disk) == index \in BiosIdx /\ Agree(index.rows, disk) /\ Earned(index)
BiosScans == [at : {"idle", "walked", "ended", "saving"}, whole : BOOLEAN,
              roots : SUBSET BiosRoots, rows : BiosRows]
BiosTyped ==
    /\ images \in OnDisks /\ imaged \in Stamps /\ listed \in SUBSET BiosTitles
    /\ biosFile \in BiosIdx /\ biosNow \in BiosIdx
    /\ biosUi \in [at : {"no", "loaded", "save"}, index : BiosIdx]
    /\ biosScan \in BiosScans
    /\ biosCli = <<>> \/ biosCli[1] \in BiosIdx
BiosFresh ==
    /\ healed => Right(biosFile, images) /\ Right(biosNow, images)
    /\ healed /\ biosUi.at = "loaded" => Right(biosUi.index, images)
    /\ healed \/ biosScan.whole =>
          (biosScan.at = "walked" => Agree(biosScan.rows, images))
    /\ biosScan.whole => biosScan.at = "walked" /\ Right(biosNow, images)
BiosInv == BiosTyped /\ BiosFresh

LEMMA NoRowIs == 0 \in Stamps /\ NoRow \in BiosRow
<1>1. 0 \in Stamps
  BY BiosAssumption DEF Stamps
<1> QED  BY <1>1 DEF NoRow, BiosRow

LEMMA NoBiosRight ==
    ASSUME NEW disk \in OnDisks
    PROVE  Right(NoBios, disk)
<1>1. NoRow \in BiosRow
  BY NoRowIs
<1>2. [p \in BiosPaths |-> NoRow] \in BiosRows /\ NoBios.rows = [p \in BiosPaths |-> NoRow]
      /\ NoBios.binds = {}
  BY <1>1 DEF NoBios, BiosRows
<1>3. NoBios \in BiosIdx
  BY <1>2 DEF NoBios, BiosIdx
<1>4. Agree(NoBios.rows, disk)
  BY <1>2 DEF Agree, NoRow
<1>5. Earned(NoBios)
  BY <1>2 DEF Earned
<1> QED  BY <1>3, <1>4, <1>5 DEF Right

LEMMA RematchEarns ==
    ASSUME NEW rows \in BiosRows, NEW titles \in SUBSET BiosTitles
    PROVE  /\ Rematch(rows, titles) \in BiosIdx /\ Earned(Rematch(rows, titles))
           /\ Rematch(rows, titles).rows = rows
<1> DEFINE binds == {b \in titles \X BiosPaths : TryMatch(b[1], b[2], rows[b[2]])}
<1>1. Rematch(rows, titles) = [rows |-> rows, binds |-> binds]
  BY DEF Rematch
<1>2. binds \in SUBSET (BiosTitles \X BiosPaths)
  OBVIOUS
<1>3. \A b \in binds : TryMatch(b[1], b[2], rows[b[2]])
  OBVIOUS
<1> HIDE DEF binds
<1> QED  BY <1>1, <1>2, <1>3 DEF Earned, BiosIdx

LEMMA RematchRight ==
    ASSUME NEW rows \in BiosRows, NEW titles \in SUBSET BiosTitles, NEW disk, Agree(rows, disk)
    PROVE  Right(Rematch(rows, titles), disk)
BY RematchEarns DEF Right

LEMMA HashedTells ==
    ASSUME images \in OnDisks, listed \in SUBSET BiosTitles, NEW p \in BiosPaths,
           NEW c \in Consoles, NEW cache \in BiosIdx
    PROVE  Hashed(p, c, cache) \in BiosRow /\ Hashed(p, c, cache).what = images[p].what
<1> DEFINE want == UNION {Kinds(t) : t \in NeedsOf(c)}
           old == cache.rows[p]
           fresh == old.stamp = images[p].stamp /\ old.kinds # {} /\ want \subseteq old.kinds
<1>1. want \in SUBSET AnyKind
  BY DEF NeedsOf, AnyKind
<1>2. old.kinds \in SUBSET AnyKind
  BY DEF BiosIdx, BiosRows, BiosRow
<1>3. images[p].what \in Images \cup {NoImage} /\ images[p].stamp \in Stamps
  BY DEF OnDisks
<1>4. (IF fresh THEN old.kinds ELSE want) \in SUBSET AnyKind
  BY <1>1, <1>2
<1>5. Hashed(p, c, cache) = [what |-> images[p].what, stamp |-> images[p].stamp, console |-> c,
                             kinds |-> IF fresh THEN old.kinds ELSE want]
  BY DEF Hashed
<1> HIDE DEF want, old, fresh
<1> QED  BY <1>3, <1>4, <1>5 DEF BiosRow

LEMMA ScanAgrees ==
    ASSUME images \in OnDisks, listed \in SUBSET BiosTitles, NEW roots, NEW platforms,
           NEW cache \in BiosIdx
    PROVE  /\ ScanBios(roots, platforms, cache) \in BiosRows
           /\ Agree(ScanBios(roots, platforms, cache), images)
<1> DEFINE to(p) == IF There(p) /\ RootOf(p) \in roots THEN ScanConsole(p, platforms) ELSE {}
           row(p) == IF to(p) = {} THEN NoRow ELSE Hashed(p, CHOOSE c \in to(p) : TRUE, cache)
<1>1. ScanBios(roots, platforms, cache) = [p \in BiosPaths |-> row(p)]
  BY DEF ScanBios
<1>2. ASSUME NEW p \in BiosPaths
      PROVE  row(p) \in BiosRow /\ row(p).what \in {NoImage, images[p].what}
  <2>1. to(p) \subseteq Consoles
    BY DEF ScanConsole
  <2>2. CASE to(p) = {}
    BY <2>2, NoRowIs DEF NoRow
  <2>3. CASE to(p) # {}
    <3> DEFINE c == CHOOSE c \in to(p) : TRUE
    <3>1. c \in Consoles
      BY <2>1, <2>3
    <3>2. row(p) = Hashed(p, c, cache)
      BY <2>3
    <3> HIDE DEF row, c
    <3> QED  BY <3>1, <3>2, HashedTells
  <2> QED  BY <2>2, <2>3
<1> HIDE DEF row
<1> QED  BY <1>1, <1>2 DEF BiosRows, Agree

LEMMA MergeAgrees ==
    ASSUME NEW index \in BiosIdx, NEW roots, NEW seen \in BiosRows, listed \in SUBSET BiosTitles
    PROVE  /\ MergeScan(index, roots, seen) \in BiosIdx
           /\ \A disk : Agree(index.rows, disk) /\ Agree(seen, disk)
                        => Right(MergeScan(index, roots, seen), disk)
<1> DEFINE rows == [p \in BiosPaths |->
                      IF seen[p] # NoRow THEN seen[p]
                      ELSE IF RootOf(p) \in roots THEN NoRow ELSE index.rows[p]]
<1>1. rows \in BiosRows
  BY DEF BiosIdx, BiosRows, BiosRow, NoRow
<1>2. \A disk : Agree(index.rows, disk) /\ Agree(seen, disk) => Agree(rows, disk)
  BY DEF Agree, NoRow
<1>3. MergeScan(index, roots, seen) = Rematch(rows, listed)
  BY DEF MergeScan
<1> HIDE DEF rows
<1> QED  BY <1>1, <1>2, <1>3, RematchEarns DEF Right

(* What may be in the file after a save, and what a title's image is.      *)
LEMMA WrittenRight ==
    ASSUME NEW index \in BiosIdx, NEW disk \in OnDisks, NEW saved \in BiosWritten(index)
    PROVE  saved \in BiosIdx /\ (Right(index, disk) => Right(saved, disk))
BY NoBiosRight DEF BiosWritten, Right
LEMMA BaseRight ==
    ASSUME NEW whole \in BOOLEAN, biosFile \in BiosIdx, images \in OnDisks
    PROVE  /\ BaseOf(whole) \in BiosIdx
           /\ Right(biosFile, images) \/ whole => Right(BaseOf(whole), images)
BY NoBiosRight DEF BaseOf, Right

LEMMA BiosStarts == BiosInit => BiosInv
<1> SUFFICES ASSUME BiosInit PROVE BiosInv
  OBVIOUS
<1>1. images \in OnDisks /\ imaged \in Stamps
  BY NoRowIs DEF BiosInit, OnDisks
<1>2. NoBios \in BiosIdx
  BY <1>1, NoBiosRight DEF Right
<1>8. [p \in BiosPaths |-> NoRow] \in BiosRows
  BY <1>2 DEF NoBios, BiosIdx
<1>3. NoScan \in BiosScans
  BY <1>8 DEF NoScan, BiosScans
<1>4. NoReload \in [at : {"no", "loaded", "save"}, index : BiosIdx]
  BY <1>2 DEF NoReload
<1>5. BiosTyped
  BY <1>1, <1>2, <1>3, <1>4, BiosAssumption DEF BiosInit, BiosTyped
<1>6. ~healed /\ ~biosScan.whole
  BY DEF BiosInit, NoScan
<1>7. BiosFresh
  BY <1>6 DEF BiosFresh
<1> QED  BY <1>5, <1>7 DEF BiosInv

(* A job that ends at once: it leaves the worker at rest but for the       *)
(* refresh of the rows, and both indexes as they should be.                *)
LEMMA JobKeeps ==
    ASSUME BiosInv, biosScan.at # "walked", UNCHANGED <<images, biosUi, biosCli, healed, imaged>>,
           listed' \in SUBSET BiosTitles,
           \/ biosScan' = NoScan \/ \E at \in {"ended", "saving"} : biosScan' = [NoScan EXCEPT !.at = at]
           \/ biosScan' = [biosScan EXCEPT !.at = "saving"],
           biosFile' \in BiosIdx, biosNow' \in BiosIdx,
           healed => Right(biosFile', images) /\ Right(biosNow', images)
    PROVE  BiosInv'
<1>1. [p \in BiosPaths |-> NoRow] \in BiosRows
  BY NoBiosRight DEF BiosInv, BiosTyped, Right, NoBios, BiosIdx
<1>2. NoScan \in BiosScans /\ ~NoScan.whole /\ NoScan.at # "walked"
  BY <1>1 DEF NoScan, BiosScans
<1>3. biosScan \in BiosScans /\ ~biosScan.whole
  BY DEF BiosInv, BiosTyped, BiosFresh
<1>4. /\ biosScan' \in BiosScans
      /\ biosScan'.at # "walked" /\ ~biosScan'.whole
  BY <1>2, <1>3 DEF BiosScans
<1>5. BiosTyped'
  BY <1>4 DEF BiosInv, BiosTyped
<1>6. BiosFresh'
  BY <1>4 DEF BiosInv, BiosFresh
<1> QED  BY <1>5, <1>6 DEF BiosInv

LEMMA ScanBegins ==
    ASSUME BiosInv, NEW full \in BOOLEAN, NEW platforms, NEW mounted \in BOOLEAN,
           BeginBiosScan(full, platforms, mounted), biosRoot \in BiosRoots
    PROVE  BiosInv'
<1> DEFINE whole == full /\ platforms = {}
           base == BaseOf(whole)
           roots == ScannedRoots({biosRoot}, mounted)
           cache == IF full THEN NoBios ELSE base
           rows == ScanBios(roots, platforms, cache)
<1>1. /\ biosNow' = base /\ biosScan.at = "idle"
      /\ biosScan' = [at |-> "walked", whole |-> whole, roots |-> roots, rows |-> rows]
      /\ UNCHANGED <<images, biosRoot, listed, biosFile, biosUi, biosCli, healed, imaged>>
  BY DEF BeginBiosScan, BiosBegins
<1>2. base \in BiosIdx /\ (Right(biosFile, images) \/ whole => Right(base, images))
  BY BaseRight DEF BiosInv, BiosTyped
<1>3. cache \in BiosIdx
  BY <1>2, NoBiosRight DEF BiosInv, BiosTyped, Right
<1>4. rows \in BiosRows /\ Agree(rows, images)
  BY <1>3, ScanAgrees DEF BiosInv, BiosTyped
<1>5. roots \in SUBSET BiosRoots
  BY DEF ScannedRoots
<1> HIDE DEF whole, base, roots, cache, rows
<1>6. whole \in BOOLEAN
  BY DEF whole
<1>7. BiosTyped'
  BY <1>1, <1>2, <1>4, <1>5, <1>6 DEF BiosInv, BiosTyped, BiosScans
<1>8. BiosFresh'
  BY <1>1, <1>2, <1>4 DEF BiosInv, BiosFresh
<1> QED  BY <1>7, <1>8 DEF BiosInv

LEMMA ScanEnds ==
    ASSUME BiosInv, EndBiosScan
    PROVE  BiosInv'
<1> DEFINE merged == MergeScan(biosNow, biosScan.roots, biosScan.rows)
<1>1. /\ biosScan.at = "walked" /\ biosScan' = [NoScan EXCEPT !.at = "ended"]
      /\ biosNow' = merged /\ biosFile' \in BiosWritten(merged)
      /\ healed' = (healed \/ (biosScan.whole /\ biosUi.at # "loaded" /\ biosCli = <<>>))
      /\ UNCHANGED <<images, biosRoot, listed, biosUi, biosCli, imaged, biosScans>>
  BY DEF EndBiosScan
<1>2. biosNow \in BiosIdx /\ biosScan.rows \in BiosRows
  BY DEF BiosInv, BiosTyped, BiosScans
<1>3. /\ merged \in BiosIdx
      /\ Agree(biosNow.rows, images) /\ Agree(biosScan.rows, images) => Right(merged, images)
  BY <1>2, MergeAgrees DEF BiosInv, BiosTyped
<1> HIDE DEF merged
<1>4. healed \/ biosScan.whole => Right(merged, images)
  BY <1>1, <1>3 DEF BiosInv, BiosFresh, Right
<1>5. biosFile' \in BiosIdx /\ (healed \/ biosScan.whole => Right(biosFile', images))
  BY <1>1, <1>3, <1>4, WrittenRight DEF BiosInv, BiosTyped
<1>6. [p \in BiosPaths |-> NoRow] \in BiosRows
  BY NoBiosRight DEF BiosInv, BiosTyped, Right, NoBios, BiosIdx
<1>7. BiosTyped'
  BY <1>1, <1>3, <1>5, <1>6 DEF BiosInv, BiosTyped, BiosScans, NoScan
<1>8. biosScan'.at = "ended" /\ ~biosScan'.whole
  BY <1>1 DEF NoScan
<1>9. BiosFresh'
  BY <1>1, <1>4, <1>5, <1>8 DEF BiosInv, BiosFresh
<1> QED  BY <1>7, <1>9 DEF BiosInv

LEMMA PurgeKeeps ==
    ASSUME BiosInv, NEW platforms, PurgeMissingBios(platforms)
    PROVE  BiosInv'
<1> DEFINE rows == [p \in BiosPaths |->
                      IF biosFile.rows[p].console \in AskedOf(platforms) /\ ~There(p)
                      THEN NoRow ELSE biosFile.rows[p]]
           index == Rematch(rows, listed)
<1>1. /\ biosScan.at = "idle" /\ biosScan' = [NoScan EXCEPT !.at = "ended"]
      /\ biosNow' = index /\ biosFile' \in BiosWritten(index)
      /\ UNCHANGED <<images, biosRoot, listed, biosUi, biosCli, healed, imaged, biosScans>>
  BY DEF PurgeMissingBios
<1>2. rows \in BiosRows
  BY NoRowIs DEF BiosInv, BiosTyped, BiosIdx, BiosRows
<1>3. Agree(biosFile.rows, images) => Agree(rows, images)
  BY DEF Agree, NoRow
<1> HIDE DEF rows
<1>4. index \in BiosIdx /\ (Agree(rows, images) => Right(index, images))
  BY <1>2, RematchEarns, RematchRight DEF BiosInv, BiosTyped
<1> HIDE DEF index
<1>5. healed => Right(index, images)
  BY <1>3, <1>4 DEF BiosInv, BiosFresh, Right
<1>6. biosFile' \in BiosIdx /\ (healed => Right(biosFile', images))
  BY <1>1, <1>4, <1>5, WrittenRight DEF BiosInv, BiosTyped
<1>7. listed' \in SUBSET BiosTitles
  BY <1>1 DEF BiosInv, BiosTyped
<1> QED  BY <1>1, <1>4, <1>5, <1>6, <1>7, JobKeeps

LEMMA CatalogKeeps ==
    ASSUME BiosInv, NEW titles \in BiosCatalogs, NEW check \in BOOLEAN,
           RefreshBiosCatalog(titles, check)
    PROVE  BiosInv'
<1> DEFINE index == Rematch(biosFile.rows, titles)
<1>1. /\ biosScan.at = "idle" /\ biosScan' = [NoScan EXCEPT !.at = "ended"]
      /\ listed' = titles /\ UNCHANGED <<images, biosUi, biosCli, healed, imaged>>
      /\ \/ UNCHANGED <<biosFile, biosNow>>
         \/ biosNow' = index /\ biosFile' \in BiosWritten(index)
  BY DEF RefreshBiosCatalog
<1>2. titles \in SUBSET BiosTitles /\ biosFile.rows \in BiosRows
  BY BiosAssumption DEF BiosInv, BiosTyped, BiosIdx
<1>3. index \in BiosIdx /\ (Agree(biosFile.rows, images) => Right(index, images))
  BY <1>2, RematchEarns, RematchRight
<1> HIDE DEF index
<1>4. healed => Right(index, images)
  BY <1>3 DEF BiosInv, BiosFresh, Right
<1>5. \A saved \in BiosWritten(index) : saved \in BiosIdx /\ (healed => Right(saved, images))
  BY <1>3, <1>4, WrittenRight DEF BiosInv, BiosTyped
<1>6. /\ biosFile' \in BiosIdx /\ biosNow' \in BiosIdx
      /\ healed => Right(biosFile', images) /\ Right(biosNow', images)
  BY <1>1, <1>3, <1>4, <1>5 DEF BiosInv, BiosTyped, BiosFresh
<1> QED  BY <1>1, <1>2, <1>6, JobKeeps

(* Dropping binds keeps an index right.                                    *)
LEMMA FewerBinds ==
    ASSUME NEW index \in BiosIdx, NEW binds, binds \subseteq index.binds
    PROVE  /\ [index EXCEPT !.binds = binds] \in BiosIdx
           /\ \A disk : Right(index, disk) => Right([index EXCEPT !.binds = binds], disk)
<1> DEFINE kept == [index EXCEPT !.binds = binds]
<1>1. kept.rows = index.rows /\ kept.binds = binds /\ kept \in BiosIdx
  BY DEF BiosIdx
<1> HIDE DEF kept
<1>2. \A disk : Right(index, disk) => Right(kept, disk)
  BY <1>1 DEF Right, Earned
<1> QED  BY <1>1, <1>2 DEF kept

LEMMA PruneKeeps ==
    ASSUME BiosInv, PruneBios
    PROVE  BiosInv'
<1> DEFINE binds == {b \in biosFile.binds : b[1] \in listed}
           kept == [biosFile EXCEPT !.binds = binds]
<1>1. /\ biosScan.at = "idle" /\ biosScan' = [NoScan EXCEPT !.at = "ended"]
      /\ biosNow' = biosFile'
      /\ biosFile' \in (IF kept = biosFile THEN {biosFile} ELSE BiosWritten(kept))
      /\ UNCHANGED <<images, biosRoot, listed, biosUi, biosCli, healed, imaged, biosScans>>
  BY DEF PruneBios
<1>2. biosFile \in BiosIdx /\ binds \subseteq biosFile.binds
  BY DEF BiosInv, BiosTyped
<1> HIDE DEF binds
<1>3. kept \in BiosIdx /\ (Right(biosFile, images) => Right(kept, images))
  BY <1>2, FewerBinds
<1> HIDE DEF kept
<1>4. \A saved \in BiosWritten(kept) :
         saved \in BiosIdx /\ (Right(kept, images) => Right(saved, images))
  BY <1>3, WrittenRight DEF BiosInv, BiosTyped
<1>5. biosFile' \in BiosIdx /\ (healed => Right(biosFile', images))
  BY <1>1, <1>2, <1>3, <1>4 DEF BiosInv, BiosFresh
<1>6. listed' \in SUBSET BiosTitles
  BY <1>1 DEF BiosInv, BiosTyped
<1> QED  BY <1>1, <1>5, <1>6, JobKeeps

LEMMA ReloadKeeps ==
    ASSUME BiosInv, JobEndsReloading
    PROVE  BiosInv'
<1>1. /\ biosScan.at = "ended" /\ biosNow' = Rematch(biosFile.rows, listed)
      /\ biosScan' = NoScan \/ biosScan' = [biosScan EXCEPT !.at = "saving"]
      /\ UNCHANGED <<images, biosRoot, listed, biosFile, biosUi, biosCli, healed, imaged,
                     biosScans>>
  BY DEF JobEndsReloading
<1>2. biosFile.rows \in BiosRows /\ listed \in SUBSET BiosTitles /\ biosFile \in BiosIdx
  BY DEF BiosInv, BiosTyped, BiosIdx
<1>3. biosNow' \in BiosIdx /\ (Agree(biosFile.rows, images) => Right(biosNow', images))
  BY <1>1, <1>2, RematchEarns, RematchRight
<1>4. healed => Right(biosNow', images) /\ Right(biosFile', images)
  BY <1>1, <1>3 DEF BiosInv, BiosFresh, Right
<1> QED  BY <1>1, <1>2, <1>3, <1>4, JobKeeps

LEMMA JobSaves ==
    ASSUME BiosInv, JobEndsSaving
    PROVE  BiosInv'
<1>1. /\ biosScan.at = "saving" /\ biosScan' = NoScan /\ biosFile' \in BiosWritten(biosNow)
      /\ UNCHANGED <<images, biosRoot, listed, biosNow, biosUi, biosCli, healed, imaged,
                     biosScans>>
  BY DEF JobEndsSaving
<1>2. /\ biosFile' \in BiosIdx /\ (Right(biosNow, images) => Right(biosFile', images))
  BY <1>1, WrittenRight DEF BiosInv, BiosTyped
<1>3. /\ biosNow' \in BiosIdx /\ listed' \in SUBSET BiosTitles
      /\ healed => Right(biosFile', images) /\ Right(biosNow', images)
  BY <1>1, <1>2 DEF BiosInv, BiosTyped, BiosFresh
<1> QED  BY <1>1, <1>2, <1>3, JobKeeps

(* The UI thread's and the user's steps.                                   *)
LEMMA UiKeeps ==
    ASSUME BiosInv, UiLoadsBios \/ UiSavesBios \/ \E root \in BiosRoots : SetBiosRoot(root)
    PROVE  BiosInv'
<1>1. CASE UiSavesBios
  <2>1. biosFile' \in BiosIdx /\ (Right(biosNow, images) => Right(biosFile', images))
    BY <1>1, WrittenRight DEF BiosInv, BiosTyped, UiSavesBios
  <2>2. NoReload \in [at : {"no", "loaded", "save"}, index : BiosIdx] /\ NoReload.at = "no"
    BY NoBiosRight DEF BiosInv, BiosTyped, Right, NoReload
  <2>3. BiosTyped'
    BY <1>1, <2>1, <2>2 DEF BiosInv, BiosTyped, UiSavesBios
  <2>4. BiosFresh'
    BY <1>1, <2>1, <2>2 DEF BiosInv, BiosFresh, UiSavesBios
  <2> QED  BY <2>3, <2>4 DEF BiosInv
<1>2. CASE UiLoadsBios \/ \E root \in BiosRoots : SetBiosRoot(root)
  <2>1. /\ biosUi' = [at |-> "loaded", index |-> biosFile] /\ imaged' \in Stamps
        /\ UNCHANGED <<images, listed, biosFile, biosNow, biosScan, biosCli, healed>>
    BY <1>2, BiosAssumption DEF UiLoadsBios, SetBiosRoot, BiosInv, BiosTyped, Stamps
  <2>2. BiosTyped'
    BY <2>1 DEF BiosInv, BiosTyped
  <2>3. BiosFresh'
    BY <2>1 DEF BiosInv, BiosFresh
  <2> QED  BY <2>2, <2>3 DEF BiosInv
<1> QED  BY <1>1, <1>2

LEMMA AssignKeeps ==
    ASSUME BiosInv, UiAssignsBios
    PROVE  BiosInv'
<1>1. /\ biosUi.at = "loaded" /\ biosNow' = Rematch(biosUi.index.rows, listed)
      /\ biosUi' = NoReload \/ biosUi' = [NoReload EXCEPT !.at = "save"]
      /\ biosScan' = [biosScan EXCEPT !.whole = FALSE]
      /\ UNCHANGED <<images, biosRoot, listed, biosFile, biosCli, healed, imaged, biosScans>>
  BY DEF UiAssignsBios
<1>2. biosUi.index.rows \in BiosRows /\ listed \in SUBSET BiosTitles
  BY DEF BiosInv, BiosTyped, BiosIdx
<1>3. biosNow' \in BiosIdx /\ (Agree(biosUi.index.rows, images) => Right(biosNow', images))
  BY <1>1, <1>2, RematchEarns, RematchRight
<1>4. biosUi' \in [at : {"no", "loaded", "save"}, index : BiosIdx] /\ biosUi'.at # "loaded"
  BY <1>1, NoBiosRight DEF BiosInv, BiosTyped, Right, NoReload
<1>5. biosScan' \in BiosScans /\ ~biosScan'.whole /\ biosScan'.at = biosScan.at
      /\ biosScan'.rows = biosScan.rows
  BY <1>1 DEF BiosInv, BiosTyped, BiosScans
<1>6. BiosTyped'
  BY <1>1, <1>3, <1>4, <1>5 DEF BiosInv, BiosTyped
<1>7. healed => Right(biosNow', images)
  BY <1>1, <1>3 DEF BiosInv, BiosFresh, Right
<1>8. BiosFresh'
  BY <1>1, <1>4, <1>5, <1>7 DEF BiosInv, BiosFresh
<1> QED  BY <1>6, <1>8 DEF BiosInv

LEMMA ImageKeeps ==
    ASSUME BiosInv, NEW p \in BiosPaths, NEW what \in Images \cup {NoImage}, ChangeImage(p, what)
    PROVE  BiosInv'
<1>1. /\ imaged' = imaged + 1 /\ images' = [images EXCEPT ![p] = [what |-> what, stamp |-> imaged']]
      /\ ~healed' /\ biosScan' = [biosScan EXCEPT !.whole = FALSE]
      /\ UNCHANGED <<biosRoot, listed, biosFile, biosNow, biosUi, biosCli, biosScans>>
  BY DEF ChangeImage
<1>2. imaged' \in Stamps
  BY BiosAssumption DEF BiosInv, BiosTyped, ChangeImage, Stamps
<1>3. images' \in OnDisks
  BY <1>1, <1>2 DEF BiosInv, BiosTyped, OnDisks
<1>4. biosScan' \in BiosScans /\ ~biosScan'.whole
  BY <1>1 DEF BiosInv, BiosTyped, BiosScans
<1>5. BiosTyped'
  BY <1>1, <1>2, <1>3, <1>4 DEF BiosInv, BiosTyped
<1>6. BiosFresh'
  BY <1>1, <1>4 DEF BiosFresh
<1> QED  BY <1>5, <1>6 DEF BiosInv

LEMMA CliKeeps ==
    ASSUME BiosInv, CliSaves \/ \E full \in BOOLEAN, roots \in SUBSET BiosRoots : CliScans(full, roots)
    PROVE  BiosInv'
<1>1. CASE CliSaves
  <2>1. biosFile' \in BiosIdx
    BY <1>1, WrittenRight DEF BiosInv, BiosTyped, CliSaves
  <2>2. biosScan' \in BiosScans /\ ~biosScan'.whole
    BY <1>1 DEF BiosInv, BiosTyped, BiosScans, CliSaves
  <2>3. BiosTyped'
    BY <1>1, <2>1, <2>2 DEF BiosInv, BiosTyped, CliSaves
  <2>4. BiosFresh'
    BY <1>1, <2>2 DEF BiosFresh, CliSaves
  <2> QED  BY <2>3, <2>4 DEF BiosInv
<1>2. ASSUME NEW full \in BOOLEAN, NEW roots \in SUBSET BiosRoots, CliScans(full, roots)
      PROVE  BiosInv'
  <2> DEFINE base == BaseOf(full /\ roots = {})
             walked == ScannedRoots(IF roots = {} THEN {biosRoot} ELSE roots, TRUE)
             cache == IF full THEN NoBios ELSE base
             seen == ScanBios(walked, {}, cache)
             merged == MergeScan(base, walked, seen)
  <2>1. /\ biosCli' = <<merged>>
        /\ UNCHANGED <<images, biosRoot, listed, biosFile, biosNow, biosScan, biosUi, healed,
                       imaged>>
    BY <1>2 DEF CliScans
  <2>2. base \in BiosIdx
    BY BaseRight DEF BiosInv, BiosTyped
  <2>3. cache \in BiosIdx
    BY <2>2, NoBiosRight DEF BiosInv, BiosTyped, Right
  <2>4. seen \in BiosRows
    BY <2>3, ScanAgrees DEF BiosInv, BiosTyped
  <2> HIDE DEF base, walked, seen, cache
  <2>5. merged \in BiosIdx
    BY <2>2, <2>4, MergeAgrees DEF BiosInv, BiosTyped
  <2> HIDE DEF merged
  <2>6. BiosTyped'
    BY <2>1, <2>5 DEF BiosInv, BiosTyped
  <2>7. BiosFresh'
    BY <2>1 DEF BiosInv, BiosFresh
  <2> QED  BY <2>6, <2>7 DEF BiosInv
<1> QED  BY <1>1, <1>2

(* What the invariant says of a bind is what the property asks.            *)
LEMMA RightMeansTaken ==
    ASSUME NEW index \in BiosIdx, images \in OnDisks, Right(index, images), NEW b \in index.binds
    PROVE  TryMatch(b[1], b[2], [index.rows[b[2]] EXCEPT !.what = images[b[2]].what])
<1> DEFINE row == index.rows[b[2]]
<1>1. b[1] \in BiosTitles /\ b[2] \in BiosPaths
  BY DEF BiosIdx
<1>2. row \in BiosRow /\ row.what \in {NoImage, images[b[2]].what} /\ TryMatch(b[1], b[2], row)
  BY <1>1 DEF BiosIdx, BiosRows, Right, Agree, Earned
<1>3. row.what # NoImage
  BY <1>1, <1>2, BiosAssumption DEF TryMatch
<1> HIDE DEF row
<1>4. [row EXCEPT !.what = images[b[2]].what] = row
  BY <1>2, <1>3 DEF BiosRow
<1> QED  BY <1>2, <1>4 DEF row

LEMMA BiosStep ==
    ASSUME BiosInv, biosRoot \in BiosRoots, [BiosNext]_biVars
    PROVE  BiosInv' /\ (biosRoot \in BiosRoots)'
<1>1. (biosRoot \in BiosRoots)'
  <2>1. ASSUME BiosWorker PROVE biosRoot' = biosRoot
    BY <2>1 DEF BiosWorker, BeginBiosScan, EndBiosScan, JobEndsReloading, JobEndsSaving,
         PruneBios, PurgeMissingBios, RefreshBiosCatalog
  <2>2. ASSUME BiosOthers PROVE biosRoot' \in BiosRoots
    BY <2>2 DEF BiosOthers, ChangeImage, UiLoadsBios, UiAssignsBios, UiSavesBios, SetBiosRoot,
         CliScans, CliSaves
  <2> QED  BY <2>1, <2>2 DEF BiosNext, biVars
<1>2. CASE BiosWorker
  <2>1. ASSUME NEW full \in BOOLEAN, NEW mounted \in BOOLEAN, NEW platforms,
               BeginBiosScan(full, platforms, mounted)
        PROVE  BiosInv'
    BY <2>1, ScanBegins
  <2>2. ASSUME NEW platforms, PurgeMissingBios(platforms) PROVE BiosInv'
    BY <2>2, PurgeKeeps
  <2>3. ASSUME NEW titles \in BiosCatalogs, NEW check \in BOOLEAN,
               RefreshBiosCatalog(titles, check)
        PROVE  BiosInv'
    BY <2>3, CatalogKeeps
  <2>4. ASSUME EndBiosScan \/ JobEndsReloading \/ JobEndsSaving \/ PruneBios PROVE BiosInv'
    BY <2>4, ScanEnds, ReloadKeeps, JobSaves, PruneKeeps
  <2> QED  BY <1>1, <1>2, <2>1, <2>2, <2>3, <2>4 DEF BiosWorker
<1>3. CASE BiosOthers
  <2>1. ASSUME NEW p \in BiosPaths, NEW what \in Images \cup {NoImage}, ChangeImage(p, what)
        PROVE  BiosInv'
    BY <2>1, ImageKeeps
  <2>2. ASSUME UiAssignsBios PROVE BiosInv'
    BY <2>2, AssignKeeps
  <2> QED  BY <1>1, <1>3, <2>1, <2>2, UiKeeps, CliKeeps DEF BiosOthers
<1>4. CASE UNCHANGED biVars
  BY <1>4 DEF biVars, BiosInv, BiosTyped, BiosFresh
<1> QED  BY <1>1, <1>2, <1>3, <1>4 DEF BiosNext

(* Through any number of scans, of clean-ups, catalogs and failed saves,   *)
(* beside the UI thread and other processes, a full rebuild of the BIOS    *)
(* index heals it until an image changes.                                  *)
THEOREM BiosHealsHolds == BiosSpec => []BiosHeals
<1>1. BiosInit => BiosInv /\ biosRoot \in BiosRoots
  BY BiosStarts DEF BiosInit
<1>2. BiosInv /\ biosRoot \in BiosRoots /\ [BiosNext]_biVars
      => BiosInv' /\ (biosRoot \in BiosRoots)'
  BY BiosStep
<1>3. BiosInv => BiosHeals
  BY RightMeansTaken DEF BiosInv, BiosTyped, BiosFresh, BiosHeals
<1> QED  BY <1>1, <1>2, <1>3, PTL DEF BiosSpec

LEMMA BiosInvTypes == BiosInv /\ biosRoot \in BiosRoots => BiosTypeOK
<1> SUFFICES ASSUME BiosInv, biosRoot \in BiosRoots PROVE BiosTypeOK
  OBVIOUS
<1>1. BiosRow = Rows
  BY DEF BiosRow, Rows, AnyKind, Stamps
<1>2. ASSUME NEW index \in {biosFile, biosNow, biosUi.index}
      PROVE  /\ \A p \in BiosPaths : index.rows[p] \in Rows
             /\ index.binds \subseteq BiosTitles \X BiosPaths
  <2>1. index \in BiosIdx
    BY DEF BiosInv, BiosTyped
  <2> QED  BY <1>1, <2>1 DEF BiosIdx, BiosRows
<1>3. \A p \in BiosPaths : images[p].what \in Images \cup {NoImage}
  BY DEF BiosInv, BiosTyped, OnDisks
<1> QED  BY <1>2, <1>3 DEF BiosInv, BiosTyped, BiosScans, BiosTypeOK

(* Through the same, every row of the index, in memory, on disk and in the *)
(* UI thread's hands, tells of an image by digests somebody asked for, and *)
(* every bind is of a known title and path.                                *)
THEOREM BiosTypesHold == BiosSpec => []BiosTypeOK
<1>1. BiosInit => BiosInv /\ biosRoot \in BiosRoots
  BY BiosStarts DEF BiosInit
<1>2. BiosInv /\ biosRoot \in BiosRoots /\ [BiosNext]_biVars
      => BiosInv' /\ (biosRoot \in BiosRoots)'
  BY BiosStep
<1> QED  BY <1>1, <1>2, BiosInvTypes, PTL DEF BiosSpec

-----------------------------------------------------------------------------
(***************************************************************************)
(* Steam's lists.  OneEach: nobody has two entries.  A list agrees with    *)
(* the memory of what was left when each title is in it, or out, as that   *)
(* says; and the worker's list does so for every other title than its own. *)
(***************************************************************************)
LeftOf == {"unknown", "in", "out"}
VdfFiles == [is : {"missing", "cut", "whole"}, list : Lists]
OneEach(list) == \A g \in Games : \A l, k \in OwnedBy(list, g) : l = k
Keeps(list, g, way) ==
    /\ way = "in" => OwnedBy(list, g) # {}
    /\ way = "out" => OwnedBy(list, g) = {}
SteamJobs ==
    [pc : {"idle", "find", "load", "art", "backup", "save", "end", "free"},
     of : Games \cup {Nobody}, remove : BOOLEAN, exe : Launchers \cup {ByHand},
     todo : SUBSET Profiles, in : Profiles \cup {0}, list : Lists,
     blind : BOOLEAN, removed : BOOLEAN]
SteamTyped ==
    /\ vdf \in [Profiles -> VdfFiles] /\ steam \in [in : Profiles \cup {0}, list : Lists]
    /\ sjob \in SteamJobs /\ left \in [Profiles -> [Games -> LeftOf]]
    /\ page \in [at : {"library", "open", "reading", "shown"}, of : Games \cup {Nobody},
                 valid : BOOLEAN, ids : SUBSET Games]
    /\ page.at # "library" => page.of \in Games
    /\ ask \in [of : Games \cup {Nobody}, remove : BOOLEAN] /\ (ask # NoAsk => ask.of \in Games)
FilesKept ==
    /\ steam.in # 0 => steam.in \in Profiles
    /\ OneEach(steam.list)
    /\ \A p \in Profiles :
         /\ OneEach(vdf[p].list)
         /\ \A g \in Games : /\ Keeps(vdf[p].list, g, left[p][g])
                             /\ left[p][g] # "unknown" => vdf[p].is = "whole"
Writing == sjob.pc \in {"art", "backup", "save"}
JobKept ==
    /\ sjob.pc \notin {"idle", "free"} => sjob.of \in Games
    /\ Writing =>
         /\ sjob.in \in Profiles /\ OneEach(sjob.list)
         /\ Keeps(sjob.list, sjob.of, IF sjob.remove THEN "out" ELSE "in")
         /\ ~sjob.blind => \A g \in Games \ {sjob.of} : Keeps(sjob.list, g, left[sjob.in][g])
SteamInv == SteamTyped /\ FilesKept /\ JobKept

-----------------------------------------------------------------------------
LEMMA EmptyOwns ==
    /\ EmptyList \in Lists /\ OneEach(EmptyList)
    /\ \A g \in Games : OwnedBy(EmptyList, g) = {}
<1>1. \A g \in Games : OwnedBy(EmptyList, g) = {}
  BY SteamAssumption DEF EmptyList, OwnedBy, NoLine, Nobody
<1>2. EmptyList \in Lists
  BY DEF EmptyList, Lists
<1> QED  BY <1>1, <1>2 DEF OneEach

LEMMA FewerOwned ==
    ASSUME NEW list, NEW new, OneEach(list),
           \A h \in Games : OwnedBy(new, h) \subseteq OwnedBy(list, h)
    PROVE  OneEach(new)
BY DEF OneEach

LEMMA NoLineOwner == NoLine.owner = Nobody /\ Nobody \notin Games
BY SteamAssumption DEF NoLine

LEMMA LineOwner ==
    ASSUME NEW list \in Lists, NEW l \in Lines
    PROVE  list[l].owner \in Games \cup {Nobody}
<1>1. list[l] \in Entries \cup {NoLine}
  BY DEF Lists
<1> QED  BY <1>1 DEF Entries, NoLine

(* An entry is put where one of the title's own or nobody's stood.         *)
LEMMA EntryPut ==
    ASSUME NEW list \in Lists, OneEach(list), NEW g \in Games, NEW e \in Entries, e.owner = g,
           NEW l \in Lines, l \in OwnedBy(list, g) \/ (OwnedBy(list, g) = {} /\ list[l].owner = Nobody)
    PROVE  LET new == [list EXCEPT ![l] = e]
           IN  /\ new \in Lists /\ OneEach(new) /\ Keeps(new, g, "in")
               /\ \A h \in Games \ {g}, way \in LeftOf : Keeps(list, h, way) => Keeps(new, h, way)
<1> DEFINE new == [list EXCEPT ![l] = e]
<1>1. new \in Lists /\ \A k \in Lines : new[k] = IF k = l THEN e ELSE list[k]
  BY DEF Lists
<1> HIDE DEF new
<1>2. OwnedBy(new, g) = {l}
  BY <1>1 DEF OwnedBy, OneEach
<1>3. ASSUME NEW h \in Games \ {g} PROVE OwnedBy(new, h) = OwnedBy(list, h)
  <2>1. list[l].owner # h
    BY NoLineOwner DEF OwnedBy
  <2> QED  BY <1>1, <2>1 DEF OwnedBy
<1>4. OneEach(new)
  BY <1>2, <1>3 DEF OneEach
<1>5. Keeps(new, g, "in")
  BY <1>2 DEF Keeps
<1>6. \A h \in Games \ {g}, way \in LeftOf : Keeps(list, h, way) => Keeps(new, h, way)
  BY <1>3 DEF Keeps
<1> QED  BY <1>1, <1>4, <1>5, <1>6 DEF new

(* All of a title's entries are dropped, and some that are nobody's.       *)
LEMMA EntriesDropped ==
    ASSUME NEW list \in Lists, OneEach(list), NEW g \in Games, NEW gone \in SUBSET Lines,
           OwnedBy(list, g) \subseteq gone, \A l \in gone : list[l].owner \in {g, Nobody}
    PROVE  LET new == [l \in Lines |-> IF l \in gone THEN NoLine ELSE list[l]]
           IN  /\ new \in Lists /\ OneEach(new) /\ Keeps(new, g, "out")
               /\ \A h \in Games \ {g}, way \in LeftOf : Keeps(list, h, way) => Keeps(new, h, way)
<1> DEFINE new == [l \in Lines |-> IF l \in gone THEN NoLine ELSE list[l]]
<1>1. new \in Lists /\ \A k \in Lines : new[k] = IF k \in gone THEN NoLine ELSE list[k]
  BY DEF Lists
<1> HIDE DEF new
<1>2. OwnedBy(new, g) = {}
  BY <1>1, NoLineOwner DEF OwnedBy
<1>3. ASSUME NEW h \in Games \ {g} PROVE OwnedBy(new, h) = OwnedBy(list, h)
  BY <1>1, NoLineOwner DEF OwnedBy
<1>4. OneEach(new)
  BY <1>2, <1>3 DEF OneEach
<1>5. Keeps(new, g, "out")
  BY <1>2 DEF Keeps
<1>6. \A h \in Games \ {g}, way \in LeftOf : Keeps(list, h, way) => Keeps(new, h, way)
  BY <1>3 DEF Keeps
<1> QED  BY <1>1, <1>4, <1>5, <1>6 DEF new

(* What is read of a file agrees with what was left there.                 *)
LEMMA ReadAgrees ==
    ASSUME SteamInv, NEW p \in Profiles, NEW blind \in BOOLEAN
    PROVE  /\ ListRead(p, blind) \in Lists /\ OneEach(ListRead(p, blind))
           /\ ~blind => \A g \in Games : Keeps(ListRead(p, blind), g, left[p][g])
<1>1. vdf[p] \in VdfFiles /\ vdf[p].list \in Lists /\ OneEach(vdf[p].list)
  BY DEF SteamInv, SteamTyped, FilesKept, VdfFiles
<1>2. ListRead(p, blind) = EmptyList \/ (~blind /\ vdf[p].is = "whole" /\ ListRead(p, blind) = vdf[p].list)
  BY DEF ListRead, Parsed
<1>3. ListRead(p, blind) \in Lists /\ OneEach(ListRead(p, blind))
  BY <1>1, <1>2, EmptyOwns
<1>4. ASSUME ~blind, NEW g \in Games PROVE Keeps(ListRead(p, blind), g, left[p][g])
  <2>1. Keeps(vdf[p].list, g, left[p][g]) /\ (left[p][g] # "unknown" => vdf[p].is = "whole")
    BY DEF SteamInv, FilesKept
  <2>2. CASE left[p][g] = "unknown"
    BY <2>2 DEF Keeps
  <2>3. CASE left[p][g] # "unknown"
    BY <1>4, <2>1, <2>3 DEF ListRead, Parsed
  <2> QED  BY <2>2, <2>3
<1> QED  BY <1>3, <1>4

LEMMA SteamStartsInv == SteamInit => SteamInv
<1> SUFFICES ASSUME SteamInit PROVE SteamInv
  OBVIOUS
<1>1. SteamTyped
  BY EmptyOwns DEF SteamInit, SteamTyped, NoFile, SteamOff, NoAsk, FreshPage, NoSteamJob,
     Unknown, VdfFiles, SteamJobs, LeftOf
<1>2. OneEach(steam.list) /\ (steam.in # 0 => steam.in \in Profiles)
  BY EmptyOwns DEF SteamInit, SteamOff
<1>3. ASSUME NEW p \in Profiles
      PROVE  /\ OneEach(vdf[p].list)
             /\ \A g \in Games : /\ Keeps(vdf[p].list, g, left[p][g])
                                 /\ left[p][g] # "unknown" => vdf[p].is = "whole"
  <2>1. vdf[p].list = EmptyList /\ \A g \in Games : left[p][g] = "unknown"
    BY DEF SteamInit, NoFile, Unknown
  <2> QED  BY <2>1, EmptyOwns DEF Keeps
<1>4. JobKept
  BY DEF SteamInit, JobKept, NoSteamJob, Writing
<1> QED  BY <1>1, <1>2, <1>3, <1>4 DEF SteamInv, FilesKept

(***************************************************************************)
(* The worker's job, as loading leaves it.                                 *)
(***************************************************************************)
ReadInto(work, p, list, blind) ==
    /\ work \in SteamJobs /\ work.pc \in {"art", "backup"} /\ work.of = sjob.of
    /\ work.remove = sjob.remove /\ work.in = p /\ work.list = list /\ work.blind = blind

LEMMA LoadedKept ==
    ASSUME SteamInv, NEW p \in Profiles, NEW blind \in BOOLEAN, NEW list \in Lists,
           sjob.of \in Games, ReadInto(sjob', p, list, blind), UNCHANGED left,
           OneEach(list), Keeps(list, sjob.of, IF sjob.remove THEN "out" ELSE "in"),
           \A h \in Games \ {sjob.of}, way \in LeftOf :
              Keeps(ListRead(p, blind), h, way) => Keeps(list, h, way)
    PROVE  JobKept'
<1>1. ASSUME ~blind, NEW g \in Games \ {sjob.of} PROVE Keeps(list, g, left[p][g])
  <2>1. left[p][g] \in LeftOf
    BY DEF SteamInv, SteamTyped
  <2> QED  BY <1>1, <2>1, ReadAgrees
<1> DEFINE work == sjob'
<1>2. /\ work.pc \in {"art", "backup"} /\ work.of = sjob.of /\ work.remove = sjob.remove
      /\ work.in = p /\ work.list = list /\ work.blind = blind /\ left' = left
  BY DEF ReadInto
<1>3. JobKept' <=> 
        /\ work.pc \notin {"idle", "free"} => work.of \in Games
        /\ work.pc \in {"art", "backup", "save"} =>
         /\ work.in \in Profiles /\ OneEach(work.list)
         /\ Keeps(work.list, work.of, IF work.remove THEN "out" ELSE "in")
         /\ ~work.blind => \A g \in Games \ {work.of} : Keeps(work.list, g, left'[work.in][g])
  BY DEF JobKept, Writing, OneEach, Keeps, OwnedBy
<1> HIDE DEF work
<1> QED  BY <1>1, <1>2, <1>3

(* Steps of the worker that neither load nor save keep what it holds.      *)
LEMMA OnlyJob ==
    ASSUME SteamInv, UNCHANGED <<vdf, steam, left>>
    PROVE  FilesKept'
BY DEF SteamInv, FilesKept, OneEach, Keeps, OwnedBy

LEMMA WriteEntryKeeps ==
    ASSUME SteamInv, NEW p \in Profiles, NEW blind \in BOOLEAN, WriteEntry(p, blind)
    PROVE  SteamInv'
<1> DEFINE list == ListRead(p, blind)
           found == FindEntry(list, sjob.of)
<1>1. sjob.of \in Games /\ sjob \in SteamJobs /\ ~sjob.remove
  BY DEF SteamInv, SteamTyped, JobKept, WriteEntry, LoadShortcuts
<1>2. list \in Lists /\ OneEach(list)
  BY ReadAgrees
<1>3. PICK l \in IF found # {} THEN found ELSE NextFree(list) :
         sjob' = [sjob EXCEPT !.pc = "art", !.in = p, !.blind = blind,
                              !.list = [list EXCEPT ![l] = OurEntry]]
  BY DEF WriteEntry
<1> DEFINE new == [list EXCEPT ![l] = OurEntry]
<1>4. l \in Lines /\ (l \in OwnedBy(list, sjob.of)
                        \/ (OwnedBy(list, sjob.of) = {} /\ list[l].owner = Nobody))
  <2>1. CASE found # {}
    BY <1>3, <2>1 DEF FindEntry, OwnedBy, Unclaimed
  <2>2. CASE found = {}
    <3>1. l \in Lines \ Used(list)
      BY <1>3, <2>2 DEF NextFree
    <3>2. list[l] = NoLine
      BY <3>1 DEF Used
    <3>3. OwnedBy(list, sjob.of) = {}
      BY <2>2 DEF FindEntry
    <3> QED  BY <3>1, <3>2, <3>3, NoLineOwner
  <2> QED  BY <2>1, <2>2
<1>5. OurEntry \in Entries /\ OurEntry.owner = sjob.of
  BY <1>1, SteamAssumption DEF OurEntry, Entries, AppId, AppIds, SteamJobs
<1> HIDE DEF list, found
<1>6. /\ new \in Lists /\ OneEach(new) /\ Keeps(new, sjob.of, "in")
      /\ \A h \in Games \ {sjob.of}, way \in LeftOf : Keeps(list, h, way) => Keeps(new, h, way)
  BY <1>1, <1>2, <1>4, <1>5, EntryPut
<1>7. UNCHANGED <<vdf, steam, page, ask, left>>
  BY DEF WriteEntry, LoadShortcuts
<1> HIDE DEF new
<1>8. sjob' = [sjob EXCEPT !.pc = "art", !.in = p, !.blind = blind, !.list = new]
  BY <1>3 DEF new
<1>9. ReadInto(sjob', p, new, blind)
  BY <1>1, <1>6, <1>8 DEF ReadInto, SteamJobs
<1>10. JobKept'
  BY <1>1, <1>6, <1>7, <1>9, LoadedKept DEF list
<1>11. SteamTyped'
  BY <1>7, <1>9 DEF SteamInv, SteamTyped, ReadInto
<1> QED  BY <1>7, <1>10, <1>11, OnlyJob DEF SteamInv

LEMMA RemoveEntriesKeeps ==
    ASSUME SteamInv, NEW p \in Profiles, NEW blind \in BOOLEAN, RemoveEntries(p, blind)
    PROVE  SteamInv'
<1> DEFINE list == ListRead(p, blind)
           gone == OwnedBy(list, sjob.of) \cup Unclaimed(list, sjob.of)
           new == [l \in Lines |-> IF l \in gone THEN NoLine ELSE list[l]]
           some == sjob.removed \/ gone # {}
           work == [sjob EXCEPT !.in = p, !.blind = blind, !.removed = some, !.list = new]
<1>1. sjob.of \in Games /\ sjob \in SteamJobs /\ sjob.remove = TRUE /\ sjob.pc = "load"
  BY DEF SteamInv, SteamTyped, JobKept, RemoveEntries, LoadShortcuts, SteamJobs
<1>2. list \in Lists /\ OneEach(list)
  BY ReadAgrees
<1>3. gone \in SUBSET Lines /\ OwnedBy(list, sjob.of) \subseteq gone
      /\ \A l \in gone : list[l].owner \in {sjob.of, Nobody}
  BY DEF OwnedBy, Unclaimed
<1>4. sjob' = IF work.removed THEN [work EXCEPT !.pc = "backup"]
              ELSE [sjob EXCEPT !.todo = @ \ {p}]
  BY <1>1 DEF RemoveEntries, SteamJobs
<1>5. UNCHANGED <<vdf, steam, page, ask, left>>
  BY DEF RemoveEntries, LoadShortcuts
<1>6. some \in BOOLEAN
  BY <1>1 DEF SteamJobs
<1> HIDE DEF list, gone
<1>7. /\ new \in Lists /\ OneEach(new) /\ Keeps(new, sjob.of, "out")
      /\ \A h \in Games \ {sjob.of}, way \in LeftOf : Keeps(list, h, way) => Keeps(new, h, way)
  BY <1>1, <1>2, <1>3, EntriesDropped
<1> HIDE DEF new, some
<1>8. CASE work.removed
  <2>1. ReadInto(sjob', p, new, blind)
    BY <1>1, <1>4, <1>6, <1>7, <1>8 DEF ReadInto, SteamJobs
  <2>2. JobKept'
    BY <1>1, <1>5, <1>7, <2>1, LoadedKept DEF list
  <2>3. SteamTyped'
    BY <1>5, <2>1 DEF SteamInv, SteamTyped, ReadInto
  <2> QED  BY <1>5, <2>2, <2>3, OnlyJob DEF SteamInv
<1>9. CASE ~work.removed
  <2>1. sjob' = [sjob EXCEPT !.todo = @ \ {p}]
    BY <1>4, <1>9
  <2>2. sjob' \in SteamJobs /\ sjob'.pc = "load" /\ sjob'.of \in Games
    BY <1>1, <2>1 DEF SteamJobs
  <2>3. JobKept'
    BY <2>2 DEF JobKept, Writing
  <2>4. SteamTyped'
    BY <1>5, <2>2 DEF SteamInv, SteamTyped
  <2> QED  BY <1>5, <2>3, <2>4, OnlyJob DEF SteamInv
<1> QED  BY <1>8, <1>9

(* Between loading and saving only the program counter moves.              *)
SamePlace(work) ==
    /\ work.in = sjob.in /\ work.list = sjob.list /\ work.of = sjob.of
    /\ work.remove = sjob.remove /\ work.blind = sjob.blind

LEMMA PlaceKept ==
    ASSUME SteamInv, UNCHANGED left, Writing, SamePlace(sjob')
    PROVE  JobKept'
<1>1. sjob.of \in Games
  BY DEF SteamInv, JobKept, Writing
<1> QED  BY <1>1 DEF SteamInv, JobKept, SamePlace, Writing, OneEach, Keeps, OwnedBy

LEMMA WorkerStepKeeps ==
    ASSUME SteamInv, \/ FindSteamInstall \/ BackUpOnce \/ SaveFails \/ AllDone
                     \/ Invalidates \/ WorkerFree \/ \E copied \in BOOLEAN : CopyArt(copied)
    PROVE  SteamInv'
<1>1. UNCHANGED <<vdf, steam, left, ask>>
  BY DEF FindSteamInstall, BackUpOnce, SaveFails, AllDone, Invalidates, WorkerFree, CopyArt
<1>2. sjob \in SteamJobs
  BY DEF SteamInv, SteamTyped
<1>3. sjob' \in SteamJobs
  <2>1. NoSteamJob \in SteamJobs /\ [NoSteamJob EXCEPT !.pc = "free"] \in SteamJobs
    BY EmptyOwns DEF NoSteamJob, SteamJobs
  <2>2. Failed \in SteamJobs
    BY <1>2 DEF Failed, SteamJobs
  <2>3. [sjob EXCEPT !.pc = "load", !.todo = Profiles] \in SteamJobs
        /\ [sjob EXCEPT !.pc = "backup"] \in SteamJobs /\ [sjob EXCEPT !.pc = "save"] \in SteamJobs
    BY <1>2 DEF SteamJobs
  <2>4. ASSUME Invalidates \/ WorkerFree PROVE sjob' \in SteamJobs
    BY <2>1, <2>4 DEF Invalidates, WorkerFree
  <2>5. ASSUME FindSteamInstall \/ SaveFails \/ AllDone PROVE sjob' \in SteamJobs
    BY <2>2, <2>3, <2>5 DEF FindSteamInstall, SaveFails, AllDone
  <2>6. ASSUME BackUpOnce \/ \E copied \in BOOLEAN : CopyArt(copied) PROVE sjob' \in SteamJobs
    BY <2>2, <2>3, <2>6 DEF BackUpOnce, CopyArt
  <2> QED  BY <2>4, <2>5, <2>6
<1>4. page' = page \/ page' = [page EXCEPT !.valid = FALSE]
  BY DEF FindSteamInstall, BackUpOnce, SaveFails, AllDone, Invalidates, WorkerFree, CopyArt
<1>5. SteamTyped'
  BY <1>1, <1>3, <1>4 DEF SteamInv, SteamTyped
<1>6. JobKept'
  <2>1. CASE BackUpOnce \/ \E copied \in BOOLEAN : CopyArt(copied)
    <3>1. Writing /\ SamePlace(sjob')
      BY <1>2, <2>1 DEF BackUpOnce, CopyArt, Writing, SamePlace, Failed, SteamJobs
    <3> QED  BY <1>1, <3>1, PlaceKept
  <2>2. CASE FindSteamInstall \/ SaveFails \/ AllDone \/ Invalidates \/ WorkerFree
    <3>1. ASSUME Invalidates \/ WorkerFree PROVE sjob'.pc \in {"free", "idle"}
      BY <3>1 DEF Invalidates, WorkerFree, NoSteamJob
    <3>2. ASSUME FindSteamInstall \/ SaveFails \/ AllDone
          PROVE  sjob'.pc \in {"load", "end"} /\ sjob'.of = sjob.of
                 /\ sjob.pc \notin {"idle", "free"}
      BY <1>2, <3>2 DEF FindSteamInstall, SaveFails, AllDone, Failed, SteamJobs
    <3> QED  BY <2>2, <3>1, <3>2 DEF SteamInv, JobKept, Writing
  <2> QED  BY <2>1, <2>2
<1> QED  BY <1>1, <1>5, <1>6, OnlyJob DEF SteamInv

LEMMA SaveKeeps == ASSUME SteamInv, SaveShortcuts PROVE SteamInv'
<1> DEFINE p == sjob.in
           new == sjob.list
           was == left[p]
           now == [g \in Games |-> IF g = sjob.of THEN IF sjob.remove THEN "out" ELSE "in"
                                   ELSE IF sjob.blind THEN "unknown" ELSE was[g]]
           whole == Rewritten(new)
<1>1. /\ p \in Profiles /\ sjob.of \in Games /\ sjob \in SteamJobs /\ new \in Lists /\ OneEach(new)
      /\ Keeps(new, sjob.of, IF sjob.remove THEN "out" ELSE "in")
      /\ ~sjob.blind => \A g \in Games \ {sjob.of} : Keeps(new, g, was[g])
      /\ was \in [Games -> LeftOf]
  BY DEF SteamInv, SteamTyped, JobKept, Writing, SaveShortcuts, SteamJobs
<1>2. now \in [Games -> LeftOf]
  BY <1>1 DEF LeftOf
<1>3. \A g \in Games : Keeps(new, g, now[g])
  BY <1>1 DEF Keeps
<1>4. whole \in VdfFiles /\ whole.list = new /\ whole.is = "whole"
  BY <1>1 DEF Rewritten, VdfFiles
<1>5. vdf' = [vdf EXCEPT ![p] = whole] /\ left' = [left EXCEPT ![p] = now]
      /\ UNCHANGED <<steam, page, ask>>
  BY DEF SaveShortcuts
<1>6. sjob' \in SteamJobs /\ sjob'.pc = "load" /\ sjob'.of = sjob.of
  BY <1>1, EmptyOwns DEF SaveShortcuts, Handled, SteamJobs
<1> HIDE DEF p, new, was, now, whole
<1>7. vdf \in [Profiles -> VdfFiles] /\ left \in [Profiles -> [Games -> LeftOf]]
  BY DEF SteamInv, SteamTyped
<1>8. SteamTyped'
  <2>1. vdf' \in [Profiles -> VdfFiles]
    BY <1>4, <1>5, <1>7
  <2>2. left' \in [Profiles -> [Games -> LeftOf]]
    BY <1>2, <1>5, <1>7
  <2> QED  BY <1>5, <1>6, <2>1, <2>2 DEF SteamInv, SteamTyped
<1>9. FilesKept'
  <2>1. ASSUME NEW q \in Profiles
        PROVE  /\ OneEach(vdf'[q].list)
               /\ \A g \in Games : /\ Keeps(vdf'[q].list, g, left'[q][g])
                                   /\ left'[q][g] # "unknown" => vdf'[q].is = "whole"
    <3>1. CASE q = p
      <4>1. vdf'[q] = whole /\ left'[q] = now
        BY <1>5, <1>7, <3>1
      <4> QED  BY <1>1, <1>3, <1>4, <4>1
    <3>2. CASE q # p
      <4>1. vdf'[q] = vdf[q] /\ left'[q] = left[q]
        BY <1>5, <1>7, <3>2
      <4> QED  BY <4>1 DEF SteamInv, FilesKept
    <3> QED  BY <3>1, <3>2
  <2> QED  BY <1>5, <2>1 DEF SteamInv, FilesKept, OneEach, Keeps, OwnedBy
<1>10. JobKept'
  BY <1>1, <1>6 DEF JobKept, Writing
<1> QED  BY <1>8, <1>9, <1>10 DEF SteamInv

(***************************************************************************)
(* Steam                                                                   *)
(***************************************************************************)
LEMMA SteamListKept ==
    ASSUME SteamInv, UNCHANGED <<vdf, left, page, ask, sjob>>,
           steam' \in [in : Profiles \cup {0}, list : Lists], OneEach(steam'.list)
    PROVE  SteamInv'
<1>1. SteamTyped'
  BY DEF SteamInv, SteamTyped
<1>2. FilesKept'
  BY DEF SteamInv, FilesKept, OneEach, Keeps, OwnedBy
<1>3. JobKept'
  BY DEF SteamInv, JobKept, Writing, OneEach, Keeps, OwnedBy
<1> QED  BY <1>1, <1>2, <1>3 DEF SteamInv

LEMMA StartKeeps == ASSUME SteamInv, NEW p \in Profiles, SteamStarts(p) PROVE SteamInv'
<1>1. ListRead(p, FALSE) = Parsed(vdf[p]) /\ Parsed(vdf[p]) \in Lists /\ OneEach(Parsed(vdf[p]))
  BY ReadAgrees DEF ListRead
<1>2. steam' = [in |-> p, list |-> Parsed(vdf[p])] /\ UNCHANGED <<vdf, left, page, ask, sjob>>
  BY DEF SteamStarts
<1> QED  BY <1>1, <1>2, SteamListKept

LEMMA HandKeeps ==
    ASSUME SteamInv, NEW name \in Names, NEW l \in Lines,
           AddsByHand(name) \/ Renames(l, name) \/ Deletes(l)
    PROVE  SteamInv'
<1> DEFINE list == steam.list
<1>1. steam \in [in : Profiles \cup {0}, list : Lists] /\ list \in Lists /\ OneEach(list)
  BY DEF SteamInv, SteamTyped, FilesKept
<1>2. ASSUME NEW new \in Lists, InSteam(new),
             \A h \in Games : OwnedBy(new, h) \subseteq OwnedBy(list, h), UNCHANGED sjob
      PROVE  SteamInv'
  <2>1. steam' = [steam EXCEPT !.list = new] /\ UNCHANGED <<vdf, left, page, ask>>
    BY <1>2 DEF InSteam
  <2>2. steam' \in [in : Profiles \cup {0}, list : Lists] /\ steam'.list = new
    BY <1>1, <1>2, <2>1
  <2> QED  BY <1>1, <1>2, <2>1, <2>2, FewerOwned, SteamListKept
<1>3. ASSUME NEW k \in Lines, NEW e \in Entries \cup {NoLine}, InSteam([list EXCEPT ![k] = e]),
             e.owner \in {Nobody, list[k].owner}, UNCHANGED sjob
      PROVE  SteamInv'
  <2> DEFINE new == [list EXCEPT ![k] = e]
  <2>1. new \in Lists /\ \A j \in Lines : new[j] = IF j = k THEN e ELSE list[j]
    BY <1>1 DEF Lists
  <2> HIDE DEF new, list
  <2>2. \A h \in Games : OwnedBy(new, h) \subseteq OwnedBy(list, h)
    BY <1>3, <2>1, NoLineOwner DEF OwnedBy
  <2> QED  BY <1>2, <1>3, <2>1, <2>2 DEF new
<1>4. ASSUME AddsByHand(name) PROVE SteamInv'
  <2> DEFINE e == [name |-> name, owner |-> Nobody, app |-> <<ByHand, name>>]
  <2>1. e \in Entries /\ e.owner = Nobody
    BY DEF Entries, AppIds
  <2> HIDE DEF e
  <2>2. PICK k \in Lines : InSteam([list EXCEPT ![k] = e])
    BY <1>4 DEF AddsByHand, NextFree, e
  <2>3. UNCHANGED sjob
    BY <2>2 DEF InSteam
  <2> QED  BY <1>3, <2>1, <2>2, <2>3
<1>5. ASSUME Deletes(l) PROVE SteamInv'
  <2>1. InSteam([list EXCEPT ![l] = NoLine]) /\ UNCHANGED sjob
    BY <1>5 DEF Deletes, InSteam
  <2> QED  BY <1>3, <2>1, NoLineOwner
<1>6. ASSUME Renames(l, name) PROVE SteamInv'
  <2> DEFINE e == [list[l] EXCEPT !.name = name]
  <2>1. list[l] \in Entries
    BY <1>1, <1>6 DEF Renames, Used, Lists
  <2>2. e \in Entries /\ e.owner = list[l].owner
    BY <2>1 DEF Entries
  <2>3. InSteam([list EXCEPT ![l] = e]) /\ UNCHANGED sjob
    BY <1>6 DEF Renames, InSteam
  <2> HIDE DEF e
  <2> QED  BY <1>3, <2>2, <2>3
<1> QED  BY <1>4, <1>5, <1>6

LEMMA ExitKeeps == ASSUME SteamInv, NEW cut \in BOOLEAN, SteamExits(cut) PROVE SteamInv'
<1> DEFINE p == steam.in
           f == IF cut THEN [is |-> "cut", list |-> EmptyList] ELSE Rewritten(steam.list)
<1>1. p \in Profiles /\ steam.list \in Lists /\ OneEach(steam.list)
  BY DEF SteamExits, SteamInv, SteamTyped, FilesKept
<1>2. f \in VdfFiles /\ OneEach(f.list)
  BY <1>1, EmptyOwns DEF VdfFiles, Rewritten
<1>3. vdf' = [vdf EXCEPT ![p] = f] /\ left' = [left EXCEPT ![p] = Unknown]
      /\ steam' = SteamOff /\ UNCHANGED <<page, ask, sjob>>
  BY DEF SteamExits
<1>4. Unknown \in [Games -> LeftOf] /\ \A g \in Games : Unknown[g] = "unknown"
  BY DEF Unknown, LeftOf
<1>5. vdf \in [Profiles -> VdfFiles] /\ left \in [Profiles -> [Games -> LeftOf]]
  BY DEF SteamInv, SteamTyped
<1>6. SteamOff \in [in : Profiles \cup {0}, list : Lists] /\ OneEach(SteamOff.list)
      /\ SteamOff.in = 0
  BY EmptyOwns DEF SteamOff
<1> HIDE DEF p, f
<1>7. SteamTyped'
  <2>1. vdf' \in [Profiles -> VdfFiles]
    BY <1>2, <1>3, <1>5
  <2>2. left' \in [Profiles -> [Games -> LeftOf]]
    BY <1>3, <1>4, <1>5
  <2> QED  BY <1>3, <1>6, <2>1, <2>2 DEF SteamInv, SteamTyped
<1>8. ASSUME NEW q \in Profiles
      PROVE  \/ vdf'[q] = f /\ left'[q] = Unknown
             \/ vdf'[q] = vdf[q] /\ left'[q] = left[q]
  BY <1>3, <1>5
<1>9. FilesKept'
  <2>1. ASSUME NEW q \in Profiles
        PROVE  /\ OneEach(vdf'[q].list)
               /\ \A g \in Games : /\ Keeps(vdf'[q].list, g, left'[q][g])
                                   /\ left'[q][g] # "unknown" => vdf'[q].is = "whole"
    BY <1>2, <1>4, <1>8 DEF SteamInv, FilesKept, Keeps
  <2> QED  BY <1>3, <1>6, <2>1 DEF FilesKept, OneEach, Keeps, OwnedBy
<1>10. JobKept'
  <2>1. sjob.in \in Profiles => \A g \in Games : left'[sjob.in][g] \in {"unknown", left[sjob.in][g]}
    BY <1>4, <1>8
  <2> QED  BY <1>3, <2>1 DEF SteamInv, JobKept, Writing, OneEach, Keeps, OwnedBy
<1> QED  BY <1>7, <1>9, <1>10 DEF SteamInv

(***************************************************************************)
(* The title page                                                          *)
(***************************************************************************)
LEMMA PageKeeps == ASSUME SteamInv, SteamPage PROVE SteamInv'
<1>1. UNCHANGED <<vdf, steam, left>>
  BY DEF SteamPage, OpenTitlePage, RefreshReads, RefreshEnds, Press, ContinueAnyway, Cancel
<1>2. FilesKept'
  BY <1>1, OnlyJob
<1>3. ASSUME NEW g \in Games, NEW remove \in BOOLEAN, BeginSteamShortcut(g, remove)
      PROVE  sjob' \in SteamJobs /\ sjob'.pc = "find" /\ sjob'.of = g
  BY <1>3, EmptyOwns DEF BeginSteamShortcut, NoSteamJob, SteamJobs, LauncherCommand
<1>4. ASSUME UNCHANGED <<ask, sjob>>, page'.at \in {"open", "reading", "shown"}, 
             page' \in [at : {"library", "open", "reading", "shown"}, of : Games \cup {Nobody},
                        valid : BOOLEAN, ids : SUBSET Games],
             page'.of \in Games
      PROVE  SteamInv'
  <2>1. SteamTyped'
    BY <1>1, <1>4 DEF SteamInv, SteamTyped
  <2>2. JobKept'
    BY <1>1, <1>4 DEF SteamInv, JobKept, Writing, OneEach, Keeps, OwnedBy
  <2> QED  BY <1>2, <2>1, <2>2 DEF SteamInv
<1>5. ASSUME page' = page, ask' \in [of : Games \cup {Nobody}, remove : BOOLEAN],
             ask' # NoAsk => ask'.of \in Games,
             \/ sjob' = sjob
             \/ sjob' \in SteamJobs /\ sjob'.pc = "find" /\ sjob'.of \in Games
      PROVE  SteamInv'
  <2>1. SteamTyped'
    BY <1>1, <1>5 DEF SteamInv, SteamTyped
  <2>2. JobKept'
    BY <1>1, <1>5 DEF SteamInv, JobKept, Writing, OneEach, Keeps, OwnedBy
  <2> QED  BY <1>2, <2>1, <2>2 DEF SteamInv
<1> DEFINE read == UNION {OwnerIds(Parsed(vdf[p])) : p \in Profiles}
<1>6. page \in [at : {"library", "open", "reading", "shown"}, of : Games \cup {Nobody},
                valid : BOOLEAN, ids : SUBSET Games]
      /\ (page.at # "library" => page.of \in Games) /\ ask \in [of : Games \cup {Nobody}, remove : BOOLEAN]
      /\ (ask # NoAsk => ask.of \in Games) /\ NoAsk \in [of : Games \cup {Nobody}, remove : BOOLEAN]
  BY DEF SteamInv, SteamTyped, NoAsk
<1>7. read \in SUBSET Games
  <2>1. ASSUME NEW p \in Profiles PROVE OwnerIds(Parsed(vdf[p])) \subseteq Games
    <3>1. ListRead(p, FALSE) = Parsed(vdf[p]) /\ Parsed(vdf[p]) \in Lists
      BY ReadAgrees DEF ListRead
    <3> QED  BY <3>1, LineOwner DEF OwnerIds
  <2> QED  BY <2>1
<1> HIDE DEF read
<1>8. ASSUME NEW g \in Games, OpenTitlePage(g) PROVE SteamInv'
  <2>1. page' = [page EXCEPT !.at = "open", !.of = g, !.valid = FALSE] /\ UNCHANGED <<ask, sjob>>
    BY <1>8 DEF OpenTitlePage
  <2> QED  BY <1>4, <1>6, <2>1
<1>9. ASSUME RefreshReads PROVE SteamInv'
  <2>1. page' = [page EXCEPT !.at = "reading", !.ids = read] /\ UNCHANGED <<ask, sjob>>
        /\ page.at # "library"
    BY <1>9 DEF RefreshReads, read
  <2> QED  BY <1>4, <1>6, <1>7, <2>1
<1>10. ASSUME RefreshEnds PROVE SteamInv'
  <2>1. page' = [page EXCEPT !.at = "shown", !.valid = TRUE] /\ UNCHANGED <<ask, sjob>>
        /\ page.at # "library"
    BY <1>10 DEF RefreshEnds
  <2> QED  BY <1>4, <1>6, <2>1
<1>11. ASSUME NEW remove \in BOOLEAN, Press(remove) PROVE SteamInv'
  <2>1. page' = page /\ page.of \in Games
    BY <1>6, <1>11 DEF Press, CanPress
  <2>2. CASE ask' = [of |-> page.of, remove |-> remove] /\ UNCHANGED sjob
    BY <1>5, <2>1, <2>2
  <2>3. CASE BeginSteamShortcut(page.of, remove) /\ UNCHANGED ask
    BY <1>3, <1>5, <1>6, <2>1, <2>3
  <2> QED  BY <1>11, <2>2, <2>3 DEF Press
<1>12. ASSUME ContinueAnyway PROVE SteamInv'
  <2>1. ask' = NoAsk /\ page' = page /\ ask.of \in Games /\ ask.remove \in BOOLEAN
        /\ BeginSteamShortcut(ask.of, ask.remove)
    BY <1>6, <1>12 DEF ContinueAnyway
  <2> QED  BY <1>3, <1>5, <1>6, <2>1
<1>13. ASSUME Cancel PROVE SteamInv'
  <2>1. ask' = NoAsk /\ page' = page /\ sjob' = sjob
    BY <1>13 DEF Cancel
  <2> QED  BY <1>5, <1>6, <2>1
<1> QED  BY <1>8, <1>9, <1>10, <1>11, <1>12, <1>13 DEF SteamPage

LEMMA DeathKeeps == ASSUME SteamInv, WorkerDies PROVE SteamInv'
<1>1. /\ UNCHANGED <<vdf, steam, left>> /\ sjob' = NoSteamJob /\ page' = FreshPage /\ ask' = NoAsk
  BY DEF WorkerDies
<1>2. NoSteamJob \in SteamJobs /\ NoSteamJob.pc = "idle"
  BY EmptyOwns DEF NoSteamJob, SteamJobs
<1>3. SteamTyped'
  BY <1>1, <1>2 DEF SteamInv, SteamTyped, FreshPage, NoAsk
<1>4. JobKept'
  BY <1>1, <1>2 DEF JobKept, Writing
<1> QED  BY <1>1, <1>3, <1>4, OnlyJob DEF SteamInv

LEMMA SteamStep == ASSUME SteamInv, [SteamNext]_stVars PROVE SteamInv'
<1>1. CASE SteamWorker
  <2>1. ASSUME NEW p \in Profiles, NEW blind \in BOOLEAN,
               WriteEntry(p, blind) \/ RemoveEntries(p, blind)
        PROVE  SteamInv'
    BY <2>1, WriteEntryKeeps, RemoveEntriesKeeps
  <2> QED  BY <1>1, <2>1, WorkerStepKeeps, SaveKeeps DEF SteamWorker
<1>2. CASE SteamUser
  <2>1. ASSUME NEW p \in Profiles, SteamStarts(p) PROVE SteamInv'
    BY <2>1, StartKeeps
  <2>2. ASSUME NEW name \in Names, AddsByHand(name) PROVE SteamInv'
    <3>1. PICK l \in Lines : TRUE
      BY <2>2 DEF AddsByHand, NextFree
    <3> QED  BY <2>2, <3>1, HandKeeps
  <2>3. ASSUME NEW name \in Names, NEW l \in Lines, Renames(l, name) PROVE SteamInv'
    BY <2>3, HandKeeps
  <2>4. ASSUME NEW l \in Lines, Deletes(l) PROVE SteamInv'
    <3>1. steam.list[l] \in Entries
      BY <2>4 DEF Deletes, Used, SteamInv, SteamTyped, Lists
    <3>2. PICK name \in Names : TRUE
      BY <3>1 DEF Entries
    <3> QED  BY <2>4, <3>2, HandKeeps
  <2>5. ASSUME NEW cut \in BOOLEAN, SteamExits(cut) PROVE SteamInv'
    BY <2>5, ExitKeeps
  <2> QED  BY <1>2, <2>1, <2>2, <2>3, <2>4, <2>5 DEF SteamUser
<1>3. CASE UNCHANGED stVars
  <2>1. SteamTyped'
    BY <1>3 DEF stVars, SteamInv, SteamTyped
  <2>2. UNCHANGED <<vdf, steam, left, sjob>>
    BY <1>3 DEF stVars
  <2>3. JobKept'
    BY <2>2 DEF SteamInv, JobKept, Writing, OneEach, Keeps, OwnedBy
  <2> QED  BY <2>1, <2>2, <2>3, OnlyJob DEF SteamInv
<1> QED  BY <1>1, <1>2, <1>3, PageKeeps, DeathKeeps DEF SteamNext

(* Whatever Steam, its user and the title page do, in any order, a title   *)
(* has at most one entry a profile, and a list Retro saved last says of    *)
(* each title what Retro did last.                                         *)
THEOREM AsRetroLeftItHolds == SteamSpec => []AsRetroLeftIt
<1>1. SteamInv => AsRetroLeftIt
  BY DEF SteamInv, FilesKept, OneEach, Keeps, AsRetroLeftIt
<1> QED  BY <1>1, SteamStartsInv, SteamStep, PTL DEF SteamSpec

(* The backups, the art and the count of events.                           *)
ArtTyped ==
    /\ bak \in [Profiles -> BOOLEAN] /\ grid \in [Profiles -> SUBSET AppIds]
    /\ events \in 0 .. MaxEvents

LEMMA SteamInvTypes == SteamInv /\ ArtTyped => SteamTypeOK
BY DEF SteamInv, SteamTyped, ArtTyped, SteamTypeOK, VdfFiles, SteamJobs, LeftOf

LEMMA ArtInit == SteamInit => ArtTyped
<1>1. 0 \in 0 .. MaxEvents
  BY SteamAssumption
<1> QED  BY <1>1 DEF SteamInit, ArtTyped

LEMMA CountsTyped == ArtTyped /\ Counts => events' \in 0 .. MaxEvents
BY SteamAssumption DEF ArtTyped, Counts

LEMMA LessArt ==
    ASSUME ArtTyped, NEW p, NEW apps, grid' = RemoveArtFor(p, apps)
    PROVE  grid' \in [Profiles -> SUBSET AppIds]
BY DEF ArtTyped, RemoveArtFor

LEMMA MoreArt ==
    ASSUME ArtTyped, NEW p, NEW app \in AppIds, grid' = [grid EXCEPT ![p] = @ \cup {app}]
    PROVE  grid' \in [Profiles -> SUBSET AppIds]
BY DEF ArtTyped

LEMMA ArtStep == ASSUME SteamInv, ArtTyped, [SteamNext]_stVars PROVE ArtTyped'
<1>1. ASSUME UNCHANGED <<bak, grid>>, Counts \/ UNCHANGED events PROVE ArtTyped'
  BY <1>1, CountsTyped DEF ArtTyped
<1>2. ASSUME NEW p \in Profiles, NEW blind \in BOOLEAN, WriteEntry(p, blind) PROVE ArtTyped'
  <2>1. PICK apps : grid' = RemoveArtFor(p, apps)
    BY <1>2 DEF WriteEntry
  <2>2. UNCHANGED bak /\ (Counts \/ UNCHANGED events)
    BY <1>2 DEF WriteEntry, LoadShortcuts
  <2>3. grid' \in [Profiles -> SUBSET AppIds] /\ events' \in 0 .. MaxEvents
    BY <2>1, <2>2, LessArt, CountsTyped DEF ArtTyped
  <2> QED  BY <2>2, <2>3 DEF ArtTyped
<1>3. ASSUME NEW p \in Profiles, NEW blind \in BOOLEAN, RemoveEntries(p, blind) PROVE ArtTyped'
  <2>1. PICK apps : grid' = RemoveArtFor(p, apps)
    BY <1>3 DEF RemoveEntries
  <2>2. UNCHANGED bak /\ (Counts \/ UNCHANGED events)
    BY <1>3 DEF RemoveEntries, LoadShortcuts
  <2>3. grid' \in [Profiles -> SUBSET AppIds] /\ events' \in 0 .. MaxEvents
    BY <2>1, <2>2, LessArt, CountsTyped DEF ArtTyped
  <2> QED  BY <2>2, <2>3 DEF ArtTyped
<1>4. ASSUME NEW copied \in BOOLEAN, CopyArt(copied) PROVE ArtTyped'
  <2>1. sjob.of \in Games /\ sjob.exe \in Launchers \cup {ByHand}
    BY <1>4 DEF CopyArt, SteamInv, SteamTyped, SteamJobs, JobKept
  <2>2. AppId \in AppIds
    BY <2>1, SteamAssumption DEF AppId, AppIds
  <2>3. UNCHANGED bak /\ (Counts \/ UNCHANGED events)
        /\ (UNCHANGED grid \/ grid' = [grid EXCEPT ![sjob.in] = @ \cup {AppId}])
    BY <1>4 DEF CopyArt
  <2>4. grid' \in [Profiles -> SUBSET AppIds] /\ events' \in 0 .. MaxEvents
    BY <2>2, <2>3, MoreArt, CountsTyped DEF ArtTyped
  <2> QED  BY <2>3, <2>4 DEF ArtTyped
<1>5. CASE BackUpOnce
  <2>1. UNCHANGED grid /\ (Counts \/ UNCHANGED events)
    BY <1>5 DEF BackUpOnce
  <2>2. bak' \in [Profiles -> BOOLEAN]
    <3>1. CASE UNCHANGED bak
      BY <3>1 DEF ArtTyped
    <3>2. CASE bak' = [bak EXCEPT ![sjob.in] = @ \/ vdf[sjob.in].is # "missing"]
      BY <3>2 DEF ArtTyped
    <3> QED  BY <1>5, <3>1, <3>2 DEF BackUpOnce
  <2>3. events' \in 0 .. MaxEvents
    BY <2>1, CountsTyped DEF ArtTyped
  <2> QED  BY <2>1, <2>2, <2>3 DEF ArtTyped
<1>6. ASSUME NEW name \in Names, AddsByHand(name) PROVE ArtTyped'
  <2>1. <<ByHand, name>> \in AppIds
    BY DEF AppIds
  <2>2. UNCHANGED bak /\ Counts /\ grid' = [grid EXCEPT ![steam.in] = @ \cup {<<ByHand, name>>}]
    BY <1>6 DEF AddsByHand, InSteam
  <2>3. grid' \in [Profiles -> SUBSET AppIds] /\ events' \in 0 .. MaxEvents
    BY <2>1, <2>2, MoreArt, CountsTyped
  <2> QED  BY <2>2, <2>3 DEF ArtTyped
<1>7. CASE SteamPage
  <2>1. UNCHANGED <<bak, grid>> /\ (Counts \/ UNCHANGED events)
    BY <1>7 DEF SteamPage, OpenTitlePage, RefreshReads, RefreshEnds, Press, ContinueAnyway, Cancel
  <2> QED  BY <1>1, <2>1
<1>8. ASSUME NEW l \in Lines, Deletes(l) \/ \E name \in Names : Renames(l, name)
      PROVE  ArtTyped'
  BY <1>1, <1>8 DEF Deletes, Renames, InSteam
<1>9. ASSUME NEW p \in Profiles, SteamStarts(p) PROVE ArtTyped'
  BY <1>1, <1>9 DEF SteamStarts
<1>10. ASSUME NEW cut \in BOOLEAN, SteamExits(cut) PROVE ArtTyped'
  BY <1>1, <1>10 DEF SteamExits
<1>11. ASSUME \/ FindSteamInstall \/ SaveShortcuts \/ SaveFails \/ AllDone \/ Invalidates
              \/ WorkerFree \/ WorkerDies \/ UNCHANGED stVars
       PROVE  ArtTyped'
  BY <1>1, <1>11 DEF FindSteamInstall, SaveShortcuts, SaveFails, AllDone, Invalidates,
     WorkerFree, WorkerDies, stVars
<1>12. CASE SteamWorker
  BY <1>2, <1>3, <1>4, <1>5, <1>11, <1>12 DEF SteamWorker
<1>13. CASE SteamUser
  BY <1>6, <1>8, <1>9, <1>10, <1>13 DEF SteamUser
<1> QED  BY <1>7, <1>11, <1>12, <1>13 DEF SteamNext

(* Through the same, the lists, the art, the page and the worker's job     *)
(* keep their types.                                                       *)
THEOREM SteamTypesHold == SteamSpec => []SteamTypeOK
<1>1. SteamInv /\ ArtTyped /\ [SteamNext]_stVars => SteamInv' /\ ArtTyped'
  BY SteamStep, ArtStep
<1> QED  BY <1>1, SteamStartsInv, ArtInit, SteamInvTypes, PTL DEF SteamSpec

-----------------------------------------------------------------------------
(* config.json.                                                            *)

Values == 0 .. MaxChanges
Settings == [Fields -> Values]
Drafts == [at : Fields \cup {"none"}, draft : Values, dirty : BOOLEAN]
Counters == [changes : Values, reads : Nat, cli : Nat, bad : Nat]
Pens == [at : {"none", "cut"}, next : Settings, own : Fields,
         sets : {"before", "saved", "always"}, leave : BOOLEAN]
Wizards ==
    [at : {"choose", "easyRoot", "advRoot", "easyFolder", "advPaths", "missing",
           "advFolders", "shut"},
     fin : {"no", "dirs", "mark"}, mark : BOOLEAN, reset : {"no", "wiped", "done"}]
ConfigTyped ==
    /\ cfgFile \in [torn : BOOLEAN, of : Settings] /\ hmem \in Settings /\ pen \in Pens
    /\ wread = <<>> \/ wread[1] \in Settings
    /\ cli \in [at : {"none", "read", "cut"}, copy : Settings]
    /\ cpage \in Drafts
    /\ wiz \in Wizards
    /\ book \in [due : Settings, loose : SUBSET Fields]
    /\ spent \in Counters

(* A copy is up to date: whatever in it differs from what was last saved   *)
(* is known to.                                                            *)
UpToDate(c, b) == \A f \in Fields \ b.loose : c[f] = b.due[f]

(* The hub's copy is, between saves and until a hard reset has emptied it; *)
(* under a save that takes it over once saved, all but the setting saved;  *)
(* and what a save is writing is.                                          *)
MemoryUpToDate ==
    /\ wiz.reset # "done" =>
         /\ pen.at = "none" \/ pen.sets = "before" => UpToDate(hmem, book)
         /\ pen.at = "cut" /\ pen.sets = "saved" =>
              \A f \in Fields \ (book.loose \cup {pen.own}) : hmem[f] = book.due[f]
    /\ pen.at = "cut" => UpToDate(pen.next, book)

ConfigInv == ConfigTyped /\ SavedIsKept /\ MemoryUpToDate
-----------------------------------------------------------------------------
LEMMA ValuesAre == 0 \in Values /\ 1 \in Values
  BY HubConfigAssumption DEF Values

LEMMA DefaultsTyped == Defaults \in Settings
  BY ValuesAre DEF Defaults, Settings

LEMMA LoadedTyped == ASSUME ConfigTyped  PROVE Loaded \in Settings
  BY DefaultsTyped DEF ConfigTyped, Loaded

LEMMA ConfigInit == HubConfigInit => ConfigInv
  <1> SUFFICES ASSUME HubConfigInit  PROVE ConfigInv
    OBVIOUS
  <1>1. [Defaults EXCEPT !["library"] = 1] \in Settings
    BY DefaultsTyped, ValuesAre DEF Settings, Fields
  <1>2. cfgFile \in [torn : BOOLEAN, of : Settings] /\ hmem \in Settings
        /\ cfgFile.of = hmem /\ book = [due |-> hmem, loose |-> {}]
    BY <1>1, DefaultsTyped DEF HubConfigInit
  <1>3. pen \in Pens /\ pen.at = "none"
    BY DefaultsTyped DEF HubConfigInit, NoSave, Pens, Fields
  <1>4. cli \in [at : {"none", "read", "cut"}, copy : Settings]
        /\ cpage \in Drafts
    BY DefaultsTyped, ValuesAre DEF HubConfigInit, NoCli, NoDraft, Drafts
  <1>5. hmem["library"] \in Values
    BY <1>2 DEF Settings, Fields
  <1>6. spent \in Counters
    BY <1>5 DEF HubConfigInit, Counters
  <1>7. wiz \in Wizards
    <2>1. PICK done \in BOOLEAN : done <=> hmem["library"] # 0
      OBVIOUS
    <2>2. wiz = [at |-> IF hmem["library"] = 0 THEN "choose" ELSE "shut", fin |-> "no",
                 mark |-> done, reset |-> "no"]
      BY <2>1, Zenon DEF HubConfigInit
    <2>3. QED
      BY <2>2 DEF Wizards
  <1>8. book \in [due : Settings, loose : SUBSET Fields]
    BY <1>2
  <1>9. wread = <<>>
    BY DEF HubConfigInit
  <1>10. ConfigTyped
    BY <1>2, <1>3, <1>4, <1>6, <1>7, <1>8, <1>9 DEF ConfigTyped
  <1>11. UpToDate(hmem, book)
    BY <1>2 DEF UpToDate
  <1>12. QED
    BY <1>2, <1>3, <1>10, <1>11 DEF ConfigInv, SavedIsKept, MemoryUpToDate, UpToDate

(* A save, from a copy of which all is up to date but what loose says.     *)
LEMMA SaveKeepsConfig ==
  ASSUME ConfigInv, pen.at = "none",
         NEW next \in Settings, NEW own \in Fields, NEW sets \in {"before", "saved", "always"},
         NEW leave \in BOOLEAN, NEW loose \in SUBSET Fields, NEW number \in Values,
         \A f \in Fields \ (loose \cup {own}) : next[f] = book.due[f],
         ~cfgFile.torn => \A f \in Fields \ loose : cfgFile.of[f] = book.due[f],
         sets = "saved" => loose = book.loose,
         Save(next, own, sets, leave, loose, number)
  PROVE  /\ cfgFile' \in [torn : BOOLEAN, of : Settings] /\ hmem' \in Settings /\ pen' \in Pens
         /\ book' \in [due : Settings, loose : SUBSET Fields]
         /\ spent' \in Counters
         /\ SavedIsKept'
         /\ wiz'.reset = wiz.reset => MemoryUpToDate'
  <1> USE DEF ConfigInv, ConfigTyped
  <1>1. CASE Opened(next, own, sets, leave, loose)
             /\ spent' = [spent EXCEPT !.changes = number]
    <2> DEFINE due == [book.due EXCEPT ![own] = next[own]]
    <2>1. pen' = [at |-> "cut", next |-> next, own |-> own, sets |-> sets, leave |-> leave]
          /\ cfgFile' = [cfgFile EXCEPT !.torn = TRUE]
          /\ hmem' = (IF sets = "before" THEN next ELSE hmem)
          /\ book' = [due |-> due, loose |-> loose \ {own}]
      BY <1>1 DEF Opened
    <2>2. due \in Settings /\ \A f \in Fields : due[f] = IF f = own THEN next[f] ELSE book.due[f]
      BY DEF Settings
    <2>3. cfgFile' \in [torn : BOOLEAN, of : Settings] /\ cfgFile'.torn
          /\ pen' \in Pens /\ hmem' \in Settings
      BY <2>1 DEF Pens
    <2>4. book' \in [due : Settings, loose : SUBSET Fields]
          /\ spent' \in Counters
      BY <1>1, <2>1, <2>2 DEF Counters
    <2>5. UpToDate(next, book')
      BY <2>1, <2>2 DEF UpToDate
    <2>6. ASSUME wiz'.reset # "done", wiz'.reset = wiz.reset, sets = "saved"
          PROVE  \A f \in Fields \ (book'.loose \cup {own}) : hmem'[f] = book'.due[f]
      BY <2>1, <2>2, <2>6 DEF MemoryUpToDate, UpToDate
    <2>7. MemoryUpToDate' \/ wiz'.reset # wiz.reset
      BY <2>1, <2>5, <2>6 DEF MemoryUpToDate
    <2>8. QED
      BY <2>3, <2>4, <2>7 DEF SavedIsKept
  <1>2. CASE NotOpened(next, own, sets, loose)
             /\ spent' = [spent EXCEPT !.changes = number, !.bad = @ + 1]
    <2>1. pen' = pen /\ cfgFile' = cfgFile
          /\ hmem' = (IF sets = "saved" THEN hmem ELSE next)
          /\ book' = [book EXCEPT !.loose = IF sets = "saved" THEN loose ELSE loose \cup {own}]
      BY <1>2 DEF NotOpened
    <2>2. hmem' \in Settings /\ book'.due = book.due
          /\ book'.loose = (IF sets = "saved" THEN loose ELSE loose \cup {own})
          /\ book' \in [due : Settings, loose : SUBSET Fields]
      BY <2>1
    <2>6. spent' \in Counters
      <3>1. spent.bad + 1 \in Nat
        BY DEF Counters
      <3>2. spent' = [[spent EXCEPT !.changes = number] EXCEPT !.bad = spent.bad + 1]
        BY <1>2
      <3>3. QED
        BY <3>1, <3>2 DEF Counters
    <2>3. ASSUME wiz'.reset # "done", wiz'.reset = wiz.reset
          PROVE  UpToDate(hmem', book')
      BY <2>1, <2>2, <2>3 DEF MemoryUpToDate, UpToDate
    <2>4. SavedIsKept'
      BY <2>1, <2>2 DEF SavedIsKept
    <2>5. QED
      BY <2>1, <2>2, <2>3, <2>4, <2>6 DEF MemoryUpToDate
  <1>3. QED
    BY <1>1, <1>2 DEF Save

-----------------------------------------------------------------------------
(* What the hub reads is up to date but for what it is then behind in.     *)
LEMMA BehindLoaded ==
  ASSUME ConfigInv
  PROVE  /\ Loaded \in Settings /\ Behind(Loaded) \in SUBSET Fields
         /\ \A f \in Fields \ Behind(Loaded) : Loaded[f] = book.due[f]
         /\ ~cfgFile.torn => \A f \in Fields \ Behind(Loaded) : cfgFile.of[f] = book.due[f]
  BY LoadedTyped DEF ConfigInv, Loaded, Behind

LEMMA ReloadKeepsConfig ==
  ASSUME ConfigInv, Reload, UNCHANGED cfgFile, pen'.at = "none"
  PROVE  /\ hmem' \in Settings /\ book' \in [due : Settings, loose : SUBSET Fields]
         /\ SavedIsKept' /\ MemoryUpToDate'
  <1>1. hmem' = Loaded /\ book'.due = book.due /\ book'.loose = Behind(Loaded)
        /\ book' \in [due : Settings, loose : SUBSET Fields]
    BY BehindLoaded DEF Reload, ConfigInv, ConfigTyped
  <1>2. QED
    BY <1>1, BehindLoaded DEF SavedIsKept, MemoryUpToDate, UpToDate

(* The file is closed, or the disk is full.                                *)
LEMMA CloseKeeps == ASSUME ConfigInv, CloseFile  PROVE ConfigInv'
  <1> USE DEF ConfigInv, ConfigTyped
  <1>1. PICK torn \in BOOLEAN : cfgFile' = [torn |-> torn, of |-> pen.next]
    BY DEF CloseFile, Mixed
  <1>2. pen' = NoSave /\ hmem' = TakenOver /\ UNCHANGED <<wread, cli, book, spent>>
        /\ pen.at = "cut" /\ cpage' = Left /\ wiz' = [wiz EXCEPT !.fin = NextStep]
    BY DEF CloseFile
  <1>3. pen' \in Pens /\ pen'.at = "none" /\ pen.next \in Settings /\ pen.own \in Fields
    BY <1>2, DefaultsTyped DEF NoSave, Pens, Fields
  <1>4. cpage' \in Drafts
    BY <1>2, ValuesAre DEF Left, NoDraft, Drafts
  <1>5. wiz' \in Wizards /\ wiz'.reset = wiz.reset
    BY <1>2 DEF NextStep, Wizards
  <1>6. ConfigTyped'
    BY <1>1, <1>2, <1>3, <1>4, <1>5 DEF TakenOver
  <1>7. UpToDate(pen.next, book)
    BY <1>2 DEF MemoryUpToDate
  <1>8. SavedIsKept'
    BY <1>1, <1>2, <1>7 DEF SavedIsKept, UpToDate
  <1>9. MemoryUpToDate'
    BY <1>2, <1>3, <1>5, <1>7 DEF MemoryUpToDate, UpToDate, TakenOver
  <1>10. QED
    BY <1>6, <1>8, <1>9

LEMMA WriteFailsKeeps == ASSUME ConfigInv, WriteFails  PROVE ConfigInv'
  <1> USE DEF ConfigInv, ConfigTyped
  <1>1. /\ pen.at = "cut" /\ pen' = NoSave /\ UNCHANGED <<cfgFile, wread, cli, cpage>>
        /\ hmem' = (IF pen.sets = "saved" THEN hmem ELSE pen.next)
        /\ book' = [book EXCEPT !.loose = @ \cup {pen.own}]
        /\ wiz' = [wiz EXCEPT !.fin = "no"]
        /\ spent' = [spent EXCEPT !.bad = @ + 1]
    BY DEF WriteFails, GoesWrong
  <1>2. pen' \in Pens /\ pen'.at = "none" /\ pen.next \in Settings /\ pen.own \in Fields
    BY <1>1, DefaultsTyped DEF NoSave, Pens, Fields
  <1>3. wiz' \in Wizards /\ wiz'.reset = wiz.reset
    BY <1>1 DEF Wizards
  <1>4. book' \in [due : Settings, loose : SUBSET Fields] /\ book'.due = book.due
        /\ book'.loose = book.loose \cup {pen.own}
    BY <1>1, <1>2
  <1>5. spent' \in Counters
    BY <1>1 DEF Counters
  <1>6. ConfigTyped'
    BY <1>1, <1>2, <1>3, <1>4, <1>5
  <1>7. SavedIsKept'
    BY <1>1, <1>4 DEF SavedIsKept
  <1>8. pen.sets \in {"before", "saved", "always"}
    BY DEF Pens
  <1>9. MemoryUpToDate'
    BY <1>1, <1>2, <1>3, <1>4, <1>8 DEF MemoryUpToDate, UpToDate
  <1>10. QED
    BY <1>6, <1>7, <1>9

-----------------------------------------------------------------------------
(* Steps of the hub that save.                                             *)
LEMMA FreeMemory ==
  ASSUME ConfigInv, UiFree
  PROVE  pen.at = "none" /\ wiz.reset # "done" /\ UpToDate(hmem, book)
  BY DEF UiFree, Finishing, ConfigInv, MemoryUpToDate

LEMMA ValueTyped == ASSUME ConfigInv, Fresh  PROVE Value \in Values
  BY HubConfigAssumption DEF ConfigInv, ConfigTyped, Value, Fresh, Values, Counters

(* A save of one changed setting, from hub.cfg.                            *)
LEMMA SaveFromMemory ==
  ASSUME ConfigInv, pen.at = "none", UpToDate(hmem, book),
         NEW own \in Fields, NEW v \in Values, NEW sets \in {"before", "saved"},
         NEW leave \in BOOLEAN, NEW number \in Values,
         Save([hmem EXCEPT ![own] = v], own, sets, leave, book.loose, number),
         wiz'.reset = wiz.reset
  PROVE  /\ cfgFile' \in [torn : BOOLEAN, of : Settings] /\ hmem' \in Settings /\ pen' \in Pens
         /\ book' \in [due : Settings, loose : SUBSET Fields]
         /\ spent' \in Counters
         /\ SavedIsKept' /\ MemoryUpToDate'
  <1> DEFINE next == [hmem EXCEPT ![own] = v]
  <1>1. next \in Settings /\ book.loose \in SUBSET Fields
    BY DEF Settings, ConfigInv, ConfigTyped
  <1>2. \A f \in Fields \ (book.loose \cup {own}) : next[f] = book.due[f]
    BY DEF UpToDate, Settings, ConfigInv, ConfigTyped
  <1>3. ~cfgFile.torn => \A f \in Fields \ book.loose : cfgFile.of[f] = book.due[f]
    BY DEF ConfigInv, SavedIsKept
  <1>4. Save(next, own, sets, leave, book.loose, number)
    OBVIOUS
  <1> HIDE DEF next
  <1>5. QED
    BY <1>1, <1>2, <1>3, <1>4, SaveKeepsConfig

(* A save of one changed setting, from the file read again.                *)
LEMMA SaveFromFile ==
  ASSUME ConfigInv, pen.at = "none", NEW own \in Fields, NEW v \in Values,
         NEW sets \in {"before", "always"}, NEW leave \in BOOLEAN, NEW number \in Values,
         Save([Loaded EXCEPT ![own] = v], own, sets, leave, Behind(Loaded), number),
         wiz'.reset = wiz.reset
  PROVE  /\ cfgFile' \in [torn : BOOLEAN, of : Settings] /\ hmem' \in Settings /\ pen' \in Pens
         /\ book' \in [due : Settings, loose : SUBSET Fields]
         /\ spent' \in Counters
         /\ SavedIsKept' /\ MemoryUpToDate'
  <1> DEFINE next == [Loaded EXCEPT ![own] = v]
  <1>1. next \in Settings
    BY BehindLoaded DEF Settings
  <1>2. \A f \in Fields \ (Behind(Loaded) \cup {own}) : next[f] = book.due[f]
    BY BehindLoaded DEF Settings
  <1> HIDE DEF next
  <1>3. PICK loose \in SUBSET Fields : loose = Behind(Loaded)
    BY BehindLoaded
  <1>4. \A f \in Fields \ (loose \cup {own}) : next[f] = book.due[f]
    BY <1>2, <1>3
  <1>5. ~cfgFile.torn => \A f \in Fields \ loose : cfgFile.of[f] = book.due[f]
    BY <1>3, BehindLoaded
  <1>6. Save(next, own, sets, leave, loose, number)
    BY <1>3 DEF next
  <1>7. sets \in {"before", "saved", "always"} /\ (sets = "saved" => loose = book.loose)
    OBVIOUS
  <1>8. QED
    BY <1>1, <1>4, <1>5, <1>6, <1>7, SaveKeepsConfig

LEMMA PageSaveKeeps ==
  ASSUME ConfigInv, NEW p \in {"library", "romm"}, NEW leave \in BOOLEAN, SavePage(p, leave)
  PROVE  ConfigInv'
  <1>1. cpage.draft \in Values /\ spent.changes \in Values /\ p \in Fields
    BY DEF ConfigInv, ConfigTyped, Fields, Drafts, Counters
  <1>2. Save([hmem EXCEPT ![p] = cpage.draft], p, "saved", leave, book.loose, spent.changes)
        /\ UiFree /\ UNCHANGED <<wread, cli, cpage, wiz>>
    BY DEF SavePage
  <1>3. QED
    <2>1. pen.at = "none" /\ UpToDate(hmem, book) /\ wiz'.reset = wiz.reset
      BY <1>2, FreeMemory
    <2>2. /\ cfgFile' \in [torn : BOOLEAN, of : Settings] /\ hmem' \in Settings /\ pen' \in Pens
          /\ book' \in [due : Settings, loose : SUBSET Fields]
          /\ spent' \in Counters
          /\ SavedIsKept' /\ MemoryUpToDate'
      BY <1>1, <1>2, <2>1, SaveFromMemory
    <2>3. QED
      BY <1>2, <2>2 DEF ConfigInv, ConfigTyped

LEMMA ToggleKeeps == ASSUME ConfigInv, ToggleView  PROVE ConfigInv'
  <1>1. Save([hmem EXCEPT !["view"] = Value], "view", "before", FALSE, book.loose, Value)
        /\ UiFree /\ UNCHANGED <<wread, cli, cpage, wiz>> /\ "view" \in Fields /\ Fresh
    BY DEF ToggleView, Fields
  <1>2. QED
    BY <1>1, ValueTyped, FreeMemory, SaveFromMemory DEF ConfigInv, ConfigTyped

LEMMA FileSavesKeep == ASSUME ConfigInv, SetNet \/ Register  PROVE ConfigInv'
  <1>1. \E own \in Fields, sets \in {"before", "always"} :
          Save([Loaded EXCEPT ![own] = Value], own, sets, FALSE, Behind(Loaded), Value)
    <2>1. CASE SetNet
      <3>1. Save([Loaded EXCEPT !["net"] = Value], "net", "before", FALSE, Behind(Loaded), Value)
        BY <2>1 DEF SetNet
      <3>2. QED
        BY <3>1 DEF Fields
    <2>2. CASE Register
      <3>1. Save([Loaded EXCEPT !["titles"] = Value], "titles", "always", FALSE,
                 Behind(Loaded), Value)
        BY <2>2 DEF Register
      <3>2. QED
        BY <3>1 DEF Fields
    <2>3. QED
      BY <2>1, <2>2
  <1>2. UiFree /\ UNCHANGED <<wread, cli, cpage, wiz>> /\ Fresh
    BY DEF SetNet, Register, AtRest
  <1>3. pen.at = "none" /\ wiz'.reset = wiz.reset
    BY <1>2, FreeMemory
  <1>4. /\ cfgFile' \in [torn : BOOLEAN, of : Settings] /\ hmem' \in Settings /\ pen' \in Pens
        /\ book' \in [due : Settings, loose : SUBSET Fields]
        /\ spent' \in Counters
        /\ SavedIsKept' /\ MemoryUpToDate'
    BY <1>1, <1>2, <1>3, ValueTyped, SaveFromFile
  <1>5. QED
    BY <1>2, <1>4 DEF ConfigInv, ConfigTyped

(* The wizard.                                                             *)
LEMMA FinishKeeps ==
  ASSUME ConfigInv, NEW at, FinishFrom(at)
  PROVE  ConfigInv'
  <1>1. Save([hmem EXCEPT !["library"] = Value], "library", "saved", FALSE, book.loose, Value)
        /\ UiFree /\ UNCHANGED <<wread, cli, cpage, wiz>> /\ "library" \in Fields /\ Fresh
    BY DEF FinishFrom, Fields
  <1>2. QED
    BY <1>1, ValueTyped, FreeMemory, SaveFromMemory DEF ConfigInv, ConfigTyped

LEMMA MakeFoldersKeeps == ASSUME ConfigInv, MakeFolders  PROVE ConfigInv'
  <1>1. Save([hmem EXCEPT !["romm"] = Value], "romm", "saved", FALSE, book.loose, Value)
        /\ pen.at = "none" /\ wiz.reset # "done" /\ UNCHANGED <<wread, cli, cpage>>
        /\ "romm" \in Fields /\ Fresh
    BY DEF MakeFolders, Finishing, Fields
  <1>2. wiz' \in Wizards /\ wiz'.reset = wiz.reset
    BY DEF MakeFolders, ConfigInv, ConfigTyped, Wizards
  <1>3. UpToDate(hmem, book)
    BY <1>1 DEF ConfigInv, MemoryUpToDate
  <1>4. QED
    BY <1>1, <1>2, <1>3, ValueTyped, SaveFromMemory DEF ConfigInv, ConfigTyped

(* What leaves the settings alone.                                         *)
LEMMA QuietKeeps ==
  ASSUME ConfigInv, UNCHANGED <<cfgFile, hmem, pen, book>>,
         ConfigTyped', wiz'.reset = wiz.reset
  PROVE  ConfigInv'
  BY DEF ConfigInv, SavedIsKept, MemoryUpToDate, UpToDate

LEMMA WizardKeeps ==
  ASSUME ConfigInv, ChoosePath \/ ChooseRoot \/ ChoosePaths \/ MakeMissing \/ Back
  PROVE  ConfigInv'
  <1>1. PICK to \in {"choose", "easyRoot", "advRoot", "easyFolder", "advPaths", "missing",
                     "advFolders"} : wiz' = [wiz EXCEPT !.at = to]
    BY DEF ChoosePath, ChooseRoot, ChoosePaths, MakeMissing, Back, Wizard
  <1>2. UNCHANGED <<cfgFile, hmem, pen, wread, cli, cpage, book, spent>>
    BY DEF ChoosePath, ChooseRoot, ChoosePaths, MakeMissing, Back, Wizard
  <1>3. wiz' \in Wizards /\ wiz'.reset = wiz.reset
    BY <1>1 DEF ConfigInv, ConfigTyped, Wizards
  <1>4. QED
    BY <1>2, <1>3, QuietKeeps DEF ConfigInv, ConfigTyped

LEMMA SetupKeeps == ASSUME ConfigInv, CompleteSetup \/ SetupFails  PROVE ConfigInv'
  <1>1. wiz' \in Wizards /\ wiz'.reset = wiz.reset
    <2>1. wiz \in Wizards
      BY DEF ConfigInv, ConfigTyped
    <2>2. CASE wiz' = [wiz EXCEPT !.at = "shut", !.fin = "no", !.mark = TRUE]
      BY <2>1, <2>2 DEF Wizards
    <2>3. CASE wiz' = [wiz EXCEPT !.fin = "no"]
      BY <2>1, <2>3 DEF Wizards
    <2>4. QED
      BY <2>2, <2>3 DEF CompleteSetup, SetupFails
  <1>2. UNCHANGED <<cfgFile, hmem, pen, wread, cli, cpage, book>>
    BY DEF CompleteSetup, SetupFails
  <1>3. spent' \in Counters
    BY DEF CompleteSetup, SetupFails, GoesWrong, ConfigInv, ConfigTyped, Counters
  <1>4. QED
    BY <1>1, <1>2, <1>3, QuietKeeps DEF ConfigInv, ConfigTyped

-----------------------------------------------------------------------------
(* The pages, the workers, another process, a hard reset, a restart.       *)
LEMMA PagesKeep ==
  ASSUME ConfigInv,
         \/ OpenSettings \/ OpenRommSettings \/ EditSettings \/ EditRomm
         \/ ClosePage \/ ReadAgain
  PROVE  ConfigInv'
  <1> USE DEF ConfigInv, ConfigTyped
  <1>1. ASSUME NEW p \in {"library", "romm"}, OpenPage(p)  PROVE ConfigInv'
    <2>1. Reload /\ UNCHANGED <<cfgFile, pen, wread, cli, wiz, spent>> /\ pen.at = "none"
          /\ cpage' = [at |-> p, draft |-> Loaded[p], dirty |-> FALSE]
      BY <1>1, FreeMemory DEF OpenPage, AtRest
    <2>2. p \in Fields /\ Loaded[p] \in Values
      BY LoadedTyped DEF Settings, Fields
    <2>3. cpage' \in Drafts
      BY <2>1, <2>2 DEF Drafts
    <2>4. QED
      BY <2>1, <2>3, ReloadKeepsConfig
  <1>2. ASSUME NEW p \in {"library", "romm"}, EditPage(p)  PROVE ConfigInv'
    <2>1. cpage' \in Drafts
      BY <1>2, ValueTyped DEF EditPage, Change, Drafts
    <2>2. spent' \in Counters
      BY <1>2, ValueTyped DEF EditPage, Change, Counters
    <2>3. UNCHANGED <<cfgFile, hmem, pen, wread, cli, wiz, book>>
      BY <1>2 DEF EditPage
    <2>4. QED
      BY <2>1, <2>2, <2>3, QuietKeeps
  <1>3. CASE ClosePage
    <2>1. cpage' \in Drafts
          /\ UNCHANGED <<cfgFile, hmem, pen, wread, cli, wiz, book, spent>>
      BY <1>3, ValuesAre DEF ClosePage, NoDraft, Drafts
    <2>2. QED
      BY <2>1, QuietKeeps
  <1>4. CASE ReadAgain
    <2>1. Reload /\ UNCHANGED <<cfgFile, pen, wread, cli, cpage, wiz, spent>> /\ pen.at = "none"
      BY <1>4, FreeMemory DEF ReadAgain, AtRest
    <2>2. QED
      BY <2>1, ReloadKeepsConfig
  <1>5. QED
    BY <1>1, <1>2, <1>3, <1>4 DEF OpenSettings, OpenRommSettings, EditSettings, EditRomm

LEMMA WorkersKeep ==
  ASSUME ConfigInv,
         WorkerReads \/ \E part \in {Fields} \cup {{f} : f \in Fields} : WorkerAssigns(part)
  PROVE  ConfigInv'
  <1> USE DEF ConfigInv, ConfigTyped
  <1>1. CASE WorkerReads
    <2>1. wread' = <<Loaded>> /\ UNCHANGED <<cfgFile, hmem, pen, cli, cpage, wiz, book>>
          /\ spent' = [spent EXCEPT !.reads = @ + 1]
      BY <1>1 DEF WorkerReads
    <2>2. wread'[1] \in Settings
      BY <2>1, LoadedTyped
    <2>3. spent' \in Counters
      BY <2>1 DEF Counters
    <2>4. QED
      BY <2>1, <2>2, <2>3, QuietKeeps
  <1>2. ASSUME NEW part, WorkerAssigns(part)  PROVE ConfigInv'
    <2>1. /\ wread # <<>> /\ UNCHANGED <<cfgFile, pen, cli, cpage, wiz, spent>>
          /\ hmem' = [f \in Fields |-> IF f \in part THEN wread[1][f] ELSE hmem[f]]
          /\ book' = [book EXCEPT !.loose = @ \cup Behind(wread[1])]
          /\ wread' = wread \/ wread' = <<>>
      BY <1>2 DEF WorkerAssigns
    <2>2. hmem' \in Settings
      BY <2>1 DEF Settings
    <2>3. Behind(wread[1]) \in SUBSET Fields
          /\ \A f \in Fields \ Behind(wread[1]) : wread[1][f] = book.due[f]
      BY DEF Behind
    <2>4. book'.due = book.due /\ book'.loose = book.loose \cup Behind(wread[1])
          /\ book' \in [due : Settings, loose : SUBSET Fields]
      BY <2>1, <2>3
    <2>5. ConfigTyped'
      BY <2>1, <2>2, <2>4
    <2>6. SavedIsKept'
      BY <2>1, <2>4 DEF SavedIsKept
    <2>7. \A f \in Fields \ book'.loose :
             hmem'[f] = book'.due[f] \/ hmem'[f] = hmem[f]
      BY <2>1, <2>3, <2>4
    <2>8. MemoryUpToDate'
      BY <2>1, <2>4, <2>7 DEF MemoryUpToDate, UpToDate
    <2>9. QED
      BY <2>5, <2>6, <2>8
  <1>3. QED
    BY <1>1, <1>2

LEMMA CliKeepsConfig == ASSUME ConfigInv, CliReads \/ CliOpens \/ CliCloses  PROVE ConfigInv'
  <1> USE DEF ConfigInv, ConfigTyped
  <1>1. CASE CliReads
    <2>1. [Loaded EXCEPT !["titles"] = Value] \in Settings
      BY <1>1, LoadedTyped, ValueTyped DEF CliReads, Settings
    <2>2. cli' \in [at : {"none", "read", "cut"}, copy : Settings]
      BY <1>1, <2>1 DEF CliReads
    <2>3. spent' = [[spent EXCEPT !.cli = spent.cli + 1] EXCEPT !.changes = Value]
      BY <1>1 DEF CliReads
    <2>4. spent.cli + 1 \in Nat
      BY DEF Counters
    <2>5. spent' \in Counters
      BY <1>1, <2>3, <2>4, ValueTyped DEF CliReads, Counters
    <2>6. UNCHANGED <<cfgFile, hmem, pen, wread, cpage, wiz, book>>
      BY <1>1 DEF CliReads
    <2>7. QED
      BY <2>2, <2>5, <2>6, QuietKeeps
  <1>2. CASE CliOpens
    <2>1. cfgFile' \in [torn : BOOLEAN, of : Settings] /\ cfgFile'.torn
          /\ cli' \in [at : {"none", "read", "cut"}, copy : Settings]
          /\ UNCHANGED <<hmem, pen, wread, cpage, wiz, book, spent>>
      BY <1>2 DEF CliOpens
    <2>2. QED
      BY <2>1 DEF SavedIsKept, MemoryUpToDate, UpToDate
  <1>3. CASE CliCloses
    <2> DEFINE due == [book.due EXCEPT !["titles"] = cli.copy["titles"]]
               loose == book.loose \cup Behind(cli.copy) \cup {"titles"}
    <2>1. PICK torn \in BOOLEAN : cfgFile' = [torn |-> torn, of |-> cli.copy]
      BY <1>3 DEF CliCloses, Mixed
    <2>2. cli' = NoCli /\ book' = [due |-> due, loose |-> loose]
          /\ UNCHANGED <<hmem, pen, wread, cpage, wiz, spent>>
      BY <1>3 DEF CliCloses
    <2>3. due \in Settings /\ loose \in SUBSET Fields
          /\ \A f \in Fields \ loose : due[f] = book.due[f] /\ cli.copy[f] = book.due[f]
      BY DEF Settings, Fields, Behind
    <2>4. cli' \in [at : {"none", "read", "cut"}, copy : Settings]
      BY <2>2, DefaultsTyped DEF NoCli
    <2>5. book.loose \subseteq loose
      OBVIOUS
    <2> HIDE DEF due, loose
    <2>6. ConfigTyped'
      BY <2>1, <2>2, <2>3, <2>4
    <2>7. SavedIsKept'
      BY <2>1, <2>2, <2>3 DEF SavedIsKept
    <2>8. MemoryUpToDate'
      BY <2>2, <2>3, <2>5 DEF MemoryUpToDate, UpToDate
    <2>9. QED
      BY <2>6, <2>7, <2>8
  <1>4. QED
    BY <1>1, <1>2, <1>3

LEMMA ResetKeeps == ASSUME ConfigInv, WipeConfig \/ ResetMemory  PROVE ConfigInv'
  <1> USE DEF ConfigInv, ConfigTyped
  <1>1. CASE WipeConfig
    <2>1. pen.at = "none"
      BY <1>1 DEF WipeConfig, Pens
    <2>2. /\ cfgFile' = [torn |-> FALSE, of |-> Defaults]
          /\ wiz' = [wiz EXCEPT !.reset = "wiped", !.mark = FALSE]
          /\ book' = [due |-> Defaults, loose |-> Fields]
          /\ spent' = [spent EXCEPT !.changes = Value]
          /\ UNCHANGED <<hmem, pen, wread, cli, cpage>>
      BY <1>1 DEF WipeConfig, Change
    <2>3. wiz' \in Wizards
      BY <2>2 DEF Wizards
    <2>4. spent' \in Counters
      BY <1>1, <2>2, ValueTyped DEF WipeConfig, Change, Counters
    <2>5. ConfigTyped'
      BY <2>2, <2>3, <2>4, DefaultsTyped
    <2>6. QED
      BY <2>1, <2>2, <2>5 DEF SavedIsKept, MemoryUpToDate, UpToDate
  <1>2. CASE ResetMemory
    <2>1. /\ hmem' = Defaults /\ cpage' = NoDraft /\ wiz' = [wiz EXCEPT !.reset = "done"]
          /\ UNCHANGED <<cfgFile, pen, wread, cli, book, spent>>
      BY <1>2 DEF ResetMemory
    <2>2. wiz' \in Wizards /\ wiz'.reset = "done"
      BY <2>1 DEF Wizards
    <2>3. cpage' \in Drafts
      BY <2>1, ValuesAre DEF NoDraft, Drafts
    <2>4. QED
      BY <2>1, <2>2, <2>3, DefaultsTyped DEF SavedIsKept, MemoryUpToDate, UpToDate
  <1>3. QED
    BY <1>1, <1>2

LEMMA RestartKeeps == ASSUME ConfigInv, HubEnds \/ HubDies  PROVE ConfigInv'
  <1> USE DEF ConfigInv, ConfigTyped
  <1>1. /\ Reload /\ pen' = NoSave /\ wread' = <<>> /\ cpage' = NoDraft
        /\ UNCHANGED <<cfgFile, cli>>
    BY DEF HubEnds, HubDies, StartsAgain
  <1>2. PICK pending \in BOOLEAN :
          wiz' = [at |-> IF pending THEN "choose" ELSE "shut", fin |-> "no",
                  mark |-> ~pending, reset |-> "no"]
    <2>1. StartsAgain
      BY DEF HubEnds, HubDies
    <2>2. PICK pending \in BOOLEAN : pending <=> (~wiz.mark /\ Loaded["library"] = 0)
      OBVIOUS
    <2>3. QED
      BY <2>1, <2>2, Zenon DEF StartsAgain
  <1>3. wiz' \in Wizards
    <2>1. PICK mark \in BOOLEAN : mark <=> ~pending
      OBVIOUS
    <2>2. wiz' = [at |-> IF pending THEN "choose" ELSE "shut", fin |-> "no",
                  mark |-> mark, reset |-> "no"]
      BY <1>2, <2>1, Zenon
    <2>3. QED
      BY <2>2 DEF Wizards
  <1>4. spent' \in Counters
    BY DEF HubEnds, HubDies, GoesWrong, Counters
  <1>5. pen' \in Pens /\ pen'.at = "none"
        /\ cpage' \in Drafts
    BY <1>1, DefaultsTyped, ValuesAre DEF NoSave, NoDraft, Pens, Fields, Drafts
  <1>6. QED
    BY <1>1, <1>3, <1>4, <1>5, ReloadKeepsConfig
-----------------------------------------------------------------------------
LEMMA ConfigStep == ASSUME ConfigInv, [HubConfigNext]_hcVars  PROVE ConfigInv'
  <1>1. CASE UNCHANGED hcVars
    BY <1>1 DEF hcVars, ConfigInv, ConfigTyped, SavedIsKept, MemoryUpToDate, UpToDate
  <1>2. ASSUME NEW leave \in BOOLEAN, SaveLibrary(leave) \/ SaveRomm(leave)
        PROVE  ConfigInv'
    BY <1>2, PageSaveKeeps DEF SaveLibrary, SaveRomm
  <1>3. CASE FinishEasySetup \/ FinishAdvanced
    BY <1>3, FinishKeeps DEF FinishEasySetup, FinishAdvanced
  <1>4. QED
    BY <1>1, <1>2, <1>3, CloseKeeps, WriteFailsKeeps, PagesKeep, FileSavesKeep, ToggleKeeps,
       WorkersKeep, CliKeepsConfig, WizardKeeps, MakeFoldersKeeps, SetupKeeps, ResetKeeps,
       RestartKeeps
    DEF HubConfigNext

(* What was last saved of a setting is what config.json says of it, unless *)
(* a copy known to be behind has been written over it (config.cpp:515).    *)
THEOREM SavedIsKeptHolds == HubConfigSpec => []SavedIsKept
<1>1. ConfigInv => SavedIsKept
  BY DEF ConfigInv
<1>2. QED
  BY <1>1, ConfigInit, ConfigStep, PTL DEF HubConfigSpec

(* No page is open beside the wizard, and only an edit makes one dirty.    *)
PagesApart ==
    /\ cpage.dirty => cpage.at \in {"library", "romm"}
    /\ wiz.at # "shut" => cpage.at = "none"

LEMMA ConfigTypes == ConfigInv /\ PagesApart => HubConfigTypeOK
  BY DEF ConfigInv, ConfigTyped, PagesApart, HubConfigTypeOK, Settings, Values, Pens

LEMMA PagesStart == HubConfigInit => PagesApart
  BY DEF HubConfigInit, NoDraft, PagesApart

LEMMA PagesStep == ASSUME ConfigInv, PagesApart, [HubConfigNext]_hcVars PROVE PagesApart'
  <1>1. ASSUME UNCHANGED <<cpage, wiz>>  PROVE PagesApart'
    BY <1>1 DEF PagesApart
  <1>2. CASE CloseFile
    <2>1. cpage' = Left /\ wiz'.at = wiz.at
      BY <1>2 DEF CloseFile, ConfigInv, ConfigTyped, Wizards
    <2>2. cpage \in Drafts
      BY DEF ConfigInv, ConfigTyped
    <2>3. cpage' = cpage \/ (~cpage'.dirty /\ cpage'.at \in {"none", cpage.at})
      BY <2>1, <2>2 DEF Left, NoDraft, Drafts
    <2>4. QED
      BY <2>1, <2>3 DEF PagesApart
  <1>3. ASSUME NEW p \in {"library", "romm"}, OpenPage(p)  PROVE PagesApart'
    BY <1>3 DEF OpenPage, AtRest, PagesApart
  <1>4. ASSUME NEW p \in {"library", "romm"}, EditPage(p)  PROVE PagesApart'
    <2>1. cpage' = [cpage EXCEPT !.draft = Value, !.dirty = TRUE] /\ cpage.at = p /\ wiz' = wiz
      BY <1>4 DEF EditPage
    <2>2. cpage'.at = cpage.at
      BY <2>1 DEF ConfigInv, ConfigTyped, Drafts
    <2>3. QED
      BY <1>4, <2>1, <2>2 DEF PagesApart
  <1>5. ASSUME cpage' = NoDraft  PROVE PagesApart'
    BY <1>5 DEF NoDraft, PagesApart
  <1>6. ASSUME UNCHANGED cpage, wiz'.at = "shut" \/ wiz.at # "shut"  PROVE PagesApart'
    BY <1>6 DEF PagesApart
  <1>7. ASSUME UNCHANGED cpage, wiz'.at = wiz.at  PROVE PagesApart'
    BY <1>7 DEF PagesApart
  <1>8. ASSUME NEW at, NEW to, Wizard(at, to), at # "shut"  PROVE PagesApart'
    BY <1>6, <1>8 DEF Wizard
  <1>9. ASSUME ChoosePath \/ ChooseRoot \/ ChoosePaths \/ MakeMissing \/ Back  PROVE PagesApart'
    BY <1>8, <1>9 DEF ChoosePath, ChooseRoot, ChoosePaths, MakeMissing, Back
  <1>10. ASSUME WriteFails \/ MakeFolders \/ SetupFails \/ WipeConfig  PROVE PagesApart'
    <2>1. UNCHANGED cpage /\ \E fin, reset, mark : wiz' \in {[wiz EXCEPT !.fin = fin],
                                        [wiz EXCEPT !.reset = reset, !.mark = mark]}
      BY <1>10 DEF WriteFails, MakeFolders, SetupFails, WipeConfig
    <2>2. wiz'.at = wiz.at
      BY <2>1 DEF ConfigInv, ConfigTyped, Wizards
    <2>3. QED
      BY <1>7, <2>1, <2>2
  <1>11. CASE CompleteSetup
    <2>1. UNCHANGED cpage /\ wiz'.at = "shut"
      BY <1>11 DEF CompleteSetup, ConfigInv, ConfigTyped, Wizards
    <2>2. QED
      BY <1>6, <2>1
  <1>12. ASSUME ClosePage \/ ResetMemory \/ HubEnds \/ HubDies  PROVE PagesApart'
    BY <1>5, <1>12 DEF ClosePage, ResetMemory, HubEnds, HubDies, StartsAgain
  <1>13. ASSUME NEW leave \in BOOLEAN, SaveLibrary(leave) \/ SaveRomm(leave)  PROVE PagesApart'
    BY <1>1, <1>13 DEF SaveLibrary, SaveRomm, SavePage
  <1>14. ASSUME SetNet \/ ToggleView \/ Register \/ ReadAgain \/ FinishEasySetup \/ FinishAdvanced
         PROVE  PagesApart'
    BY <1>1, <1>14 DEF SetNet, ToggleView, Register, ReadAgain, FinishEasySetup, FinishAdvanced,
       FinishFrom
  <1>15. ASSUME WorkerReads \/ (\E part \in {Fields} \cup {{f} : f \in Fields} : WorkerAssigns(part))
         PROVE  PagesApart'
    BY <1>1, <1>15 DEF WorkerReads, WorkerAssigns
  <1>16. ASSUME CliReads \/ CliOpens \/ CliCloses \/ UNCHANGED hcVars  PROVE PagesApart'
    BY <1>1, <1>16 DEF CliReads, CliOpens, CliCloses, hcVars
  <1>17. QED
    BY <1>2, <1>3, <1>4, <1>9, <1>10, <1>11, <1>12, <1>13, <1>14, <1>15, <1>16
    DEF HubConfigNext, OpenSettings, OpenRommSettings, EditSettings, EditRomm

(* Through the same, every copy of the settings is whole, and no settings  *)
(* page is open beside the wizard (hub_model.cpp:3008-3056).               *)
THEOREM HubConfigTyped == HubConfigSpec => []HubConfigTypeOK
  <1>1. ConfigInv /\ PagesApart /\ [HubConfigNext]_hcVars => ConfigInv' /\ PagesApart'
    BY ConfigStep, PagesStep
  <1>2. QED
    BY <1>1, ConfigInit, PagesStart, ConfigTypes, PTL DEF HubConfigSpec
=============================================================================
