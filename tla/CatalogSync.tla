----------------------------- MODULE CatalogSync -----------------------------
(***************************************************************************)
(* The catalog cache and its sync with the catalog repository's latest     *)
(* release (catalog_sync.cpp).  A catalog on disk is the release it is of  *)
(* and whether all its files are there.                                    *)
(***************************************************************************)
EXTENDS Naturals

CONSTANTS MaxLatest,  \* bound: releases of the catalog
          MaxSyncs    \* bound: syncs

ASSUME CatalogSyncAssumption == MaxLatest \in Nat \ {0} /\ MaxSyncs \in Nat

VARIABLES latest,   \* the release GitHub calls the latest
          stamped,  \* does catalog.zip name its release in index.json
          cache,    \* data/catalog
          backup,   \* data/catalog.old
          tag,      \* release_tag of catalog-state.json, 0 for none
          at,       \* where the sync is
          zip,      \* the release it downloaded
          seen,     \* the tag it resolved, 0 for none
          syncs

csVars == <<latest, stamped, cache, backup, tag, at, zip, seen, syncs>>

Catalogs == [rel : 1..MaxLatest, whole : BOOLEAN]
NoCatalog == [rel |-> 0, whole |-> FALSE]

CatalogSyncInit ==
    /\ latest = 1 /\ stamped \in BOOLEAN
    /\ cache = NoCatalog /\ backup = NoCatalog /\ tag = 0
    /\ at = "idle" /\ zip = 0 /\ seen = 0 /\ syncs = 0

Publish ==
    /\ latest < MaxLatest
    /\ latest' = latest + 1
    /\ UNCHANGED <<stamped, cache, backup, tag, at, zip, seen, syncs>>

(* Releases are ordered by the date in their stamps or tags.               *)
Later(r1, r2) == r1 > r2
NeedsDownload == tag = 0 \/ Later(latest, tag)

(* A cache that is there is kept unless the sync is forced, or GitHub can  *)
(* be asked and has something newer than the state file says.              *)
Begin(force, online) ==
    /\ at = "idle" /\ syncs < MaxSyncs
    /\ force \/ cache = NoCatalog \/ (online /\ NeedsDownload)
    /\ seen' = IF online THEN latest ELSE 0
    /\ at' = "download" /\ syncs' = syncs + 1
    /\ UNCHANGED <<latest, stamped, cache, backup, tag, zip>>

Download ==
    /\ at = "download"
    /\ zip' = latest /\ at' = "staged"
    /\ UNCHANGED <<latest, stamped, cache, backup, tag, seen, syncs>>

(* No network, no room, a zip without a catalog, a crash.                  *)
GiveUp ==
    /\ at # "idle"
    /\ at' = "idle"
    /\ UNCHANGED <<latest, stamped, cache, backup, tag, zip, seen, syncs>>

ClearBackup ==
    /\ at = "staged"
    /\ backup' = NoCatalog /\ at' = "cleared"
    /\ UNCHANGED <<latest, stamped, cache, tag, zip, seen, syncs>>

(* A cache that cannot be renamed is removed.                              *)
SetAside(renamed) ==
    /\ at = "cleared"
    /\ backup' = IF renamed THEN cache ELSE backup
    /\ cache' = NoCatalog /\ at' = "aside"
    /\ UNCHANGED <<latest, stamped, tag, zip, seen, syncs>>

RenameIn ==
    /\ at = "aside"
    /\ cache' = [rel |-> zip, whole |-> TRUE] /\ at' = "placed"
    /\ UNCHANGED <<latest, stamped, backup, tag, zip, seen, syncs>>

(* The copy fills the cache file by file: when it fails the backup cannot  *)
(* be renamed over what is there, and GiveUp leaves it so.                 *)
CopyIn(whole) ==
    /\ at \in {"aside", "copying"}
    /\ cache' = [rel |-> zip, whole |-> whole]
    /\ at' = IF whole THEN "placed" ELSE "copying"
    /\ UNCHANGED <<latest, stamped, backup, tag, zip, seen, syncs>>

(* A sync that could not ask before asks again now.                        *)
CleanUp(online) ==
    /\ at = "placed"
    /\ backup' = NoCatalog /\ at' = "clean"
    /\ seen' = IF seen = 0 /\ online THEN latest ELSE seen
    /\ UNCHANGED <<latest, stamped, cache, tag, zip, syncs>>

(* Mutant of Stamp. *)
StampOfLatest == IF seen # 0 THEN seen ELSE zip
Stamp == IF stamped THEN zip ELSE seen
(* The state is written in place: a crash leaves it unreadable.            *)
WriteState(torn) ==
    /\ at = "clean"
    /\ tag' = IF torn THEN 0 ELSE Stamp
    /\ at' = "idle"
    /\ UNCHANGED <<latest, stamped, cache, backup, zip, seen, syncs>>

CatalogSyncNext ==
    \/ Publish \/ Download \/ GiveUp \/ ClearBackup \/ RenameIn
    \/ \E force, online \in BOOLEAN : Begin(force, online)
    \/ \E yes \in BOOLEAN :
         SetAside(yes) \/ CopyIn(yes) \/ CleanUp(yes) \/ WriteState(yes)
CatalogSyncSpec == CatalogSyncInit /\ [][CatalogSyncNext]_csVars

----------------------------------------------------------------------------
CatalogSyncTypeOK ==
    /\ latest \in 1..MaxLatest /\ stamped \in BOOLEAN
    /\ {cache, backup} \subseteq Catalogs \union {NoCatalog}
    /\ {tag, zip, seen} \subseteq 0..MaxLatest /\ syncs \in 0..MaxSyncs
    /\ at \in {"idle", "download", "staged", "cleared", "aside", "copying",
               "placed", "clean"}

(* Whatever fails or crashes in between, the state file never claims a     *)
(* newer release than the cache has: such a claim would keep every later   *)
(* check from downloading (catalog_sync.cpp:238-272, 431-455).  Of a zip   *)
(* that is not stamped the claim may be of a release published after it.   *)
StateNeverAhead ==
    stamped /\ cache # NoCatalog => tag <= cache.rel
=============================================================================
