------------------------------- MODULE MCDisk -------------------------------
(***************************************************************************)
(* One behaviour runs one of the engines that keep something on disk:      *)
(* they share no state, so the run explores each of them whole.            *)
(***************************************************************************)
EXTENDS DataRoot, VersionStores, CatalogSync, HttpResume, RommFetch, HubConfig, SteamShortcuts,
        BiosIndex

VARIABLE engine
diskVars == <<engine, drVars, vsVars, csVars, hrVars, rfVars, hcVars, stVars, biVars>>
Still(e) == engine # e

MCNewMajor == [s \in Stores |-> IF s = "module" THEN 2 ELSE 4]
MCLast == [s \in Stores |-> IF s = "module" THEN 3 ELSE 2]

(* Two updaters of one store: the page and the start-up check at the       *)
(* runner's, that check and the command at the module's; or each at one.   *)
VersionEngines == {"one runner", "one module", "two stores"}
WorksAt(u, s) == place'[u] # "idle" => task'[u][1] = s
AsScoped ==
    /\ engine # "one module" => place'["command"] = "idle"
    /\ engine = "one runner" => \A u \in Updaters : WorksAt(u, "runner")
    /\ engine = "one runner" => published'["module"] = 1
    /\ engine = "one module" => \A u \in Updaters : WorksAt(u, "module")
    /\ engine = "one module" => published'["runner"] = 1
    /\ engine = "two stores" => WorksAt("page", "runner") /\ WorksAt("startup", "module")
VersionsNext == engine \in VersionEngines /\ VersionStoresNext /\ AsScoped

(* two titles of one name *)
MCNameOf == [g \in Games |-> "name"]

(* A BIOS of its own console each.  One may also be known by its name.     *)
MCConsoleOf(t) == t
MCFolderOf(p) == IF p = "flat" THEN 0 ELSE 1
MCRootOf(p) == IF p = "old" THEN "first" ELSE "second"
MCKinds(t) == IF t = 1 THEN {"crc32"} ELSE {"sha1"}
MCGenuine(t) == {"x"}
MCSized(t) == IF t = 1 THEN {"x"} ELSE {"x", "y"}
MCHinted(t) == IF t = 2 THEN {"flat"} ELSE {}
MCBiosCatalogs == {{1}, {1, 2}}

Engines == VersionEngines \cup {"root", "catalog", "http", "romm", "config", "steam", "bios"}
OneStart ==
    /\ Still("root") => osPointer = NoPlace /\ exeMarker = NoPlace /\ pin = NoPlace
    /\ \A s, r \in Stores : bundled[s] = bundled[r]
    /\ engine \notin VersionEngines \ {"two stores"} => \A s \in Stores : bundled[s] = 0
    /\ Still("catalog") => stamped
    /\ Still("http") => server /\ sized
    /\ Still("config") => cfgFile.of = Defaults
    /\ Still("bios") => biosRoot = "first" /\ listed = {1}
    /\ Still("romm") => offers = [t \in Titles |-> "none"]
DiskInit ==
    /\ engine \in Engines
    /\ DataRootInit /\ VersionStoresInit /\ CatalogSyncInit /\ HttpResumeInit
    /\ RommFetchInit /\ HubConfigInit /\ SteamInit /\ BiosInit
    /\ OneStart
DiskNext ==
    \/ engine = "root" /\ DataRootNext /\ UNCHANGED <<engine, vsVars, csVars, hrVars, rfVars, hcVars, stVars, biVars>>
    \/ VersionsNext /\ UNCHANGED <<engine, drVars, csVars, hrVars, rfVars, hcVars, stVars, biVars>>
    \/ engine = "catalog" /\ CatalogSyncNext /\ UNCHANGED <<engine, drVars, vsVars, hrVars, rfVars, hcVars, stVars, biVars>>
    \/ engine = "http" /\ HttpResumeNext /\ UNCHANGED <<engine, drVars, vsVars, csVars, rfVars, hcVars, stVars, biVars>>
    \/ engine = "romm" /\ RommFetchNext /\ UNCHANGED <<engine, drVars, vsVars, csVars, hrVars, hcVars, stVars, biVars>>
    \/ engine = "config" /\ HubConfigNext /\ UNCHANGED <<engine, drVars, vsVars, csVars, hrVars, rfVars, stVars, biVars>>
    \/ engine = "steam" /\ SteamNext /\ UNCHANGED <<engine, drVars, vsVars, csVars, hrVars, rfVars, hcVars, biVars>>
    \/ engine = "bios" /\ BiosNext /\ UNCHANGED <<engine, drVars, vsVars, csVars, hrVars, rfVars, hcVars, stVars>>
DiskSpec == DiskInit /\ [][DiskNext]_diskVars

(* Every engine's state keeps its types.                                   *)
DiskTypeOK ==
    DataRootTypeOK /\ VersionStoresTypeOK /\ CatalogSyncTypeOK /\ HttpResumeTypeOK
    /\ RommFetchTypeOK /\ HubConfigTypeOK /\ SteamTypeOK /\ BiosTypeOK
=============================================================================
