--------------------------- MODULE VersionStores ---------------------------
(***************************************************************************)
(* The parts the launcher keeps current apart from itself: the runner      *)
(* (runtime_update.cpp), the netplay module (netplay_module.cpp), and in   *)
(* Direct mode the core and the hub (hub_update.cpp).  Each has a folder   *)
(* with one directory per release; an update downloads and extracts beside *)
(* it, believes only what the extracted binary reports, moves it into      *)
(* place and keeps the two newest releases.  A start picks the newest      *)
(* release that speaks its contract.  Releases are numbered in order; 0 is *)
(* no release.                                                             *)
(***************************************************************************)
EXTENDS Naturals, FiniteSets

CONSTANTS Stores,     \* of "runner", "module", "core", "hub"
          Updaters,   \* "page": the Update page; "startup": the silent check;
                      \* "command": the command line, a process of its own
          MaxRelease, \* bound: releases
          LastRelease,       \* bound: store -> the last release published
          NewMajor,   \* store -> the first release that speaks contract 2
          NewLoads,   \* the first runner that loads modules of ABI 2
          DevAbi      \* the module ABI a developer's runner loads

Releases == 1..MaxRelease
ASSUME VersionStoresAssumption ==
    /\ MaxRelease \in Nat \ {0} /\ LastRelease \in [Stores -> Releases]
    /\ "module" \in Stores => "runner" \in Stores
Contract(s, v) == IF v < NewMajor[s] THEN 1 ELSE 2

VARIABLES published, \* store -> newest release published
          bundled,   \* store -> the release the app came with, 0: none or "dev"
          dir,       \* store -> release -> "none", "part" or "whole"
          stage,     \* store -> release -> what its staging directory holds
          clearer,   \* store -> release -> who cleared the staging last
          dev,       \* stores a developer's build is chosen for
          session,   \* store -> the release a session uses, 0: none or another
          place,     \* updater -> its place in the update
          task,      \* updater -> the store and the release it installs
          raced      \* history: stores that two updaters were at work on at once,
                     \* or one while a developer's build was picked there,
                     \* until one begins again alone

vsVars == <<published, bundled, dir, stage, clearer, dev, session, place, task, raced>>
store == <<dir, stage, clearer>>
world == <<published, bundled, dev, session>>

VersionStoresInit ==
    /\ published = [s \in Stores |-> 1]
    /\ bundled \in [Stores -> {0, 1}]
    /\ dir = [s \in Stores |-> [v \in Releases |-> "none"]]
    /\ stage = dir
    /\ clearer = [s \in Stores |-> [v \in Releases |-> "nobody"]]
    /\ dev = {} /\ session = [s \in Stores |-> 0]
    /\ place = [u \in Updaters |-> "idle"]
    /\ task = [u \in Updaters |-> <<"none", 0>>]
    /\ raced = {}

----------------------------------------------------------------------------
(* What a start picks.  A directory that does not hold a whole release     *)
(* fails its probe; a bundled build wins a tie.                            *)
Greatest(S) == IF S = {} THEN 0 ELSE CHOOSE v \in S : \A w \in S : w <= v
Usable(s, abi) ==
    {v \in Releases : Contract(s, v) = abi /\ (dir[s][v] = "whole" \/ v = bundled[s])}
Runner == Greatest(Usable("runner", 1))
WantedAbi == IF "runner" \in dev THEN DevAbi
             ELSE IF Runner = 0 THEN 0 ELSE IF Runner < NewLoads THEN 1 ELSE 2
Wanted(s) == IF s = "module" THEN WantedAbi ELSE 1
Resolve(s) == Greatest(Usable(s, Wanted(s)))
InUse(s, v) == session[s] = v

----------------------------------------------------------------------------
(* The manifest of the newest release: refused when it speaks another      *)
(* contract, and when what would start is at least as new; a developer's   *)
(* build is always offered the release.  A check that stops changes        *)
(* nothing.  Nothing keeps the start-up check, the page and the command    *)
(* apart.                                                                  *)
(* Mutant of Newer. *)
NewerOrSame(s) == published[s] >= Resolve(s) \/ s \in dev
Newer(s) == published[s] > Resolve(s) \/ s \in dev
UpdatedBy(u) == IF u = "page" THEN Stores \ {"module"} ELSE Stores \cap {"runner", "module"}
Store(u) == task[u][1]
Release(u) == task[u][2]
Meets(u, s) == \E w \in Updaters \ {u} : place[w] # "idle" /\ Store(w) = s
Check(u, s) ==
    /\ place[u] = "idle" /\ s \in UpdatedBy(u)
    /\ Contract(s, published[s]) = Wanted(s)
    /\ Newer(s)
    /\ place' = [place EXCEPT ![u] = "download"]
    /\ task' = [task EXCEPT ![u] = <<s, published[s]>>]
    /\ raced' = IF Meets(u, s) THEN raced \cup {s} ELSE raced \ {s}
    /\ UNCHANGED <<world, store>>

Put(f, u, x) == [f EXCEPT ![Store(u)][Release(u)] = x]
Goto(u, where) ==
    /\ place' = [place EXCEPT ![u] = where]
    /\ task' = IF where = "idle" THEN [task EXCEPT ![u] = <<"none", 0>>] ELSE task
    /\ raced' = raced

(* download_checked: a file of another size or hash is deleted.            *)
Fetch(u, ok) ==
    /\ place[u] = "download"
    /\ Goto(u, IF ok THEN "extract" ELSE "idle")
    /\ UNCHANGED <<world, store>>

(* The staging directory is removed, and filled by the extraction.         *)
BeginExtract(u) ==
    /\ place[u] = "extract"
    /\ stage' = Put(stage, u, "part") /\ clearer' = Put(clearer, u, u)
    /\ Goto(u, "extracting")
    /\ UNCHANGED <<world, dir>>

(* An extraction another updater cleared the directory of leaves a part.   *)
EndExtract(u) ==
    /\ place[u] = "extracting"
    /\ LET whole == /\ stage[Store(u)][Release(u)] # "none"
                    /\ clearer[Store(u)][Release(u)] = u
       IN /\ stage' = Put(stage, u, IF whole THEN "whole" ELSE "part")
          /\ clearer' = IF whole THEN Put(clearer, u, "nobody") ELSE clearer
    /\ Goto(u, "probe")
    /\ UNCHANGED <<world, dir>>

(* discard: the staging copy and the download go.                          *)
Discard(u) ==
    /\ place[u] \in {"extracting", "probe"}
    /\ stage' = Put(stage, u, "none")
    /\ Goto(u, "idle")
    /\ UNCHANGED <<world, dir, clearer>>

(* The extracted binary must run and report the manifest's release; a      *)
(* part that holds the binary may do so.                                   *)
ProbeExtracted(u) ==
    /\ place[u] = "probe" /\ stage[Store(u)][Release(u)] # "none"
    /\ Goto(u, "clear")
    /\ UNCHANGED <<world, store>>

(* A half-installed copy of the same release is removed.                   *)
ClearPlace(u) ==
    /\ place[u] = "clear"
    /\ dir' = Put(dir, u, "none")
    /\ Goto(u, "rename")
    /\ UNCHANGED <<world, stage, clearer>>

(* robust_rename: refused when the source is gone or the target is back.   *)
MoveIn(u) ==
    /\ place[u] = "rename"
    /\ stage[Store(u)][Release(u)] # "none" /\ dir[Store(u)][Release(u)] = "none"
    /\ dir' = Put(dir, u, stage[Store(u)][Release(u)])
    /\ stage' = Put(stage, u, "none")
    /\ Goto(u, "prune")
    /\ UNCHANGED <<world, clearer>>
MoveFails(u) ==
    /\ place[u] = "rename"
    /\ stage' = Put(stage, u, "none")
    /\ Goto(u, "idle")
    /\ UNCHANGED <<world, dir, clearer>>

(* prune_versions keeps the two newest directories, usable or not.  A      *)
(* directory in use may stay in part, on Windows.                          *)
Present(s) == {v \in Releases : dir[s][v] # "none"}
(* Mutant of Kept. *)
KeptOldest(s) == {v \in Present(s) : Cardinality({w \in Present(s) : w < v}) < 2}
Kept(s) == {v \in Present(s) : Cardinality({w \in Present(s) : w > v}) < 2}
Prune(u, left) ==
    /\ place[u] = "prune" /\ left \in {"none", "part"}
    /\ LET s == Store(u) IN
       /\ dir' = [dir EXCEPT ![s] =
            [v \in Releases |-> IF v \notin Present(s) \ Kept(s) THEN dir[s][v]
                                ELSE IF InUse(s, v) THEN left ELSE "none"]]
    /\ Goto(u, IF u = "page" THEN "done" ELSE "idle")
    /\ UNCHANGED <<world, stage, clearer>>

(* on_direct_updates_done: a release always replaces a developer's build.  *)
PageDone(u) ==
    /\ place[u] = "done"
    /\ dev' = dev \ {Store(u)}
    /\ Goto(u, "idle")
    /\ UNCHANGED <<published, bundled, session, store>>

UpdateStep(u) ==
    \/ \E s \in Stores : Check(u, s)
    \/ \E ok \in BOOLEAN : Fetch(u, ok)
    \/ BeginExtract(u) \/ EndExtract(u) \/ Discard(u) \/ ProbeExtracted(u)
    \/ ClearPlace(u) \/ MoveIn(u) \/ MoveFails(u)
    \/ PageDone(u) \/ \E left \in {"none", "part"} : Prune(u, left)

----------------------------------------------------------------------------
Announce(s) ==
    /\ published[s] < LastRelease[s]
    /\ published' = [published EXCEPT ![s] = @ + 1]
    /\ UNCHANGED <<bundled, dev, session, store, place, task, raced>>

(* A session keeps the releases it started with.                           *)
Installed(s, v) == v \in Releases /\ dir[s][v] = "whole" /\ s \notin dev
NoSession == [s \in Stores |-> 0]
StartSession ==
    /\ session = NoSession
    /\ session' = [s \in Stores |-> IF Installed(s, Resolve(s)) THEN Resolve(s) ELSE 0]
    /\ UNCHANGED <<published, bundled, dev, store, place, task, raced>>
EndSession ==
    /\ session # NoSession
    /\ session' = NoSession
    /\ UNCHANGED <<published, bundled, dev, store, place, task, raced>>

(* The app is closed, dies or starts again: an unfinished update holds up  *)
(* no exit.  A command goes on, or is killed by itself.                    *)
App == Updaters \ {"command"}
Stop(gone) ==
    /\ place' = [u \in Updaters |-> IF u \in gone THEN "idle" ELSE place[u]]
    /\ task' = [u \in Updaters |-> IF u \in gone THEN <<"none", 0>> ELSE task[u]]
Exit ==
    /\ Stop(App) /\ session' = NoSession
    /\ UNCHANGED <<published, bundled, dev, store, raced>>
CommandDies == Stop({"command"}) /\ UNCHANGED <<world, store, raced>>

(* A developer's build is chosen, or dropped, on the Update page; the app  *)
(* starts again to use it.  A command at work there has looked before.     *)
PickDev(s) ==
    /\ s # "module" /\ \A u \in Updaters : u = "page" => place[u] = "idle"
    /\ dev' = IF s \in dev THEN dev \ {s} ELSE dev \cup {s}
    /\ Stop(App) /\ session' = NoSession
    /\ raced' = IF \E u \in Updaters \ App : place[u] # "idle" /\ Store(u) = s
                THEN raced \cup {s} ELSE raced
    /\ UNCHANGED <<published, bundled, store>>

VersionStoresNext ==
    \/ \E u \in Updaters : UpdateStep(u)
    \/ \E s \in Stores : Announce(s) \/ PickDev(s)
    \/ StartSession \/ EndSession \/ Exit \/ CommandDies
VersionStoresSpec == VersionStoresInit /\ [][VersionStoresNext]_vsVars

----------------------------------------------------------------------------
VersionStoresTypeOK ==
    /\ published \in [Stores -> Releases] /\ bundled \in [Stores -> {0, 1}]
    /\ dir \in [Stores -> [Releases -> {"none", "part", "whole"}]]
    /\ stage \in [Stores -> [Releases -> {"none", "part", "whole"}]]
    /\ clearer \in [Stores -> [Releases -> Updaters \cup {"nobody"}]]
    /\ dev \subseteq Stores /\ raced \subseteq Stores /\ session \in [Stores -> 0..MaxRelease]
    /\ task \in [Updaters -> (Stores \cup {"none"}) \X (0..MaxRelease)]
    /\ place \in [Updaters -> {"idle", "download", "extract", "extracting", "probe",
                            "clear", "rename", "prune", "done"}]

(* Whatever an update does and wherever it stops, what the next start      *)
(* picks is at least as new as before (runtime_update.cpp:281-343,         *)
(* netplay_module.cpp:230-285, hub_update.cpp:454-520, 610-690): in a      *)
(* store that is not raced for and no developer's build stands for, as     *)
(* long as the runner asks for the same modules and the releases being     *)
(* installed are such.                                                     *)
Wanting(s) == \A u \in Updaters : Store(u) = s => Contract(s, Release(u)) = Wanted(s)
ChoiceNeverDrops ==
    [][\A s \in Stores \ (raced \cup dev \cup dev') :
         Wanting(s) /\ Wanted(s) = Wanted(s)' => Resolve(s)' >= Resolve(s)]_vsVars

(* A whole release in use is not written over or removed, except by        *)
(* pruning when two newer ones are there.                                  *)
KeptInUse(s) ==
    session[s] # 0 /\ dir[s][session[s]] = "whole" /\ dir[s][session[s]] # dir'[s][session[s]]
        => Cardinality({v \in Releases : v > session[s] /\ dir[s][v] # "none"}) >= 2

(* "into place, beside (never over) the runner in use"                     *)
(* (runtime_update.cpp:324, and so for the module, the core and the hub).  *)
NeverOverInUse == [][\A s \in Stores : KeptInUse(s)]_vsVars

(* The same of a store that is not raced for                               *)
(* (runtime_update.cpp:324-327).                                           *)
LoneNeverOverInUse == [][\A s \in Stores \ raced : KeptInUse(s)]_vsVars
=============================================================================
