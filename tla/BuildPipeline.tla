--------------------------- MODULE BuildPipeline ---------------------------
(* Local builds (src/build/build.cpp): the release zip synced into src/current, *)
(* the engine tree shared between titles, the SDK slot harvested from it, the   *)
(* generated C with its stamps and its cache, the staged release, and the       *)
(* pruning that runs beside it.  One build at a time (the hub's queue), which   *)
(* may fail or die at every step.                                               *)
EXTENDS Integers, FiniteSets, FiniteSetsExt

CONSTANTS
  Ports,      \* titles with a build recipe
  MaxTag,      \* releases a title may reach: 1 .. MaxTag
  EngineOf,    \* [Ports -> [1 .. MaxTag -> Revs]]: the engine commit of a release
  KeyOf,       \* [Revs -> keys]: the key file's content, equal for some commits
  SlotOf,      \* [Ports -> [1 .. MaxTag -> slots]]: the release tag as text,
               \*   which two titles may have in common
  Roms,        \* ROM (and BIOS) files a build may be given
  HasBios,     \* TRUE for psxrecomp, which emits BIOS C into the engine tree
  MaxBuilds, MaxCrashes, MaxFaults   \* bounds of the instance

Tags == 1 .. MaxTag
Revs == UNION {{EngineOf[t][n] : n \in Tags} : t \in Ports}
Slots == UNION {{SlotOf[t][n] : n \in Tags} : t \in Ports}

ASSUME BuildAssumption ==
  /\ MaxTag \in Nat \ {0} /\ HasBios \in BOOLEAN
  /\ EngineOf \in [Ports -> [Tags -> Revs]]
  /\ Revs \subseteq Nat \ {0} /\ Revs \subseteq DOMAIN KeyOf
  /\ Roms \subseteq Nat \ {0} /\ Slots \subseteq Nat \ {0}

Inputs == [rom : Roms, tools : SUBSET Revs]
NoStamp == [rom |-> 0, tools |-> {}, slot |-> 0]
Stamps == [rom : Roms, tools : SUBSET Revs, slot : Slots] \cup {NoStamp}
NoSource == [files |-> {}, marker |-> 0, c |-> {}, stamp |-> NoStamp,
             link |-> 0]
NoCache == [c |-> {}, stamp |-> NoStamp, bios |-> {}, bstamp |-> {}]
NoBinary == [files |-> {}, c |-> {}, bios |-> {}, run |-> {}]

VARIABLES
  latest,    \* the newest release published for each title
  zip,       \* the newest release zip kept in cache/releases, 0 for none
  src,       \* src/current: whose files, marker, generated C, stamp, engine link
  cgcache,   \* codegen-cache: C, BIOS C and their stamps
  eng,       \* engines/<name>/<pin>: whose files, BIOS C and its stamp
  sdk,       \* sdks/<id>/<tag>: whose emitters and how far the harvest came
  pack,      \* the toolchain pack: none, in staging, or placed
  obj,       \* what the last successful compile of a title was made of
  rel,       \* what the staged release is made of
  rec,       \* the release install.json names, 0 for none
  bjob,      \* the running build
  gc,        \* the slots the pruning found pinned, while it runs
  budget     \* builds, crashes and faults spent

bpVars == <<latest, zip, src, cgcache, eng, sdk, pack, obj, rel, rec, bjob, gc, budget>>

Phases == {"idle", "source", "sync", "promote", "engine", "mark", "pack", "place", "tools",
           "emitters", "profiles", "bios", "decide", "generate", "stampbios", "cache",
           "stampcache", "stampsrc", "compile", "stage", "record", "prune"}
Idle == [pc |-> "idle", t |-> CHOOSE t \in Ports : TRUE, tag |-> 0, rom |-> 0,
         force |-> FALSE, regen |-> FALSE, online |-> FALSE, bios |-> FALSE, tools |-> {}]
NoGc == [on |-> FALSE, pinned |-> {}]

BuildInit ==
  /\ latest = [t \in Ports |-> 1]
  /\ zip = [t \in Ports |-> 0]
  /\ src = [t \in Ports |-> NoSource]
  /\ cgcache = [t \in Ports |-> NoCache]
  /\ eng = [d \in Revs |-> [revs |-> {}, bios |-> {}, bstamp |-> {}]]
  /\ sdk = [s \in Slots |-> [revs |-> {}, stage |-> 0]]
  /\ pack = "none"
  /\ obj = [t \in Ports |-> NoBinary]
  /\ rel = [t \in Ports |-> NoBinary]
  /\ rec = [t \in Ports |-> 0]
  /\ bjob = Idle
  /\ gc = NoGc
  /\ budget = [builds |-> 0, crashes |-> 0, faults |-> 0]

-----------------------------------------------------------------------------
(* What the running build looks at.                                          *)

T == bjob.t
Rev == EngineOf[T][bjob.tag]
SdkSlot == SlotOf[T][bjob.tag]
Linked == eng[src[T].link]
Emitters == bjob.tools
Wanted == [rom |-> bjob.rom, tools |-> Emitters]
WantedStamp == [rom |-> bjob.rom, tools |-> Emitters, slot |-> SdkSlot]
StampMatches(stamp) == stamp.rom = bjob.rom /\ stamp.tools = Emitters

(* a tree with the game's files and a link that leads to an engine           *)
Buildable(t) ==
  /\ src[t].files # {}
  /\ src[t].link \in Revs /\ eng[src[t].link].revs # {}

(* the directory for an engine commit: its pin, or one whose key file is the same *)
ContentId(rev) == KeyOf[rev]
EngineDir(rev) ==
  LET same == {d \in Revs : \E r \in eng[d].revs : ContentId(r) = ContentId(rev)}
  IN  IF same = {} THEN rev ELSE CHOOSE d \in same : TRUE

(* game C and, for psxrecomp, BIOS C beside it                               *)
Ready(c, bios) == c # {} /\ (HasBios => bios # {})
BiosStamped(stamp) == HasBios => stamp = Emitters

(* an SDK slot is reused once the CLI and both emitters are in it            *)
SdkComplete(s) == sdk[s].stage >= 2

Go(pc) == bjob' = [bjob EXCEPT !.pc = pc]
Stop == bjob' = Idle

-----------------------------------------------------------------------------
(* What a build is asked: install, update, rebuild, or generate and rebuild. *)

Publish(t) ==
  /\ latest[t] < MaxTag
  /\ latest' = [latest EXCEPT ![t] = @ + 1]
  /\ UNCHANGED <<zip, src, cgcache, eng, sdk, pack, obj, rel, rec, bjob, gc, budget>>

(* without the network the newest cached zip is the release                  *)
Resolved(t, online) == IF online THEN latest[t] ELSE zip[t]
Begin(t, rom, force, regen, online) ==
  /\ bjob.pc = "idle" /\ budget.builds < MaxBuilds
  /\ Resolved(t, online) > 0
  /\ bjob' = [pc |-> "source", t |-> t, tag |-> Resolved(t, online), rom |-> rom,
              force |-> force, regen |-> regen, online |-> online,
              bios |-> regen, tools |-> {}]
  /\ budget' = [budget EXCEPT !.builds = @ + 1]

(* Install: what an earlier attempt left is cleared first                     *)
InstallTitle(t, rom, online) ==
  /\ rec[t] = 0
  /\ Begin(t, rom, src[t].files # {}, FALSE, online)
  /\ src' = [src EXCEPT ![t] = NoSource]
  /\ cgcache' = [cgcache EXCEPT ![t] = NoCache]
  /\ obj' = [obj EXCEPT ![t] = NoBinary]
  /\ rel' = [rel EXCEPT ![t] = NoBinary]
  /\ UNCHANGED <<latest, zip, eng, sdk, pack, rec, gc>>

(* Update: only when install.json names an older release                      *)
UpdateTitle(t, rom, online) ==
  /\ rec[t] # 0 /\ rec[t] < Resolved(t, online)
  /\ Begin(t, rom, FALSE, FALSE, online)
  /\ UNCHANGED <<latest, zip, src, cgcache, eng, sdk, pack, obj, rel, rec, gc>>

(* Generate & Rebuild                                                         *)
RebuildTitle(t, rom, online) ==
  /\ rec[t] # 0
  /\ Begin(t, rom, TRUE, TRUE, online)
  /\ UNCHANGED <<latest, zip, src, cgcache, eng, sdk, pack, obj, rel, rec, gc>>

(* retcomm build, from the command line                                       *)
BuildTitle(t, rom, force, online) ==
  /\ Begin(t, rom, force, FALSE, online)
  /\ UNCHANGED <<latest, zip, src, cgcache, eng, sdk, pack, obj, rel, rec, gc>>

-----------------------------------------------------------------------------
(* The source tree (ensure_source_tree).                                     *)

(* the BIOS C of the linked engine is copied into the title's cache          *)
StashedBios(t) ==
  IF HasBios /\ src[t].link \in Revs /\ Linked.bios # {}
  THEN [cgcache EXCEPT ![t].bios = Linked.bios, ![t].bstamp = Linked.bstamp]
  ELSE cgcache

UpToDate(t) == src[t].marker = bjob.tag /\ Buildable(t)

ReuseSource ==
  /\ bjob.pc = "source" /\ ~bjob.force /\ UpToDate(T)
  /\ cgcache' = StashedBios(T)
  /\ Go("pack")
  /\ UNCHANGED <<latest, zip, src, eng, sdk, pack, obj, rel, rec, gc, budget>>

(* the archive is unpacked beside the tree and looked at before it is used   *)
Extract ==
  /\ bjob.pc = "source" /\ (bjob.force \/ ~UpToDate(T))
  /\ zip' = [zip EXCEPT ![T] = bjob.tag]
  /\ Go("sync")
  /\ UNCHANGED <<latest, src, cgcache, eng, sdk, pack, obj, rel, rec, gc, budget>>

(* a cached zip that does not unpack is dropped; without the network that is all *)
BadZip ==
  /\ bjob.pc = "source" /\ budget.faults < MaxFaults
  /\ bjob.force \/ ~UpToDate(T)
  /\ budget' = [budget EXCEPT !.faults = @ + 1]
  /\ zip' = [zip EXCEPT ![T] = 0]
  /\ IF bjob.online /\ zip[T] = bjob.tag THEN UNCHANGED bjob ELSE Stop
  /\ UNCHANGED <<latest, src, cgcache, eng, sdk, pack, obj, rel, rec, gc>>

(* changed files are copied first ...                                        *)
SyncCopyEarlyMark ==
  /\ bjob.pc = "sync"
  /\ src' = [src EXCEPT ![T].files = @ \cup {bjob.tag}, ![T].marker = bjob.tag]
  /\ Go("promote")
  /\ UNCHANGED <<latest, zip, cgcache, eng, sdk, pack, obj, rel, rec, gc, budget>>

SyncCopy ==
  /\ bjob.pc = "sync"
  /\ src' = [src EXCEPT ![T].files = @ \cup {bjob.tag}]
  /\ Go("promote")
  /\ UNCHANGED <<latest, zip, cgcache, eng, sdk, pack, obj, rel, rec, gc, budget>>

(* ... then everything the release lacks goes, the marker with it            *)
SyncPrune ==
  /\ bjob.pc = "promote"
  /\ src' = [src EXCEPT ![T].files = {bjob.tag}, ![T].marker = 0]
  /\ cgcache' = StashedBios(T)
  /\ Go("engine")
  /\ UNCHANGED <<latest, zip, eng, sdk, pack, obj, rel, rec, gc, budget>>

(* the engine of the release is copied into the shared directory ...         *)
EngineCopy ==
  /\ bjob.pc = "engine"
  /\ eng' = [eng EXCEPT ![EngineDir(Rev)].revs = @ \cup {Rev}]
  /\ Go("mark")
  /\ UNCHANGED <<latest, zip, src, cgcache, sdk, pack, obj, rel, rec, gc, budget>>

(* ... what it lacks is removed, the tree is linked to it, BIOS C that the    *)
(* directory has none of comes back from the cache, and the marker is written *)
Settled(d, t) ==
  LET e == [eng[d] EXCEPT !.revs = {Rev}]
  IN  IF HasBios /\ e.bios = {} /\ cgcache[t].bios # {}
      THEN [e EXCEPT !.bios = cgcache[t].bios, !.bstamp = cgcache[t].bstamp]
      ELSE e

(* a local tree is parked until the link leads to the shared one             *)
LinkedTo(d) == [src EXCEPT ![T].link = d]

MarkSource ==
  /\ bjob.pc = "mark"
  /\ LET d == EngineDir(Rev)
     IN  /\ eng' = [eng EXCEPT ![d] = Settled(d, T)]
         /\ src' = [LinkedTo(d) EXCEPT ![T].marker = bjob.tag]
  /\ Go("pack")
  /\ UNCHANGED <<latest, zip, cgcache, sdk, pack, obj, rel, rec, gc, budget>>

-----------------------------------------------------------------------------
(* The toolchain and the SDK.                                                *)

(* any usable pack of the wanted version is used                             *)
UsePack ==
  /\ bjob.pc = "pack" /\ pack = "placed"
  /\ Go("tools")
  /\ UNCHANGED <<latest, zip, src, cgcache, eng, sdk, pack, obj, rel, rec, gc, budget>>

FetchPack ==
  /\ bjob.pc = "pack" /\ pack # "placed" /\ bjob.online
  /\ pack' = "staging"
  /\ Go("place")
  /\ UNCHANGED <<latest, zip, src, cgcache, eng, sdk, obj, rel, rec, gc, budget>>

PlacePack ==
  /\ bjob.pc = "place"
  /\ pack' = "placed"
  /\ Go("tools")
  /\ UNCHANGED <<latest, zip, src, cgcache, eng, sdk, obj, rel, rec, gc, budget>>

(* no network and no pack: the release's own toolchain, or the build ends    *)
HarvestPack(found) ==
  /\ bjob.pc = "pack" /\ pack # "placed" /\ ~bjob.online
  /\ IF found THEN pack' = "placed" /\ Go("tools") ELSE Stop /\ UNCHANGED pack
  /\ UNCHANGED <<latest, zip, src, cgcache, eng, sdk, obj, rel, rec, gc, budget>>

ReuseSdk ==
  /\ bjob.pc = "tools" /\ SdkComplete(SdkSlot)
  /\ Go("bios")
  /\ UNCHANGED <<latest, zip, src, cgcache, eng, sdk, pack, obj, rel, rec, gc, budget>>

(* the slot is filled over what it holds: the CLI, the emitters, the profiles *)
HarvestCli ==
  /\ bjob.pc = "tools" /\ ~SdkComplete(SdkSlot)
  /\ sdk' = [sdk EXCEPT ![SdkSlot] = [revs |-> @.revs \cup Linked.revs, stage |-> 1]]
  /\ Go("emitters")
  /\ UNCHANGED <<latest, zip, src, cgcache, eng, pack, obj, rel, rec, gc, budget>>

HarvestEmitters ==
  /\ bjob.pc = "emitters" /\ sdk[SdkSlot].stage > 0
  /\ sdk' = [sdk EXCEPT ![SdkSlot] = [revs |-> Linked.revs, stage |-> 2]]
  /\ Go("profiles")
  /\ UNCHANGED <<latest, zip, src, cgcache, eng, pack, obj, rel, rec, gc, budget>>

HarvestProfiles ==
  /\ bjob.pc = "profiles" /\ sdk[SdkSlot].stage > 0
  /\ sdk' = [sdk EXCEPT ![SdkSlot].stage = 3]
  /\ Go("bios")
  /\ UNCHANGED <<latest, zip, src, cgcache, eng, pack, obj, rel, rec, gc, budget>>

-----------------------------------------------------------------------------
(* The generated C.                                                          *)

(* the emitters are hashed; BIOS C that they did not write is dropped, here   *)
(* and in the cache                                                           *)
BiosStaleNever(e) == FALSE
BiosStale(e) == HasBios /\ e.bios # {} /\ e.bstamp # sdk[SdkSlot].revs

CheckBios ==
  /\ bjob.pc = "bios" /\ sdk[SdkSlot].stage > 0
  /\ IF BiosStale(Linked)
     THEN /\ eng' = [eng EXCEPT ![src[T].link].bios = {}, ![src[T].link].bstamp = {}]
          /\ cgcache' = [cgcache EXCEPT ![T].bios = {}, ![T].bstamp = {}]
     ELSE UNCHANGED <<eng, cgcache>>
  /\ bjob' = [bjob EXCEPT !.pc = "decide", !.bios = @ \/ BiosStale(Linked),
                          !.tools = sdk[SdkSlot].revs]
  /\ UNCHANGED <<latest, zip, src, sdk, pack, obj, rel, rec, gc, budget>>

(* sources with no stamp at all count as sources already present             *)
Present == Ready(src[T].c, Linked.bios)
Skips == /\ ~bjob.regen /\ Present
         /\ StampMatches(src[T].stamp) \/ src[T].stamp = NoStamp
Restores == /\ ~bjob.regen /\ ~Skips
            /\ StampMatches(cgcache[T].stamp)
            /\ Ready(cgcache[T].c, cgcache[T].bios) /\ BiosStamped(cgcache[T].bstamp)

SkipGenerate ==
  /\ bjob.pc = "decide" /\ Skips
  /\ src' = [src EXCEPT ![T].stamp = WantedStamp]
  /\ Go("cache")
  /\ UNCHANGED <<latest, zip, cgcache, eng, sdk, pack, obj, rel, rec, gc, budget>>

RestoreCache ==
  /\ bjob.pc = "decide" /\ Restores
  /\ src' = [src EXCEPT ![T].c = cgcache[T].c]
  /\ eng' = IF HasBios
            THEN [eng EXCEPT ![src[T].link].bios = cgcache[T].bios,
                             ![src[T].link].bstamp = cgcache[T].bstamp]
            ELSE eng
  /\ Go("cache")
  /\ UNCHANGED <<latest, zip, cgcache, sdk, pack, obj, rel, rec, gc, budget>>

EmitsBios == HasBios /\ (bjob.bios \/ Linked.bios = {})

(* the generator writes over what is there; it needs the slot to be there    *)
GenerateBegins ==
  /\ bjob.pc = "decide" /\ ~Skips /\ ~Restores /\ sdk[SdkSlot].stage > 0
  /\ src' = [src EXCEPT ![T].c = @ \cup {Wanted}]
  /\ eng' = IF EmitsBios THEN [eng EXCEPT ![src[T].link].bios = @ \cup {Emitters}] ELSE eng
  /\ bjob' = [bjob EXCEPT !.pc = "generate", !.bios = EmitsBios]
  /\ UNCHANGED <<latest, zip, cgcache, sdk, pack, obj, rel, rec, gc, budget>>

GenerateEnds ==
  /\ bjob.pc = "generate" /\ sdk[SdkSlot].stage > 0
  /\ src' = [src EXCEPT ![T].c = {Wanted}]
  /\ eng' = IF bjob.bios THEN [eng EXCEPT ![src[T].link].bios = {Emitters}] ELSE eng
  /\ Go("stampbios")
  /\ UNCHANGED <<latest, zip, cgcache, sdk, pack, obj, rel, rec, gc, budget>>

(* a generator that fails leaves what it wrote, and the build ends           *)
GenerateFails ==
  /\ bjob.pc = "generate" /\ budget.faults < MaxFaults
  /\ budget' = [budget EXCEPT !.faults = @ + 1]
  /\ Stop
  /\ UNCHANGED <<latest, zip, src, cgcache, eng, sdk, pack, obj, rel, rec, gc>>

(* the slot was removed under the build                                      *)
SdkGone ==
  /\ \/ bjob.pc \in {"emitters", "profiles", "bios", "generate"}
     \/ bjob.pc = "decide" /\ ~Skips /\ ~Restores
  /\ sdk[SdkSlot].stage = 0
  /\ Stop
  /\ UNCHANGED <<latest, zip, src, cgcache, eng, sdk, pack, obj, rel, rec, gc, budget>>

StampBios ==
  /\ bjob.pc = "stampbios"
  /\ eng' = IF HasBios THEN [eng EXCEPT ![src[T].link].bstamp = Emitters] ELSE eng
  /\ Go("cache")
  /\ UNCHANGED <<latest, zip, src, cgcache, sdk, pack, obj, rel, rec, gc, budget>>

(* the cache is made the same as the tree, then stamped, then the tree is    *)
CacheCopy ==
  /\ bjob.pc = "cache"
  /\ cgcache' = [cgcache EXCEPT ![T].c = src[T].c,
                                ![T].bios = Linked.bios, ![T].bstamp = Linked.bstamp]
  /\ Go("stampcache")
  /\ UNCHANGED <<latest, zip, src, eng, sdk, pack, obj, rel, rec, gc, budget>>

StampCache ==
  /\ bjob.pc = "stampcache"
  /\ cgcache' = [cgcache EXCEPT ![T].stamp = WantedStamp]
  /\ Go("stampsrc")
  /\ UNCHANGED <<latest, zip, src, eng, sdk, pack, obj, rel, rec, gc, budget>>

StampSource ==
  /\ bjob.pc = "stampsrc"
  /\ src' = [src EXCEPT ![T].stamp = WantedStamp]
  /\ Go("compile")
  /\ UNCHANGED <<latest, zip, cgcache, eng, sdk, pack, obj, rel, rec, gc, budget>>

-----------------------------------------------------------------------------
(* Configure, compile, stage, record, prune.                                 *)

(* the build directory is incremental: it ends as the trees it reads are     *)
Compiled == [files |-> src[T].files, c |-> src[T].c,
             bios |-> Linked.bios, run |-> Linked.revs]

Compile ==
  /\ bjob.pc = "compile"
  /\ obj' = [obj EXCEPT ![T] = Compiled]
  /\ Go("stage")
  /\ UNCHANGED <<latest, zip, src, cgcache, eng, sdk, pack, rel, rec, gc, budget>>

CompileFails ==
  /\ bjob.pc = "compile" /\ budget.faults < MaxFaults
  /\ budget' = [budget EXCEPT !.faults = @ + 1]
  /\ Stop
  /\ UNCHANGED <<latest, zip, src, cgcache, eng, sdk, pack, obj, rel, rec, gc>>

Stage ==
  /\ bjob.pc = "stage"
  /\ rel' = [rel EXCEPT ![T] = obj[T]]
  /\ Go("record")
  /\ UNCHANGED <<latest, zip, src, cgcache, eng, sdk, pack, obj, rec, gc, budget>>

Record ==
  /\ bjob.pc = "record"
  /\ rec' = [rec EXCEPT ![T] = bjob.tag]
  /\ Go("prune")
  /\ UNCHANGED <<latest, zip, src, cgcache, eng, sdk, pack, obj, rel, gc, budget>>

(* the build directory goes when the setting says so                         *)
PruneBuild(clean) ==
  /\ bjob.pc = "prune"
  /\ obj' = IF clean THEN [obj EXCEPT ![T] = NoBinary] ELSE obj
  /\ Stop
  /\ UNCHANGED <<latest, zip, src, cgcache, eng, sdk, pack, rel, rec, gc, budget>>

-----------------------------------------------------------------------------
(* Pruning of the SDK slots runs in a process of its own: it reads which     *)
(* slots the stamps name, then removes the others except the newest.         *)

Pinned == {src[t].stamp.slot : t \in Ports} \cup {cgcache[t].stamp.slot : t \in Ports}

GcLooks ==
  /\ ~gc.on /\ budget.faults < MaxFaults
  /\ gc' = [on |-> TRUE, pinned |-> Pinned]
  /\ budget' = [budget EXCEPT !.faults = @ + 1]
  /\ UNCHANGED <<latest, zip, src, cgcache, eng, sdk, pack, obj, rel, rec, bjob>>

Outdated == {s \in Slots : sdk[s].stage > 0 /\ s \notin gc.pinned
                            /\ \E n \in Slots : n > s /\ sdk[n].stage > 0}

GcRemoves ==
  /\ gc.on
  /\ sdk' = [s \in Slots |-> IF s \in Outdated THEN [revs |-> {}, stage |-> 0] ELSE sdk[s]]
  /\ gc' = NoGc
  /\ UNCHANGED <<latest, zip, src, cgcache, eng, pack, obj, rel, rec, bjob, budget>>

(* the hub is closed or dies: the build ends where it is                     *)
BuildDies ==
  /\ bjob.pc # "idle" /\ budget.crashes < MaxCrashes
  /\ budget' = [budget EXCEPT !.crashes = @ + 1]
  /\ Stop
  /\ UNCHANGED <<latest, zip, src, cgcache, eng, sdk, pack, obj, rel, rec, gc>>

-----------------------------------------------------------------------------
BuildStep ==
  \/ ReuseSource \/ Extract \/ BadZip \/ SyncCopy \/ SyncPrune \/ EngineCopy \/ MarkSource
  \/ UsePack \/ FetchPack \/ PlacePack \/ \E h \in BOOLEAN : HarvestPack(h)
  \/ ReuseSdk \/ HarvestCli \/ HarvestEmitters \/ HarvestProfiles
  \/ CheckBios \/ SkipGenerate \/ RestoreCache \/ GenerateBegins \/ GenerateEnds
  \/ GenerateFails \/ SdkGone \/ StampBios \/ CacheCopy \/ StampCache \/ StampSource
  \/ Compile \/ CompileFails \/ Stage \/ Record \/ \E c \in BOOLEAN : PruneBuild(c)

BuildNext ==
  \/ \E t \in Ports : Publish(t)
  \/ \E t \in Ports, rom \in Roms, online \in BOOLEAN :
       \/ InstallTitle(t, rom, online) \/ UpdateTitle(t, rom, online)
       \/ RebuildTitle(t, rom, online)
       \/ \E force \in BOOLEAN : BuildTitle(t, rom, force, online)
  \/ BuildStep
  \/ GcLooks \/ GcRemoves \/ BuildDies

BuildSpec == BuildInit /\ [][BuildNext]_bpVars

-----------------------------------------------------------------------------
Binaries == [files : SUBSET Tags, c : SUBSET Inputs,
             bios : SUBSET SUBSET Revs, run : SUBSET Revs]

(* The types, and: a stamp on BIOS C says who wrote it, and the cache's stamp *)
(* is never on an empty cache (build.cpp:1160 and 1405).                      *)
BuildTypeOK ==
  /\ \A t \in Ports : /\ src[t].files \subseteq Tags /\ src[t].marker \in 0 .. MaxTag
                       /\ src[t].c \subseteq Inputs /\ src[t].stamp \in Stamps
                       /\ src[t].link \in Revs \cup {0}
                       /\ cgcache[t].stamp \in Stamps
                       /\ cgcache[t].stamp # NoStamp => cgcache[t].c # {}
                       /\ obj[t] \in Binaries /\ rel[t] \in Binaries
  /\ \A d \in Revs : eng[d].bstamp # {} /\ eng[d].bios # {} => eng[d].bios = {eng[d].bstamp}
  /\ bjob.pc \in Phases

(* An installed build was compiled from the files of one release, and         *)
(* install.json never names a newer one: a sync that was cut is done again    *)
(* before its tree is compiled (build.cpp:4024 and 4013).                     *)
OneRelease ==
  \A t \in Ports : rel[t] # NoBinary =>
    \E n \in Tags : rel[t].files = {n} /\ rec[t] <= n

(* A slot is named by the tag alone and a directory by the key file, so that  *)
(* releases with different engine commits may share one.                      *)
SharesWith(t, n, u, m) ==
  SlotOf[u][m] = SlotOf[t][n] \/ ContentId(EngineOf[u][m]) = ContentId(EngineOf[t][n])
Unshared(t, n) ==
  \A u \in Ports, m \in Tags : SharesWith(t, n, u, m) => EngineOf[u][m] = EngineOf[t][n]

(* In the build of a release whose slot and directory no other engine's       *)
(* release shares, the BIOS C was written by the emitters of the engine it is *)
(* linked against: through updates, restored caches, failed generates,        *)
(* crashes, and builds of releases that do share them. Of those nothing is    *)
(* said: a filled slot is used whoever filled it (build.cpp:1140, 4422-4446   *)
(* and 4500).                                                                 *)
BiosFitsRuntime ==
  HasBios => \A t \in Ports :
    rel[t] # NoBinary /\ (\A n \in rel[t].files : Unshared(t, n)) => rel[t].bios = {rel[t].run}
=============================================================================
