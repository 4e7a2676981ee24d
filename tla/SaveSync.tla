------------------------------ MODULE SaveSync ------------------------------
(***************************************************************************)
(* The saves of one title (romm_saves.cpp, hub_model.cpp): promoted from   *)
(* the install into the title's folder of the save library, chosen, bound  *)
(* to the game, and synced with RomM.  A save is a file of a name; the     *)
(* slot is save.srm, the one name games with a fixed path open.            *)
(***************************************************************************)
EXTENDS Integers, FiniteSets

CONSTANTS Romm,       \* is a RomM server configured
          Emulators,  \* do other programs save in the platform's folder
          CopyFails,  \* may a copy fail half-way
          Bridges,    \* how a slot is made: "link", "hard" or "copy"
          MaxPlays,   \* bound: progress saved
          MaxClock,   \* bound: the clock
          MaxChores,  \* bound: imports, renames, updates, syncs
          MaxNoise,   \* bound: what makes the title's story not quiet
          LateUpdates \* bound: are there updates after that

ASSUME SaveSyncAssumption ==
    /\ Bridges \subseteq {"link", "hard", "copy"}
    /\ MaxPlays \in Nat /\ MaxClock \in Nat \ {0}

Stems == {"rom", "title"}   \* named after the ROM, and after the title
Slot == "slot"
Second(n) == CASE n = "rom" -> "rom-2" [] n = "title" -> "title-2" [] OTHER -> "slot-2"
Third(n) == CASE n = "rom" -> "rom-3" [] n = "title" -> "title-3" [] OTHER -> "slot-3"
Names == Stems \union {Slot} \union {Second(n) : n \in Stems} \union {Third(n) : n \in Stems}
NoName == "none"
None == <<>>                \* no file
Cut == -1                   \* what a copy that failed leaves
File(v, t) == [v |-> v, t |-> t]
Time(f) == IF f = None THEN 0 ELSE f.t
NoSlot == [is |-> "none", to |-> NoName, file |-> None]

VARIABLES now,
          lib,        \* the title's folder of the library
          alias,      \* what its slot is a symlink to
          slot,       \* save.srm of the install
          preserved,  \* its copy in preserved/
          flat,       \* a save named after the ROM in the platform's folder
          remote,     \* on RomM: the upload's time, not the save's
          pref,       \* state.json: the save the title uses
          installed,
          open,       \* what the running game writes: a save, "install" (the slot), or none
          chosen,     \* the save it was started with
          sync,       \* the sync the worker is in
          plays,      \* how often progress was saved
          last,       \* the newest progress, 0 once the user gave it up
          chores,
          noise       \* how often a second save was made or chosen, a sync and a
                      \*   game or the picker overlapped, another device or
                      \*   another program wrote a save, or one was renamed
                      \*   while a copy or another save bore its old name or
                      \*   its new one

ssVars == <<now, lib, alias, slot, preserved, flat, remote, pref, installed, open, chosen,
            sync, plays, last, chores, noise>>

NoSync == [at |-> "idle", local |-> [n \in Names |-> None],
           listed |-> [n \in Names |-> None], todo |-> {}]
SaveSyncInit ==
    /\ now = 1 /\ lib = [n \in Names |-> None] /\ alias = NoName /\ slot = NoSlot
    /\ preserved = None /\ flat = None /\ remote = [n \in Names |-> None]
    /\ pref = NoName /\ installed = TRUE /\ open = NoName /\ chosen = NoName /\ sync = NoSync
    /\ plays = 0 /\ last = 0 /\ chores = 0 /\ noise = 0

(* The user's chores come before what is noisy, but for late updates.      *)
Counted == chores < MaxChores /\ chores' = chores + 1
Chore == noise = 0 /\ Counted
Noisy == noise < MaxNoise /\ chores < MaxChores /\ noise' = noise + 1
Quiet == UNCHANGED noise
Apart == IF sync.at = "idle" THEN Quiet ELSE Noisy
Tick ==
    /\ Quiet
    /\ now < MaxClock /\ now' = now + 1
    /\ UNCHANGED <<lib, alias, slot, preserved, flat, remote, pref, installed, open, chosen,
                   sync, plays, last, chores>>

(* What a path of the library's folder reads as, links followed.           *)
Reads(l, a, n) == IF n = Slot /\ a # NoName THEN l[a] ELSE l[n]
Taken(l, a, n) == Reads(l, a, n) # None
Managed(l, n) == l[n] # None

(***************************************************************************)
(* Promotion: from the install and the platform's folder to the library.   *)
(***************************************************************************)
FreeName(l, n) == IF l[Second(n)] = None THEN Second(n) ELSE Third(n)
Room(l, n) == l[FreeName(l, n)] = None   \* the names go no further here
(* A file goes to its name; over an older one; beside a newer one.         *)
NotOlder(src, dest) == src.t >= dest.t
Target(l, n, src) ==
    IF l[n] = None \/ NotOlder(src, l[n]) THEN n ELSE FreeName(l, n)
(* The library with src promoted, and whether src may go: it stays when    *)
(* the copy failed.                                                        *)
Copied(l, n, src) ==
    IF l[n] # None /\ l[n].v = src.v THEN {<<l, TRUE>>}
    ELSE LET d == Target(l, n, src)
             to == {<<[l EXCEPT ![d] = File(src.v, now)], TRUE>>}
                   \union IF CopyFails THEN {<<[l EXCEPT ![d] = File(Cut, now)], FALSE>>} ELSE {}
         IN IF d = n \/ Room(l, n) THEN to ELSE {}

(* A save in the platform's folder is moved in; when one of its name and   *)
(* its size is there, it is taken for moved already.                       *)
Migrated(l) ==
    IF flat = None THEN {<<l, None>>}
    ELSE IF l["rom"] = None THEN {<<[l EXCEPT !["rom"] = flat], None>>}
    ELSE {<<l, None>>} \union
         IF Room(l, "rom") THEN {<<[l EXCEPT ![FreeName(l, "rom")] = flat], None>>} ELSE {}

(* The slot is promoted under the stem unless it is a symlink; one that    *)
(* leads nowhere goes.                                                     *)
PromotedFrom(stem, s) ==
    UNION {IF s.is \in {"hard", "file"}
           THEN {[lib |-> c[1], flat |-> m[2], slot |-> IF c[2] THEN NoSlot ELSE s] :
                    c \in Copied(m[1], stem, s.file)}
           ELSE {[lib |-> m[1], flat |-> m[2],
                  slot |-> IF s.is = "link" /\ ~Taken(m[1], alias, s.to) THEN NoSlot ELSE s]} :
           m \in Migrated(lib)}
Promoted(stem) == PromotedFrom(stem, slot)

(***************************************************************************)
(* Binding: the chosen save becomes what the game opens.                   *)
(***************************************************************************)
Bridged(n, l, a, how) ==
    LET f == Reads(l, a, n)
    IN CASE how = "link" -> [is |-> "link", to |-> n, file |-> None]
         [] how = "hard" -> [is |-> "hard", to |-> n, file |-> f]
         [] how = "copy" -> [is |-> "file", to |-> n, file |-> File(f.v, now)]
(* A slot that leads there already is left; else what is there goes.       *)
Activated(s, n, l, a, how) ==
    IF s.is \in {"link", "hard"} /\ s.to = n THEN s ELSE Bridged(n, l, a, how)
(* The library's folder has the same slot beside the save.                 *)
Aliased(l, a, n, how) ==
    IF n = Slot \/ a = n THEN <<l, a>>
    ELSE IF how = "link" THEN <<[l EXCEPT ![Slot] = None], n>>
    ELSE <<[l EXCEPT ![Slot] = File(l[n].v, now)], NoName>>
Bind(n, l, a, s) ==
    \E how \in Bridges :
        /\ slot' = Activated(s, n, l, a, how)
        /\ lib' = Aliased(l, a, n, how)[1] /\ alias' = Aliased(l, a, n, how)[2]

(* ensure_canonical_save: the preferred save, one named after the title or *)
(* its ROM, or a new one.                                                  *)
Ensured(l, a) ==
    IF pref # NoName /\ Taken(l, a, pref) THEN {<<pref, l, pref>>}
    ELSE LET named == {n \in Names \ {Slot} : Managed(l, n)}
             named1 == IF Managed(l, "rom") THEN {"rom"} ELSE named
         IN IF named # {}
            THEN {<<n, l, IF pref = NoName THEN n ELSE pref>> : n \in named1}
            ELSE {<<"rom", [l EXCEPT !["rom"] = File(0, now)], "rom">>}

Launch ==
    /\ installed /\ open = NoName /\ Apart
    /\ \E p \in Promoted("rom") : \E e \in Ensured(p.lib, alias) :
        /\ pref' = e[3] /\ chosen' = e[1] /\ flat' = p.flat
        /\ Bind(e[1], e[2], alias, p.slot)
        /\ open' \in {"install", e[1]}
    /\ UNCHANGED <<now, preserved, remote, installed, sync, plays, last, chores>>
(* The game saves: through the slot or in the library, where --save-path   *)
(* and [memcard] point; no sooner than a second after it was started.      *)
GameSaves ==
    /\ Apart
    /\ open # NoName /\ plays < MaxPlays /\ now < MaxClock /\ now' = now + 1
    /\ plays' = plays + 1 /\ last' = plays'
    /\ LET f == File(plays', now')
           n == CASE open = "install" -> slot.to
                  [] open = Slot /\ alias # NoName -> alias
                  [] OTHER -> open
       IN /\ lib' = IF open # "install" \/ slot.is \in {"link", "hard"}
                    THEN [lib EXCEPT ![n] = f] ELSE lib
          /\ slot' = IF slot.is = "hard" /\ slot.to = n THEN [slot EXCEPT !.file = f]
                     ELSE IF open = "install" /\ slot.is \in {"none", "file"}
                     THEN [slot EXCEPT !.is = "file", !.file = f] ELSE slot
    /\ UNCHANGED <<alias, preserved, flat, remote, pref, installed, open, chosen, sync, chores>>
GameEnds ==
    /\ Quiet
    /\ open # NoName /\ open' = NoName /\ chosen' = NoName
    /\ UNCHANGED <<now, lib, alias, slot, preserved, flat, remote, pref, installed, sync, plays,
                   last, chores>>
(* An emulator saves the same game in the platform's folder.               *)
PlayedElsewhere ==
    /\ Emulators /\ Noisy /\ plays < MaxPlays
    /\ plays' = plays + 1 /\ last' = plays' /\ flat' = File(plays', now)
    /\ UNCHANGED <<now, lib, alias, slot, preserved, remote, pref, installed, open, chosen, sync,
                   chores>>

(***************************************************************************)
(* The picker of the title's page                                          *)
(***************************************************************************)
Given(f) == f # None /\ f.v = last
Select(n) ==
    /\ Noisy /\ Managed(lib, n) /\ pref # n /\ pref' = n
    /\ UNCHANGED <<now, lib, alias, slot, preserved, flat, remote, installed, open, chosen, sync,
                   plays, last,
                   chores>>
(* A hard link or a running game keeps the bytes of what is removed.       *)
Unlinked(n) == IF slot.is = "hard" /\ slot.to = n THEN [slot EXCEPT !.is = "file"] ELSE slot
DeleteSave(n) ==
    /\ Chore /\ Apart /\ open = NoName /\ Managed(lib, n)
    /\ lib' = [lib EXCEPT ![n] = None] /\ slot' = Unlinked(n)
    /\ pref' = IF pref = n THEN NoName ELSE pref
    /\ last' = IF Given(lib[n]) THEN 0 ELSE last
    /\ UNCHANGED <<now, alias, preserved, flat, remote, installed, open, chosen, sync, plays>>
(* Nothing follows a rename but the title's choice: what is in preserved/   *)
(* stays, and on RomM and in the slot's link the name is another save's.   *)
LeftBehind(m) ==
    \/ preserved # None \/ remote[m] # None
    \/ slot.is = "link" /\ slot.to = m
RenameSave(n, m) ==
    /\ Chore /\ open = NoName /\ Managed(lib, n) /\ ~Taken(lib, alias, m)
    /\ IF m = Slot \/ LeftBehind(m) THEN Noisy ELSE Apart
    /\ lib' = [lib EXCEPT ![n] = None, ![m] = lib[n]]
    /\ slot' = Unlinked(n) /\ pref' = IF pref = n THEN m ELSE pref
    /\ UNCHANGED <<now, alias, preserved, flat, remote, installed, open, chosen, sync, plays, last>>
CreateSave ==
    /\ Chore /\ Noisy /\ sync.at = "idle"
    /\ \E p \in Promoted("rom") :
         LET n == IF p.lib["rom"] = None THEN "rom" ELSE FreeName(p.lib, "rom")
         IN /\ p.lib[n] = None
            /\ lib' = [p.lib EXCEPT ![n] = File(0, now)] /\ pref' = n
            /\ slot' = p.slot /\ flat' = p.flat
    /\ UNCHANGED <<now, alias, preserved, remote, installed, open, chosen, sync, plays, last>>
(* An import writes over a save of its name, through a link.               *)
ImportSave(n) ==
    /\ Chore /\ Noisy /\ open = NoName
    /\ LET d == IF n = Slot /\ alias # NoName THEN alias ELSE n
       IN /\ lib' = [lib EXCEPT ![d] = File(0, now)]
          /\ last' = IF Given(lib[d]) THEN 0 ELSE last
          /\ slot' = Unlinked(d)
    /\ pref' = n
    /\ UNCHANGED <<now, alias, preserved, flat, remote, installed, open, chosen, sync, plays>>
(* A refresh of the library page chooses for a title that has no choice.   *)
RefreshRows ==
    /\ Quiet
    /\ pref = NoName /\ \E n \in Names : Managed(lib, n) /\ pref' = n
    /\ UNCHANGED <<now, lib, alias, slot, preserved, flat, remote, installed, open, chosen, sync,
                   plays, last, chores>>

(***************************************************************************)
(* What installs and scans do to the slot: it copies what the slot reads   *)
(* as to preserved/, and from there to the next release.  Nothing empties   *)
(* preserved/ first: when the slot holds no save, because it is gone or    *)
(* leads to a save that was renamed, what an update restores is the copy   *)
(* of the update before.                                                   *)
(***************************************************************************)
SlotReads == CASE slot.is = "none" -> None
               [] slot.is = "link" -> Reads(lib, alias, slot.to)
               [] OTHER -> slot.file
Stashed == IF SlotReads = None THEN preserved ELSE File(SlotReads.v, now)
Restored(p) == IF p = None THEN NoSlot ELSE [is |-> "file", to |-> NoName, file |-> File(p.v, now)]
Update ==
    /\ Quiet
    /\ Counted /\ (noise = 0 \/ LateUpdates) /\ installed /\ sync.at = "idle" /\ open = NoName
    /\ preserved' = Stashed /\ slot' = Restored(Stashed)
    /\ UNCHANGED <<now, lib, alias, flat, remote, pref, installed, open, chosen, sync, plays, last>>
Uninstall ==
    /\ Quiet
    /\ Chore /\ installed /\ sync.at = "idle" /\ open = NoName
    /\ preserved' = IF SlotReads = None THEN None ELSE Stashed
    /\ slot' = NoSlot /\ installed' = FALSE
    /\ UNCHANGED <<now, lib, alias, flat, remote, pref, open, chosen, sync, plays, last>>
Install ==
    /\ Quiet
    /\ ~installed /\ sync.at = "idle" /\ installed' = TRUE
    /\ \E p \in PromotedFrom("rom", Restored(preserved)) : \E e \in Ensured(p.lib, alias) :
        lib' = e[2] /\ pref' = e[3] /\ slot' = p.slot /\ flat' = p.flat
    /\ UNCHANGED <<now, alias, preserved, remote, open, chosen, sync, plays, last, chores>>
(* A scan promotes what it finds.                                          *)
ScanSaves ==
    /\ Quiet /\ sync.at = "idle"
    /\ \E p \in Promoted("rom") : lib' = p.lib /\ slot' = p.slot /\ flat' = p.flat
    /\ UNCHANGED <<now, alias, preserved, remote, pref, installed, open, chosen, sync, plays,
                   last, chores>>

(***************************************************************************)
(* RomM sync: lists both sides once, then save by save; the first that     *)
(* fails ends it.                                                          *)
(***************************************************************************)
SyncBegins ==
    /\ Chore /\ Romm /\ installed /\ sync.at = "idle"
    /\ IF open = NoName THEN Quiet ELSE Noisy
    /\ \E p \in Promoted("title") :
        /\ lib' = p.lib /\ slot' = p.slot /\ flat' = p.flat
        /\ LET here == [n \in Names |-> Reads(p.lib, alias, n)]
           IN sync' = [at |-> "saves", local |-> here, listed |-> remote,
                       todo |-> {n \in Names : here[n] # None \/ remote[n] # None}]
    /\ UNCHANGED <<now, alias, preserved, remote, pref, installed, open, chosen, plays, last>>

Done(n) == sync' = [sync EXCEPT !.todo = @ \ {n}]
Same(n) == sync.local[n] # None /\ sync.listed[n] # None /\ sync.local[n].v = sync.listed[n].v
(* The save's own time against the time of the upload.                     *)
(* Mutant of KeepsLocal. *)
KeepsLocalNever(n) == sync.listed[n] = None
KeepsLocal(n) == Time(sync.local[n]) >= Time(sync.listed[n])
Skip(n) == Same(n) /\ Done(n) /\ UNCHANGED <<lib, alias, slot, remote, pref>>
Upload(n) ==
    /\ ~Same(n) /\ KeepsLocal(n) /\ Taken(lib, alias, n)
    /\ remote' = [remote EXCEPT ![n] = File(Reads(lib, alias, n).v, now)]
    /\ Done(n) /\ UNCHANGED <<lib, alias, slot, pref>>
Download(n) ==
    /\ ~Same(n) /\ ~KeepsLocal(n)
    /\ lib' = [lib EXCEPT ![n] = File(remote[n].v, now)]
    /\ alias' = IF n = Slot THEN NoName ELSE alias
    /\ slot' = Unlinked(n)
    /\ pref' = IF pref = NoName THEN n ELSE pref
    /\ Done(n) /\ UNCHANGED remote
SyncOne(n) ==
    /\ Quiet
    /\ sync.at = "saves" /\ n \in sync.todo
    /\ sync.local[n] # None \/ \A m \in sync.todo : sync.local[m] = None
    /\ Skip(n) \/ Upload(n) \/ Download(n)
    /\ UNCHANGED <<now, preserved, flat, installed, open, chosen, plays, last, chores>>
SyncFails ==
    /\ Quiet
    /\ sync.at = "saves" /\ sync.todo # {} /\ sync' = NoSync
    /\ UNCHANGED <<now, lib, alias, slot, preserved, flat, remote, pref, installed, open, chosen,
                   plays, last, chores>>
(* The preferred save is bound anew, or whichever there is.                *)
SyncEnds ==
    /\ Quiet
    /\ sync.at = "saves" /\ sync.todo = {} /\ sync' = NoSync
    /\ LET here == {n \in Names : Taken(lib, alias, n)}
           of == IF pref \in here THEN {pref} ELSE here
       IN IF of = {} THEN UNCHANGED <<lib, alias, slot>>
          ELSE \E n \in of : Bind(n, lib, alias, slot)
    /\ UNCHANGED <<now, preserved, flat, remote, pref, installed, open, chosen, plays, last, chores>>

(* Another device uploads what it saved now, or some time ago.             *)
OtherUploads(n) ==
    /\ Romm /\ Noisy /\ plays < MaxPlays /\ plays' = plays + 1
    /\ \E v \in {0, plays'} :
        /\ remote' = [remote EXCEPT ![n] = File(v, now)]
        /\ last' = IF v = 0 THEN last ELSE v
    /\ UNCHANGED <<now, lib, alias, slot, preserved, flat, pref, installed, open, chosen, sync,
                   chores>>

SaveSyncNext ==
    \/ Tick \/ Launch \/ GameSaves \/ GameEnds \/ PlayedElsewhere \/ CreateSave \/ RefreshRows
    \/ Update \/ Uninstall \/ Install \/ ScanSaves \/ SyncBegins \/ SyncFails \/ SyncEnds
    \/ \E n \in Names : Select(n) \/ DeleteSave(n) \/ ImportSave(n) \/ SyncOne(n) \/ OtherUploads(n)
    \/ \E n, m \in Names : RenameSave(n, m)
SaveSyncSpec == SaveSyncInit /\ [][SaveSyncNext]_ssVars

----------------------------------------------------------------------------
IsFile(f) == f = None \/ (f.v \in Cut..MaxPlays /\ f.t \in 1..MaxClock)
SaveSyncTypeOK ==
    /\ \A n \in Names : IsFile(lib[n]) /\ IsFile(remote[n])
    /\ alias \in Names \union {NoName} /\ slot.to \in Names \union {NoName}
    /\ slot.is \in {"none", "link", "hard", "file"} /\ IsFile(slot.file)
    /\ IsFile(preserved) /\ IsFile(flat) /\ pref \in Names \union {NoName}

Holds(f, v) == f # None /\ f.v = v
Somewhere(v) ==
    \/ \E n \in Names : Holds(lib[n], v) \/ Holds(remote[n], v)
    \/ Holds(slot.file, v) \/ Holds(preserved, v) \/ Holds(flat, v)
(* The newest progress is in the save the title uses until the user        *)
(* deletes it: whatever is promoted, bound, updated, reinstalled, synced,  *)
(* or fails half-way (romm_saves.cpp:1038-1097, 871-920, 631-690).  That   *)
(* is while noise = 0: until a second save comes up, a rename meets a copy *)
(* of either name, a sync overlaps a game, or another device or program    *)
(* writes a save; each of these may bring older progress back as new.      *)
ProgressKept == noise = 0 /\ last # 0 => pref # NoName /\ Holds(lib[pref], last)

(* README.md:95: "Saves and configs are preserved across app updates": so  *)
(* is the newest progress of a title, however many saves it has.           *)
SavesOutliveUpdates == last # 0 => Somewhere(last)
=============================================================================
