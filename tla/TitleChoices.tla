---------------------------- MODULE TitleChoices ----------------------------
(***************************************************************************)
(* What the player chose for one title and what its game finds when Play   *)
(* starts it (launch.cpp, hub_model.cpp, texture_packs.cpp, platform/).    *)
(* The window's thread edits state.json and the game's own files while the *)
(* launch worker reads and rewrites the same ones, one call at a time; a   *)
(* write in place that fails leaves the file as it was or empty.  A match   *)
(* of a room launches the title too, on the window's own thread.  Left     *)
(* out: `launch --mode direct` of another process, and a room's questions  *)
(* to the game, which launch it beside the window.                         *)
(***************************************************************************)
EXTENDS Integers, Sequences

CONSTANTS Discs,      \* the discs of the set, 1 the boot disc
          Packs,      \* names a texture pack can have
          MaxChoices, \* bound: what the player presses
          MaxFailed   \* bound: writes and removals that fail

ASSUME ChoicesAssumption == 1 \in Discs

VARIABLES kind,    \* a disc title or a cartridge
          choice,  \* state.json: disc, pack, BIOS, left out of the defaults
          toml,    \* the game's own settings.toml (a cartridge's config.ini)
          seed,    \* disc.cfg or rom.cfg, 0 for nothing of ours
          bcfg,    \* bios.cfg
          sidecar, \* library.<ext> beside a cartridge's binary
          packs,   \* texture packs on disk
          page,    \* what the window shows and has in hand
          lw,      \* the launch worker
          game,    \* the game started last
          gone,    \* images no longer where the library's index has them
          chosen, failed

tcVars == <<kind, gone, choice, toml, seed, bcfg, sidecar, packs, page, lw, game, chosen, failed>>

Blank == [disc |-> 0, at |-> 0, bios |-> "none", skip |-> FALSE, pack |-> "none",
          prefs |-> FALSE, own |-> FALSE]
NoWorker == [at |-> "idle", media |-> 0, shown |-> 0, skip |-> FALSE, bios |-> "none",
             direct |-> FALSE, pack |-> "none", held |-> <<>>, body |-> Blank, turned |-> FALSE,
             match |-> FALSE, stale |-> FALSE]
NoPage == [disc |-> 0, pack |-> "none", list |-> {}, edit |-> <<>>, import |-> "none"]

ChoicesInit ==
    /\ kind \in {"disc", "cart"} /\ failed = 0 /\ chosen = 0 /\ gone = {}
    /\ choice = [disc |-> 0, pack |-> "none", bios |-> "dump", out |-> FALSE]
    /\ toml = [Blank EXCEPT !.own = TRUE] /\ seed = 0 /\ bcfg = "none"
    /\ sidecar \in IF kind = "cart" THEN {"none", "copy"} ELSE {"none"}
    /\ packs = [p \in Packs |-> "none"]
    /\ page = [NoPage EXCEPT !.disc = 1] /\ lw = NoWorker
    /\ game = [on |-> FALSE, media |-> 0, runs |-> 0]

-----------------------------------------------------------------------------
(* A write in place truncates first; one that goes through a temporary     *)
(* file and fails its second rename has removed the old file.              *)
Wrote(old, new, empty) ==
    {<<TRUE, new>>}
    \cup IF failed < MaxFailed THEN {<<FALSE, old>>, <<FALSE, empty>>} ELSE {}
Tally(ok) == failed' = IF ok THEN failed ELSE failed + 1
Launching == lw.at # "idle"
(* A room's copy of the launch waits for the match; the match's launch     *)
(* holds the window's thread to its end.                                   *)
InRoom == lw.at = "room"
Free == lw.match => InRoom
Press == /\ chosen < MaxChoices /\ chosen' = chosen + 1 /\ Free
         /\ page.edit = <<>> /\ page.import = "none"

(* What the row shows: the install's disc, else the one remembered, of the *)
(* discs the index lists.                                                  *)
RowDisc(t, c) ==
    LET want == IF t.disc # 0 THEN t.disc ELSE c.disc IN IF want \in Discs THEN want ELSE 1
(* What Play boots: the disc remembered if its image is there, else the    *)
(* boot disc.                                                              *)
PlayMedia == IF kind = "disc" /\ choice.disc \notin {0} \cup gone THEN choice.disc ELSE 1
ImageGoes(d) ==
    /\ kind = "disc" /\ d \notin gone \cup {1} /\ failed < MaxFailed /\ Tally(FALSE)
    /\ gone' = gone \cup {d}
    /\ UNCHANGED <<kind, choice, toml, seed, bcfg, sidecar, packs, page, lw, game, chosen>>

RefreshRow ==
    /\ Free /\ page.edit = <<>> /\ page.import = "none"
    /\ page' = [page EXCEPT !.disc = RowDisc(toml, choice), !.pack = choice.pack]
    /\ UNCHANGED <<kind, gone, choice, toml, seed, bcfg, sidecar, packs, lw, game, chosen, failed>>

(* Picking a disc saves it, then disc.cfg, then settings.toml's table.     *)
PickDisc(d) ==
    /\ kind = "disc" /\ Press /\ (Launching => InRoom)
    /\ choice' = [choice EXCEPT !.disc = d] /\ page' = [page EXCEPT !.disc = d]
    /\ \E s \in Wrote(seed, d, 0), t \in Wrote(toml, [toml EXCEPT !.disc = d, !.at = d], Blank) :
         /\ seed' = s[2] /\ toml' = t[2]
         /\ Tally(s[1] /\ t[1])
    /\ UNCHANGED <<kind, gone, bcfg, sidecar, packs, lw, game>>
PickBios ==
    /\ kind = "disc" /\ Press
    /\ choice' = [choice EXCEPT !.bios = IF @ = "dump" THEN "open" ELSE "dump"]
    /\ UNCHANGED <<kind, gone, toml, seed, bcfg, sidecar, packs, page, lw, game, failed>>
LeaveOut ==
    /\ Press /\ choice' = [choice EXCEPT !.out = ~@]
    /\ UNCHANGED <<kind, gone, toml, seed, bcfg, sidecar, packs, page, lw, game, failed>>

(* Skip Launcher reads the file, changes one line and renames over it: the *)
(* launch worker can have written in between.                              *)
SkipRead ==
    /\ Press
    /\ page' = [page EXCEPT !.edit = <<[toml EXCEPT !.skip = ~@]>>]
    /\ UNCHANGED <<kind, gone, choice, toml, seed, bcfg, sidecar, packs, lw, game, failed>>
SkipWritten ==
    /\ Free /\ page.edit # <<>>
    /\ \E w \in Wrote(toml, page.edit[1], Blank) : toml' = w[2] /\ Tally(w[1])
    /\ page' = [page EXCEPT !.edit = <<>>]
    /\ UNCHANGED <<kind, gone, choice, seed, bcfg, sidecar, packs, lw, game, chosen>>

-----------------------------------------------------------------------------
(* Texture packs.                                                          *)

Listing(on) == {p \in Packs : on[p] # "none"}
OpenPackList ==
    /\ Free /\ kind = "disc" /\ page.import = "none" /\ page.edit = <<>>
    /\ page.list # Listing(packs)
    /\ page' = [page EXCEPT !.list = Listing(packs)]
    /\ UNCHANGED <<kind, gone, choice, toml, seed, bcfg, sidecar, packs, lw, game, chosen, failed>>
UsePack(p) ==
    /\ p \in page.list /\ Press
    /\ LET now == IF page.pack = p THEN "none" ELSE p
       IN choice' = [choice EXCEPT !.pack = now] /\ page' = [page EXCEPT !.pack = now]
    /\ UNCHANGED <<kind, gone, toml, seed, bcfg, sidecar, packs, lw, game, failed>>
(* the copy starts in the pack's own folder, under a name not yet taken    *)
ImportStarts(p) ==
    /\ kind = "disc" /\ packs[p] = "none" /\ Press
    /\ packs' = [packs EXCEPT ![p] = "part"] /\ page' = [page EXCEPT !.import = p]
    /\ UNCHANGED <<kind, gone, choice, toml, seed, bcfg, sidecar, lw, game, failed>>
ImportEnds ==
    /\ Free /\ page.import # "none"
    /\ \E ok \in BOOLEAN :
         /\ ok \/ failed < MaxFailed
         /\ Tally(ok)
         /\ packs' = [packs EXCEPT ![page.import] = IF ok THEN "whole" ELSE "none"]
         /\ LET first == ok /\ choice.pack = "none"
            IN /\ choice' = IF first THEN [choice EXCEPT !.pack = page.import] ELSE choice
               /\ page' = [page EXCEPT !.import = "none", !.list = Listing(packs'),
                                       !.pack = IF first THEN page.import ELSE @]
    /\ UNCHANGED <<kind, gone, toml, seed, bcfg, sidecar, lw, game, chosen>>
RemovePack(p) ==
    /\ p \in page.list /\ Press
    /\ \E ok \in BOOLEAN :
         /\ ok \/ failed < MaxFailed
         /\ Tally(ok)
         /\ packs' = [packs EXCEPT ![p] = IF ok THEN "none" ELSE "part"]
         /\ LET clear == ok /\ choice.pack = p
            IN /\ choice' = IF clear THEN [choice EXCEPT !.pack = "none"] ELSE choice
               /\ page' = [page EXCEPT !.list = IF ok THEN Listing(packs') ELSE @,
                                       !.pack = IF clear THEN "none" ELSE @]
    /\ UNCHANGED <<kind, gone, toml, seed, bcfg, sidecar, lw, game>>

-----------------------------------------------------------------------------
(* Play: the worker's calls, in order.                                     *)

Play ==
    /\ Press /\ ~Launching
    /\ lw' = [NoWorker EXCEPT !.at = "media", !.shown = page.disc]
    /\ UNCHANGED <<kind, gone, choice, toml, seed, bcfg, sidecar, packs, page, game, failed>>
(* Entering a room reads what Play would; the match's start launches that. *)
EnterRoom ==
    /\ Press /\ ~Launching
    /\ lw' = [NoWorker EXCEPT !.at = "room", !.match = TRUE, !.shown = page.disc,
                              !.media = PlayMedia, !.bios = choice.bios]
    /\ UNCHANGED <<kind, gone, choice, toml, seed, bcfg, sidecar, packs, page, game, failed>>
MatchStarts ==
    /\ InRoom /\ page.edit = <<>>
    /\ lw' = [lw EXCEPT !.at = "plan", !.turned = FALSE]
    /\ UNCHANGED <<kind, gone, choice, toml, seed, bcfg, sidecar, packs, page, game, chosen,
                   failed>>
LeaveRoom ==
    /\ InRoom /\ lw' = NoWorker
    /\ UNCHANGED <<kind, gone, choice, toml, seed, bcfg, sidecar, packs, page, game, chosen,
                   failed>>
(* the disc is read first; making sure of a save then holds state.json     *)
ReadMedia ==
    /\ lw.at = "media"
    /\ lw' = [lw EXCEPT !.at = "saves", !.media = PlayMedia, !.held = <<choice>>]
    /\ UNCHANGED <<kind, gone, choice, toml, seed, bcfg, sidecar, packs, page, game, chosen,
                   failed>>
(* a save chosen for the first time writes back the whole file it read     *)
EnsureSave ==
    /\ lw.at = "saves"
    /\ choice' \in {choice, lw.held[1]}
    /\ lw' = [lw EXCEPT !.at = "plan", !.held = <<>>, !.bios = choice'.bios]
    /\ UNCHANGED <<kind, gone, toml, seed, bcfg, sidecar, packs, page, game, chosen, failed>>
Plan ==
    /\ lw.at = "plan"
    /\ lw' = [lw EXCEPT !.at = "sidecar", !.skip = toml.skip, 
                        !.direct = (kind = "cart" /\ toml.skip /\ ~lw.match)]
    /\ UNCHANGED <<kind, gone, choice, toml, seed, bcfg, sidecar, packs, page, game, chosen,
                   failed>>
(* a cartridge's ROM is linked beside the binary, or an old copy dropped   *)
StageRom ==
    /\ lw.at = "sidecar" /\ lw' = [lw EXCEPT !.at = "bios"]
    /\ IF kind = "disc" THEN UNCHANGED <<sidecar, failed>>
       ELSE \/ sidecar' = "link" /\ UNCHANGED failed
            \/ failed < MaxFailed /\ sidecar' = "none" /\ Tally(FALSE)
    /\ UNCHANGED <<kind, gone, choice, toml, seed, bcfg, packs, page, game, chosen>>
StageBios ==
    /\ lw.at = "bios" /\ lw' = [lw EXCEPT !.at = "seed"]
    /\ IF kind = "cart" THEN UNCHANGED <<bcfg, failed>>
       ELSE \E w \in Wrote(bcfg, lw.bios, "open") : bcfg' = w[2] /\ Tally(w[1])
    /\ UNCHANGED <<kind, gone, choice, toml, seed, sidecar, packs, page, game, chosen>>

(* disc.cfg must be written; without rom.cfg a cartridge boots by          *)
(* argument, or in a match goes on with the one there is.                  *)
SeedUnchecked(r) == [lw EXCEPT !.at = "settings"]
AfterSeed(r) ==
    IF r THEN [lw EXCEPT !.at = "settings"]
    ELSE IF kind = "cart"
         THEN [lw EXCEPT !.at = "settings", !.direct = @ \/ ~lw.match, !.stale = lw.match]
    ELSE NoWorker
StageSeed ==
    /\ lw.at = "seed"
    /\ \E w \in Wrote(seed, lw.media, 0) :
         seed' = w[2] /\ Tally(w[1]) /\ lw' = AfterSeed(w[1])
    /\ UNCHANGED <<kind, gone, choice, toml, bcfg, sidecar, packs, page, game, chosen>>

(* settings.toml: both tables are dropped, then the paths written          *)
ReadSettings ==
    /\ lw.at = "settings"
    /\ lw' = IF kind = "cart" THEN [lw EXCEPT !.at = IF choice.out THEN "spawn" ELSE "defaults"]
             ELSE [lw EXCEPT !.at = "upsert",
                             !.body = [toml EXCEPT !.disc = lw.media, !.at = 0, !.bios = lw.bios]]
    /\ UNCHANGED <<kind, gone, choice, toml, seed, bcfg, sidecar, packs, page, game, chosen,
                   failed>>
WriteSettings ==
    /\ lw.at = "upsert"
    /\ \E w \in Wrote(toml, lw.body, Blank) :
         /\ toml' = w[2] /\ Tally(w[1])
         /\ lw' = IF w[1] THEN [lw EXCEPT !.at = "pack", !.body = Blank] ELSE NoWorker
    /\ UNCHANGED <<kind, gone, choice, seed, bcfg, sidecar, packs, page, game, chosen>>
(* the pack is looked for, then named: it can go in between                *)
FindPack ==
    /\ lw.at = "pack"
    /\ lw' = [lw EXCEPT !.at = "textures",
                        !.pack = IF choice.pack \in Listing(packs) THEN choice.pack ELSE "none"]
    /\ UNCHANGED <<kind, gone, choice, toml, seed, bcfg, sidecar, packs, page, game, chosen,
                   failed>>
ApplyPack ==
    /\ lw.at = "textures"
    /\ \E w \in Wrote(toml, [toml EXCEPT !.pack = lw.pack], Blank) :
         toml' = w[2] /\ Tally(w[1])
    /\ lw' = [lw EXCEPT !.at = IF choice.out THEN "spawn" ELSE "defaults"]
    /\ UNCHANGED <<kind, gone, choice, seed, bcfg, sidecar, packs, page, game, chosen>>
ApplyDefaults ==
    /\ lw.at = "defaults"
    /\ \E w \in Wrote(toml, [toml EXCEPT !.prefs = TRUE], Blank) :
         toml' = w[2] /\ Tally(w[1])
    /\ lw' = [lw EXCEPT !.at = "spawn"]
    /\ UNCHANGED <<kind, gone, choice, seed, bcfg, sidecar, packs, page, game, chosen>>

(* settings.toml outranks disc.cfg; an argument outranks rom.cfg           *)
Booted == IF kind = "disc" THEN IF toml.disc # 0 THEN toml.disc ELSE seed
          ELSE IF lw.direct THEN lw.media ELSE seed
Spawn ==
    /\ lw.at = "spawn" /\ lw' = NoWorker
    /\ game' = [on |-> TRUE, media |-> Booted, runs |-> game.runs + 1]
    /\ UNCHANGED <<kind, gone, choice, toml, seed, bcfg, sidecar, packs, page, chosen, failed>>

(* the player changes discs inside the game, which remembers it, at any    *)
(* time: Play does not wait for a game that still runs                     *)
GameTurnsDisc(d) ==
    /\ game.on /\ kind = "disc" /\ d # game.media
    /\ lw' = [lw EXCEPT !.turned = Launching]
    /\ toml' = [toml EXCEPT !.disc = d, !.at = d] /\ seed' = d
    /\ game' = [game EXCEPT !.media = d]
    /\ UNCHANGED <<kind, gone, choice, bcfg, sidecar, packs, page, chosen, failed>>
GameEnds ==
    /\ game.on /\ game' = [game EXCEPT !.on = FALSE]
    /\ UNCHANGED <<kind, gone, choice, toml, seed, bcfg, sidecar, packs, page, lw, chosen, failed>>
HubDies ==
    /\ failed < MaxFailed /\ Tally(FALSE) /\ (Launching \/ page.import # "none")
    /\ lw' = NoWorker
    /\ page' = [NoPage EXCEPT !.disc = RowDisc(toml, choice), !.pack = choice.pack]
    /\ UNCHANGED <<kind, gone, choice, toml, seed, bcfg, sidecar, packs, game, chosen>>

ChoicesNext ==
    \/ RefreshRow \/ PickBios \/ LeaveOut \/ SkipRead \/ SkipWritten \/ OpenPackList
    \/ ImportEnds \/ Play \/ EnterRoom \/ MatchStarts \/ LeaveRoom \/ ReadMedia \/ EnsureSave
    \/ Plan \/ StageRom \/ StageBios
    \/ StageSeed \/ ReadSettings \/ WriteSettings \/ FindPack \/ ApplyPack \/ ApplyDefaults
    \/ Spawn \/ GameEnds \/ HubDies
    \/ \E d \in Discs : PickDisc(d) \/ GameTurnsDisc(d) \/ ImageGoes(d)
    \/ \E p \in Packs : UsePack(p) \/ ImportStarts(p) \/ RemovePack(p)
ChoicesSpec == ChoicesInit /\ [][ChoicesNext]_tcVars

-----------------------------------------------------------------------------
(* Types: what each file can hold.                                         *)
ChoicesTypeOK ==
    /\ choice.disc \in Discs \cup {0} /\ choice.pack \in Packs \cup {"none"}
    /\ toml.disc \in Discs \cup {0} /\ toml.pack \in Packs \cup {"none"}
    /\ seed \in Discs \cup {0} /\ bcfg \in {"none", "dump", "open"}
    /\ sidecar \in {"none", "link", "copy"} /\ page.list \subseteq Packs
    /\ \A p \in Packs : packs[p] \in {"none", "part", "whole"}

(* A game never starts beside a disc.cfg or rom.cfg of another disc or     *)
(* file than the one Play or its room had chosen, unless its ROM is an     *)
(* argument or a game still running turned its disc meanwhile: the launch  *)
(* gives up, or boots directly, when that write fails (launch.cpp:1273).   *)
(* A cartridge's match whose rom.cfg could not be written is not meant: it *)
(* goes on with the one there is (launch.cpp:1297).                        *)
StartsAsChosen ==
    [][game'.runs > game.runs =>
         \/ seed = lw.media \/ lw.turned
         \/ kind = "cart" /\ (lw.direct \/ lw.stale)]_tcVars

(* Play boots the disc the page shows: "What the install is actually set   *)
(* to wins over our own memory: the player may have changed discs inside   *)
(* the game" (hub_model.cpp:657).  A game that turns its disc while Play    *)
(* works, and a room's match, are not meant.                               *)
ShownDiscBoots ==
    [][game'.runs > game.runs /\ kind = "disc" /\ ~lw.turned /\ ~lw.match
         => game'.media = lw.shown]_tcVars
=============================================================================
