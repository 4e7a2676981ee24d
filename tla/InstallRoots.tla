----------------------------- MODULE InstallRoots -----------------------------
(***************************************************************************)
(* One title's folder under several install roots: Library Settings lists  *)
(* the roots, Install and Move choose one, and every other job works in    *)
(* the folder it finds (inspect_install_any).  What TitleInstall takes in  *)
(* its steps, an update or a removal inside one folder, is one step here;  *)
(* a move is not: it copies a folder piece by piece across devices, and    *)
(* removes the source the same way.                                        *)
(***************************************************************************)
EXTENDS Integers, Sequences, FiniteSets

CONSTANTS InRoots,    \* the apps folders there may be
          BuiltinApps,\* data_dir/apps, which is scanned whatever is listed
          NoRoot,
          Shapes,     \* what an install of the title may be
          MaxTag,     \* bound: releases of the title
          MaxSaves,   \* bound: times the game saves
          MaxMoveFaults, \* bound: crashes and failures
          MaxEdits    \* bound: changes of the settings and of the catalog

ASSUME RootsAssumption ==
    /\ IsFiniteSet(InRoots) /\ BuiltinApps \in InRoots /\ NoRoot \notin InRoots
    /\ Shapes \subseteq {"zip", "build", "appimage"} /\ Shapes # {}
    /\ MaxTag \in Nat \ {0} /\ MaxSaves \in Nat /\ MaxMoveFaults \in Nat /\ MaxEdits \in Nat

VARIABLES
    rootList,   \* cfg.install_roots
    rootDefault,\* cfg.default_install_root
    homes,      \* the title's folder in each root
    request,        \* the job that was confirmed and the root chosen for it
    mv,         \* the job at work
    owed,       \* history: the save the player may count on (0: none)
    saved,      \* history: how often the game saved
    tidy,       \* history: no move was cut off, no copy was left beside another
    inCatalog,  \* the catalog lists the title
    mvFaults, edits
irVars == <<rootList, rootDefault, homes, request, mv, owed, saved, tidy, inCatalog, mvFaults, edits>>

(* A folder: the release that is installed (its shape and tag go with      *)
(* install.json), and the save under releases/, appdata/ and preserved/.   *)
Pieces == {"game", "rel", "app", "kept"}
Folder == [game : Shapes \cup {"none"}, tag : 0 .. MaxTag,
           rel : 0 .. MaxSaves, app : 0 .. MaxSaves, kept : 0 .. MaxSaves]
Nothing == [game |-> "none", tag |-> 0, rel |-> 0, app |-> 0, kept |-> 0]
(* The folder d with the pieces P as they are in s.                        *)
Mix(d, s, P) == [game |-> IF "game" \in P THEN s.game ELSE d.game,
                 tag  |-> IF "game" \in P THEN s.tag ELSE d.tag,
                 rel  |-> IF "rel" \in P THEN s.rel ELSE d.rel,
                 app  |-> IF "app" \in P THEN s.app ELSE d.app,
                 kept |-> IF "kept" \in P THEN s.kept ELSE d.kept]
(* A folder with nothing but preserved/.                                   *)
StashOnly(v) == [Nothing EXCEPT !.kept = v]
HasPiece(d, p) == Mix(Nothing, d, {p}) # Nothing
HasGame(d) == d.game # "none"
Has(d, v) == d.rel >= v \/ d.app >= v \/ d.kept >= v
SafeIn(h, v) == \E r \in InRoots : Has(h[r], v)
(* An AppImage reads its own data folder, any other install its release.   *)
Reads(d) == IF d.game = "appimage" THEN d.app ELSE d.rel

-----------------------------------------------------------------------------
(* The roots, and the folder a job works in.                               *)
RootLists == {s \in UNION {[1 .. n -> InRoots] : n \in 0 .. Cardinality(InRoots)} :
                 \A i, j \in DOMAIN s : s[i] = s[j] => i = j}
Effective == IF rootList = <<>> THEN <<BuiltinApps>> ELSE rootList
Scanned == IF \E i \in DOMAIN Effective : Effective[i] = BuiltinApps
           THEN Effective ELSE <<BuiltinApps>> \o Effective
Rooted(s) == {s[i] : i \in DOMAIN s}
Preferred == IF rootDefault \in Rooted(Effective) THEN rootDefault ELSE Effective[1]
Turn(r) == CHOOSE i \in DOMAIN Scanned : Scanned[i] = r

(* prefer_installed; of two that tie, the one scanned first.               *)
Better(r, s) ==
    LET b(x) == IF homes[x].game = "build" THEN 1 ELSE 0
        p(x) == IF x = Preferred THEN 1 ELSE 0 IN
    \/ b(r) > b(s)
    \/ b(r) = b(s) /\ homes[r].tag > homes[s].tag
    \/ b(r) = b(s) /\ homes[r].tag = homes[s].tag /\ p(r) > p(s)
    \/ b(r) = b(s) /\ homes[r].tag = homes[s].tag /\ p(r) = p(s) /\ Turn(r) < Turn(s)
Picked ==
    LET partial == {r \in Rooted(Scanned) : homes[r] # Nothing}
        live == {r \in partial : HasGame(homes[r])} IN
    IF live # {} THEN CHOOSE r \in live : \A s \in live : ~Better(s, r)
    ELSE IF partial # {} THEN CHOOSE r \in partial : \A s \in partial : ~(Turn(s) < Turn(r))
    ELSE Preferred

-----------------------------------------------------------------------------
NoRequest == [job |-> "none", to |-> NoRoot]
Idle == [at |-> "idle", from |-> NoRoot, to |-> NoRoot, left |-> {}, again |-> FALSE, install |-> FALSE]
InMove == mv.at \in {"copy", "clear"}

InstallRootsTypeOK ==
    /\ rootList \in Seq(InRoots) /\ rootDefault \in InRoots \cup {NoRoot}
    /\ homes \in [InRoots -> Folder]
    /\ request \in {NoRequest} \cup [job : {"move", "install"}, to : InRoots]
    /\ mv \in [at : {"idle", "copy", "clear", "ready", "place"}, from : InRoots \cup {NoRoot},
               to : InRoots \cup {NoRoot}, left : SUBSET Pieces, again : BOOLEAN, install : BOOLEAN]
    /\ (mv.at # "idle" => mv.to \in InRoots) /\ (InMove => mv.from \in InRoots /\ mv.from # mv.to)
    /\ owed \in 0 .. MaxSaves /\ saved \in 0 .. MaxSaves /\ owed <= saved
    /\ tidy \in BOOLEAN /\ inCatalog \in BOOLEAN
    /\ mvFaults \in 0 .. MaxMoveFaults /\ edits \in 0 .. MaxEdits

InstallRootsInit ==
    /\ rootList \in RootLists /\ rootList # <<BuiltinApps>>
    /\ rootDefault \in Rooted(rootList) \cup {NoRoot}
    /\ homes = [r \in InRoots |-> Nothing]
    /\ request = NoRequest /\ mv = Idle
    /\ owed = 0 /\ saved = 0 /\ tidy = TRUE /\ inCatalog = TRUE
    /\ mvFaults = 0 /\ edits = 0

(* ---- settings and catalog --------------------------------------------- *)

(* save_settings: a lone builtin root is left implicit.  A root that still *)
(* holds the folder, or is to, may be taken off the list.                  *)
EditRoots(list, default) ==
    /\ edits < MaxEdits /\ edits' = edits + 1
    /\ default \in Rooted(list) \cup {NoRoot}
    /\ rootList' = IF list = <<BuiltinApps>> THEN <<>> ELSE list
    /\ rootDefault' = IF rootList' = <<>> THEN NoRoot ELSE default
    /\ tidy' = (tidy /\ \A r \in InRoots \ (Rooted(list) \cup {BuiltinApps}) :
                            homes[r] = Nothing /\ request.to # r /\ mv.to # r /\ mv.from # r)
    /\ UNCHANGED <<homes, request, mv, owed, saved, inCatalog, mvFaults>>
CatalogTurns ==
    /\ mv.at = "idle"
    /\ edits < MaxEdits /\ edits' = edits + 1
    /\ inCatalog' = ~inCatalog
    /\ UNCHANGED <<rootList, rootDefault, homes, request, mv, owed, saved, tidy, mvFaults>>

(* ---- the game --------------------------------------------------------- *)

(* Play is free while a job runs: what is saved then is not promised.      *)
PlayThere ==
    LET r == Picked
        new == [Nothing EXCEPT !.rel = saved + 1, !.app = saved + 1] IN
    /\ saved < MaxSaves /\ inCatalog /\ HasGame(homes[r])
    /\ saved' = saved + 1
    /\ homes' = [homes EXCEPT ![r] =
                   Mix(@, new, IF @.game = "appimage" THEN {"app"} ELSE {"rel"})]
    /\ owed' = IF InMove THEN owed ELSE saved + 1
    /\ tidy' = (tidy /\ ~InMove)
    /\ UNCHANGED <<rootList, rootDefault, request, mv, inCatalog, mvFaults, edits>>

(* ---- removal ---------------------------------------------------------- *)

(* What is owed after a job: as before if the job is sure to keep it, else *)
(* what is left of it.                                                     *)
Owed(h, sure) == IF sure \/ SafeIn(h, owed) THEN owed ELSE 0

(* uninstall_install_root: with keep_saves the old stash goes first, the   *)
(* new one is made from releases/ alone, and the rest goes.                *)
Removed(d, keep) == IF keep THEN StashOnly(d.rel) ELSE Nothing
RemoveFrom(S, keep) ==
    /\ homes' = [r \in InRoots |-> IF r \in S THEN Removed(homes[r], keep) ELSE homes[r]]
    /\ owed' = IF keep THEN Owed(homes', tidy /\ \A r \in S : homes[r].rel # 0) ELSE 0

Uninstall(keep) ==
    /\ mv.at = "idle" /\ inCatalog
    /\ homes[Picked] # Nothing
    /\ RemoveFrom({Picked}, keep)
    /\ UNCHANGED <<rootList, rootDefault, request, mv, saved, tidy, inCatalog, mvFaults, edits>>
(* cleanup_removed_catalog_titles                                          *)
CleanOrphans(keep) ==
    /\ mv.at = "idle" /\ ~inCatalog
    /\ \E r \in Rooted(Scanned) : homes[r] # Nothing
    /\ RemoveFrom({r \in Rooted(Scanned) : homes[r] # Nothing}, keep)
    /\ UNCHANGED <<rootList, rootDefault, request, mv, saved, tidy, inCatalog, mvFaults, edits>>
(* DeleteAllAppsAndSaves: every folder of every scanned root               *)
DeleteAll ==
    /\ mv.at = "idle"
    /\ \E r \in Rooted(Scanned) : homes[r] # Nothing
    /\ RemoveFrom(Rooted(Scanned), FALSE)
    /\ UNCHANGED <<rootList, rootDefault, request, mv, saved, tidy, inCatalog, mvFaults, edits>>

(* ---- install and update ----------------------------------------------- *)

(* stash_user_state_for_update: an AppImage's data folder; of any other    *)
(* install the releases, and over them a data folder from before.          *)
Stashed(d) ==
    IF d.app # 0 THEN d.app
    ELSE IF d.game # "appimage" /\ d.rel # 0 THEN d.rel
    ELSE d.kept
(* The new release in r's folder: the old ones are pruned, and what is in  *)
(* preserved/ is put where the new one reads it (restore_user_state).      *)
PlacedIn(d, shape, t) ==
    [game |-> shape, tag |-> t, kept |-> d.kept,
     rel |-> IF shape = "appimage" THEN 0 ELSE d.kept,
     app |-> IF shape = "appimage" /\ d.kept # 0 THEN d.kept ELSE d.app]
(* The stash is made in the folder inspect_install_any answers, whatever   *)
(* the root of the job.                                                    *)
PlaceIn(r, shape, t) ==
    LET from == Picked
        swept == [homes EXCEPT ![from] = Mix(@, StashOnly(Stashed(@)), {"kept"})] IN
    /\ \A s \in InRoots : homes[s].tag <= t
    /\ homes' = [swept EXCEPT ![r] = PlacedIn(@, shape, t)]
    /\ owed' = Owed(homes', /\ tidy /\ (from = r \/ homes[from] = Nothing)
                            /\ (homes[r].game = "appimage" \/ homes[r].app = 0))

(* update_title_auto: in the folder it finds                               *)
Update(shape, t) ==
    /\ mv.at = "idle" /\ inCatalog
    /\ HasGame(homes[Picked])
    /\ PlaceIn(Picked, shape, t)
    /\ UNCHANGED <<rootList, rootDefault, request, mv, saved, tidy, inCatalog, mvFaults, edits>>
(* retcomm install: in the default root, wherever the title is             *)
CliInstall(shape, t) ==
    /\ mv.at = "idle" /\ inCatalog
    /\ PlaceIn(Preferred, shape, t)
    /\ tidy' = (tidy /\ (homes[Picked] = Nothing \/ Picked = Preferred))
    /\ UNCHANGED <<rootList, rootDefault, request, mv, saved, inCatalog, mvFaults, edits>>

(* ---- the dialog and the job it starts --------------------------------- *)

(* confirm_install_root_and_continue: a row of the list as it is now.  A   *)
(* lone root is not asked for; Move needs two.  The job may have to wait   *)
(* for others (HubJobs).                                                   *)
Confirm(job, r) ==
    /\ request = NoRequest /\ mv.at = "idle" /\ inCatalog
    /\ r \in Rooted(Effective)
    /\ job = "move" => Len(Effective) > 1 /\ homes[Picked] # Nothing /\ r # Picked
    /\ job = "install" => ~HasGame(homes[Picked])
    /\ request' = [job |-> job, to |-> IF Len(Effective) = 1 /\ homes[Picked] # Nothing THEN Picked ELSE r]
    /\ UNCHANGED <<rootList, rootDefault, homes, mv, owed, saved, tidy, inCatalog, mvFaults, edits>>

Begins == mv.at = "idle" /\ request # NoRequest /\ request' = NoRequest
(* After a move: the job is done, or goes on to install.                   *)
Onward(m) == IF m.install THEN [Idle EXCEPT !.at = "ready", !.to = m.to] ELSE Idle

(* Nothing to move, or it is there already: an install goes on, as it does *)
(* when no folder is anywhere.                                             *)
NoMove ==
    /\ Begins
    /\ ~inCatalog \/ homes[Picked] = Nothing \/ Picked = request.to
    /\ mv' = IF inCatalog /\ request.job = "install" THEN [Idle EXCEPT !.at = "ready", !.to = request.to] ELSE Idle
    /\ UNCHANGED <<rootList, rootDefault, homes, owed, saved, tidy, inCatalog, mvFaults, edits>>
ToMove == Begins /\ inCatalog /\ homes[Picked] # Nothing /\ Picked # request.to
(* The destination is taken: the job stops.                                *)
MoveRefused ==
    /\ ToMove /\ homes[request.to] # Nothing
    /\ UNCHANGED <<rootList, rootDefault, homes, mv, owed, saved, tidy, inCatalog, mvFaults, edits>>
(* robust_rename within a device.                                          *)
Rename ==
    /\ ToMove /\ homes[request.to] = Nothing
    /\ homes' = [homes EXCEPT ![request.to] = homes[Picked], ![Picked] = Nothing]
    /\ mv' = Onward([to |-> request.to, install |-> request.job = "install"])
    /\ UNCHANGED <<rootList, rootDefault, owed, saved, tidy, inCatalog, mvFaults, edits>>
(* Across devices: a copy.                                                 *)
CopyBegins ==
    /\ ToMove /\ homes[request.to] = Nothing
    /\ mv' = [at |-> "copy", from |-> Picked, to |-> request.to, left |-> Pieces,
              again |-> FALSE, install |-> request.job = "install"]
    /\ UNCHANGED <<rootList, rootDefault, homes, owed, saved, tidy, inCatalog, mvFaults, edits>>
(* fs::copy overwrites nothing.                                            *)
CopyPiece(p) ==
    /\ mv.at = "copy" /\ p \in mv.left
    /\ ~(HasPiece(homes[mv.to], p) /\ HasPiece(homes[mv.from], p))
    /\ homes' = [homes EXCEPT ![mv.to] = IF HasPiece(homes[mv.from], p) THEN Mix(@, homes[mv.from], {p}) ELSE @]
    /\ mv' = [mv EXCEPT !.left = @ \ {p}]
    /\ UNCHANGED <<rootList, rootDefault, request, owed, saved, tidy, inCatalog, mvFaults, edits>>
(* A copy that fails is undone, as far as that goes, and tried once more.  *)
CopyFails(P) ==
    /\ mv.at = "copy"
    /\ \/ mvFaults < MaxMoveFaults /\ mvFaults' = mvFaults + 1
       \/ /\ \E p \in mv.left : HasPiece(homes[mv.to], p) /\ HasPiece(homes[mv.from], p)
          /\ UNCHANGED mvFaults
    /\ homes' = [homes EXCEPT ![mv.to] = Mix(Nothing, @, P)]
    /\ mv' = IF mv.again THEN Idle ELSE [mv EXCEPT !.left = Pieces, !.again = TRUE]
    /\ tidy' = (tidy /\ homes'[mv.to] = Nothing)
    /\ UNCHANGED <<rootList, rootDefault, request, owed, saved, inCatalog, edits>>
CopiedGame == "game" \notin mv.left
Copied == mv.left = {}
CopyDone ==
    /\ mv.at = "copy" /\ Copied
    /\ mv' = [mv EXCEPT !.at = "clear", !.left = Pieces]
    /\ UNCHANGED <<rootList, rootDefault, homes, request, owed, saved, tidy, inCatalog, mvFaults, edits>>
ClearPiece(p) ==
    /\ mv.at = "clear" /\ p \in mv.left
    /\ homes' = [homes EXCEPT ![mv.from] = Mix(@, Nothing, {p})]
    /\ mv' = [mv EXCEPT !.left = @ \ {p}]
    /\ UNCHANGED <<rootList, rootDefault, request, owed, saved, tidy, inCatalog, mvFaults, edits>>
(* A source that will not go is left behind; the move counts as done.      *)
ClearEnds ==
    /\ mv.at = "clear"
    /\ \/ mv.left = {} /\ UNCHANGED mvFaults
       \/ mv.left # {} /\ mvFaults < MaxMoveFaults /\ mvFaults' = mvFaults + 1
    /\ mv' = Onward(mv)
    /\ tidy' = (tidy /\ mv.left = {})
    /\ UNCHANGED <<rootList, rootDefault, homes, request, owed, saved, inCatalog, edits>>

(* What is in the way is cleared with keep_saves, in the folder found.     *)
ClearGame ==
    /\ mv.at = "ready"
    /\ LET d == homes[mv.to] IN
       IF d # Mix(Nothing, d, {"kept"})
       THEN RemoveFrom({Picked}, TRUE) ELSE UNCHANGED <<homes, owed>>
    /\ mv' = [mv EXCEPT !.at = "place"]
    /\ UNCHANGED <<rootList, rootDefault, request, saved, tidy, inCatalog, mvFaults, edits>>
Place(shape, t) ==
    /\ mv.at = "place"
    /\ PlaceIn(mv.to, shape, t)
    /\ mv' = Idle
    /\ tidy' = (tidy /\ (homes[Picked] = Nothing \/ Picked = mv.to))
    /\ UNCHANGED <<rootList, rootDefault, request, saved, inCatalog, mvFaults, edits>>
InstallFails ==
    /\ mv.at = "place" /\ mv' = Idle
    /\ UNCHANGED <<rootList, rootDefault, homes, request, owed, saved, tidy, inCatalog, mvFaults, edits>>

(* The hub dies; what waited is forgotten.                                 *)
CrashRoots ==
    /\ mvFaults < MaxMoveFaults /\ mvFaults' = mvFaults + 1
    /\ mv # Idle \/ request # NoRequest
    /\ mv' = Idle /\ request' = NoRequest
    /\ tidy' = (tidy /\ ~InMove)
    /\ UNCHANGED <<rootList, rootDefault, homes, owed, saved, inCatalog, edits>>

InstallRootsNext ==
    \/ \E list \in RootLists, default \in InRoots \cup {NoRoot} : EditRoots(list, default)
    \/ CatalogTurns \/ PlayThere
    \/ \E keep \in BOOLEAN : Uninstall(keep) \/ CleanOrphans(keep)
    \/ DeleteAll
    \/ \E shape \in Shapes, t \in 1 .. MaxTag :
          Update(shape, t) \/ CliInstall(shape, t) \/ Place(shape, t)
    \/ \E job \in {"move", "install"}, r \in InRoots : Confirm(job, r)
    \/ NoMove \/ MoveRefused \/ Rename \/ CopyBegins \/ CopyDone \/ ClearEnds
    \/ \E p \in Pieces : CopyPiece(p) \/ ClearPiece(p)
    \/ \E P \in SUBSET Pieces : CopyFails(P)
    \/ ClearGame \/ InstallFails \/ CrashRoots
InstallRootsSpec == InstallRootsInit /\ [][InstallRootsNext]_irVars

-----------------------------------------------------------------------------
(* Through moves, their failures and crashes, the save that is owed is in  *)
(* some root's folder; and as long as no move was cut off there is one     *)
(* folder, every job finds it, and an installed game reads that save.      *)
(* (move_title_install, inspect_install_any, the Install job of the hub)   *)
SavesMoveAlong ==
    /\ SafeIn(homes, owed)
    /\ tidy /\ mv.at = "idle" =>
         \A r \in InRoots : homes[r] # Nothing =>
            r = Picked /\ (HasGame(homes[r]) => Reads(homes[r]) >= owed)

(* A removal that keeps saves gives none up.                               *)
(* install.hpp:146: "With keep_saves, stash matching save/savestate files  *)
(* under install_root/preserved/ for the next install."                    *)
KeepSavesKeeps == [][Uninstall(TRUE) \/ CleanOrphans(TRUE) \/ ClearGame => owed' = owed]_irVars
=============================================================================
