--------------------------- MODULE SteamShortcuts ---------------------------
(***************************************************************************)
(* A title's entry among Steam's non-Steam games (steam_shortcut.cpp,      *)
(* hub_model.cpp).  Steam keeps a list a profile in shortcuts.vdf, reads   *)
(* it when it starts and writes it whole when it exits; the hub's Steam    *)
(* worker loads it, changes one title's entry and saves it whole.  A title *)
(* finds its entry by the stamp it left, then by name.                     *)
(*                                                                         *)
(* A list is a function over a few lines: where an entry stands carries no *)
(* meaning, so that any of several that match stands for the first one.    *)
(* Of an entry's fields its name, stamp and app id are kept; art is the    *)
(* app ids with an image in Steam's grid.                                  *)
(***************************************************************************)
EXTENDS Naturals, FiniteSets

CONSTANTS Games,        \* installed titles, by number
          Names,        \* what an entry may be called
          NameOf,       \* the name of each title; two may share one
          Launchers,    \* where the launcher's command line may be
          Profiles,     \* the profiles under userdata, by number
          Lines,        \* room for entries in a list
          MaxEvents     \* bound: presses of Add and Remove, starts of Steam and
                        \*   changes in it, failures and kills, together

Nobody == 0
NoName == "none"
ByHand == "by hand"     \* what an entry starts that Retro did not make
AppIds == (Launchers \cup {ByHand}) \X Names
NoLine == [name |-> NoName, owner |-> Nobody, app |-> <<NoName, NoName>>]
Entries == [name : Names, owner : Games \cup {Nobody}, app : AppIds]
Lists == [Lines -> Entries \cup {NoLine}]
EmptyList == [l \in Lines |-> NoLine]

ASSUME SteamAssumption ==
    /\ Games \subseteq Nat \ {Nobody} /\ NoName \notin Names
    /\ NameOf \in [Games -> Names]
    /\ Lines \subseteq Nat /\ Profiles \subseteq Nat /\ MaxEvents \in Nat

VARIABLES vdf,      \* of each profile: shortcuts.vdf, missing, cut short or whole
          bak,   \* of each profile: is there a shortcuts.vdf.retcomm-bak
          grid,     \* of each profile: the app ids with art
          steam,    \* Steam itself: the profile logged in, its list in memory
          page,     \* the title page and what it shows of Steam
          ask,      \* the popup "Steam is running", and for what
          sjob,     \* the Steam worker
          left,     \* history: how Retro left each title in each list, until
                    \*   Steam or a failed read comes between
          events

stVars == <<vdf, bak, grid, steam, page, ask, sjob, left, events>>

NoFile == [is |-> "missing", list |-> EmptyList]
SteamOff == [in |-> 0, list |-> EmptyList]
NoAsk == [of |-> Nobody, remove |-> FALSE]
FreshPage == [at |-> "library", of |-> Nobody, valid |-> FALSE, ids |-> {}]
NoSteamJob == [pc |-> "idle", of |-> Nobody, remove |-> FALSE, exe |-> ByHand, todo |-> {},
               in |-> 0, list |-> EmptyList, blind |-> FALSE, removed |-> FALSE]
Unknown == [g \in Games |-> "unknown"]

SteamInit ==
    /\ vdf = [p \in Profiles |-> NoFile] /\ bak = [p \in Profiles |-> FALSE]
    /\ grid = [p \in Profiles |-> {}] /\ steam = SteamOff
    /\ page = FreshPage /\ ask = NoAsk /\ sjob = NoSteamJob
    /\ left = [p \in Profiles |-> Unknown]
    /\ events = 0

(* An event of those that are bounded.                                     *)
Counts == events < MaxEvents /\ events' = events + 1

(***************************************************************************)
(* The file.  What cannot be parsed to its end reads as an empty list.     *)
(***************************************************************************)
Parsed(file) == IF file.is = "whole" THEN file.list ELSE EmptyList
Rewritten(list) == [is |-> "whole", list |-> list]
Used(list) == {l \in Lines : list[l] # NoLine}
OwnedBy(list, g) == {l \in Lines : list[l].owner = g}
Unclaimed(list, g) == {l \in Lines : list[l].owner = Nobody /\ list[l].name = NameOf[g]}
(* Mutant: the name alone finds an entry, as before there were stamps *)
FindEntryByName(list, g) == {l \in Lines : list[l].name = NameOf[g]}
FindEntry(list, g) == IF OwnedBy(list, g) # {} THEN OwnedBy(list, g) ELSE Unclaimed(list, g)
OwnerIds(list) == {list[l].owner : l \in Lines} \ {Nobody}
NextFree(list) ==
    {l \in Lines \ Used(list) : \A k \in Lines \ Used(list) : l <= k}
RemoveArtFor(p, apps) == [grid EXCEPT ![p] = @ \ apps]

(* Steam is there when a profile is.                                       *)
Found == Profiles # {}
SteamIsRunning == steam.in # 0

(***************************************************************************)
(* Steam and its user (external).  An entry made by hand may have art.     *)
(***************************************************************************)
SteamStarts(p) ==
    /\ steam.in = 0 /\ Counts
    /\ steam' = [in |-> p, list |-> Parsed(vdf[p])]
    /\ UNCHANGED <<vdf, bak, grid, page, ask, sjob, left>>
InSteam(list) ==
    /\ steam.in # 0 /\ Counts
    /\ steam' = [steam EXCEPT !.list = list]
    /\ UNCHANGED <<vdf, bak, page, ask, sjob, left>>
AddsByHand(name) ==
    \E l \in NextFree(steam.list) :
        LET e == [name |-> name, owner |-> Nobody, app |-> <<ByHand, name>>]
        IN  /\ InSteam([steam.list EXCEPT ![l] = e])
            /\ grid' = [grid EXCEPT ![steam.in] = @ \cup {e.app}]
Renames(l, name) ==
    /\ l \in Used(steam.list) /\ steam.list[l].name # name
    /\ InSteam([steam.list EXCEPT ![l].name = name]) /\ UNCHANGED grid
Deletes(l) ==
    /\ l \in Used(steam.list)
    /\ InSteam([steam.list EXCEPT ![l] = NoLine]) /\ UNCHANGED grid
(* Its write may be cut short.                                             *)
SteamExits(cut) ==
    /\ steam.in # 0 /\ steam' = SteamOff
    /\ IF cut THEN Counts ELSE UNCHANGED events
    /\ vdf' = [vdf EXCEPT ![steam.in] =
                  IF cut THEN [is |-> "cut", list |-> EmptyList]
                  ELSE Rewritten(steam.list)]
    /\ left' = [left EXCEPT ![steam.in] = Unknown]
    /\ UNCHANGED <<bak, grid, page, ask, sjob>>

(***************************************************************************)
(* The title page, on the UI thread.  A look at Steam reads its files and  *)
(* then says that what it read is valid; the worker may end in between.    *)
(***************************************************************************)
OpenTitlePage(g) ==
    /\ page.at # "reading" /\ ask = NoAsk /\ events < MaxEvents
    /\ page' = [page EXCEPT !.at = "open", !.of = g, !.valid = FALSE]
    /\ UNCHANGED <<vdf, bak, grid, steam, ask, sjob, left, events>>
RefreshReads ==
    /\ page.at \in {"open", "shown"} /\ ~page.valid
    /\ page' = [page EXCEPT !.at = "reading",
                   !.ids = UNION {OwnerIds(Parsed(vdf[p])) : p \in Profiles}]
    /\ UNCHANGED <<vdf, bak, grid, steam, ask, sjob, left, events>>
RefreshEnds ==
    /\ page.at = "reading"
    /\ page' = [page EXCEPT !.at = "shown", !.valid = TRUE]
    /\ UNCHANGED <<vdf, bak, grid, steam, ask, sjob, left, events>>

(* begin_steam_shortcut: one worker at a time.  To remove needs no command *)
(* to launch with.                                                         *)
LauncherCommand(remove) == IF remove THEN {ByHand} ELSE Launchers
BeginSteamShortcut(g, remove) ==
    /\ sjob.pc = "idle"
    /\ \E exe \in LauncherCommand(remove) :
          sjob' = [NoSteamJob EXCEPT !.pc = "find", !.of = g, !.remove = remove, !.exe = exe]
(* Where it cannot be told that Steam runs, nothing is asked.               *)
CanPress(remove) ==
    /\ page.at = "shown" /\ ask = NoAsk /\ Found /\ sjob.pc = "idle"
    /\ remove => page.of \in page.ids
Press(remove) ==
    /\ CanPress(remove) /\ Counts
    /\ \/ SteamIsRunning /\ ask' = [of |-> page.of, remove |-> remove] /\ UNCHANGED sjob
       \/ BeginSteamShortcut(page.of, remove) /\ UNCHANGED ask
    /\ UNCHANGED <<vdf, bak, grid, steam, page, left>>
ContinueAnyway ==
    /\ ask # NoAsk /\ ask' = NoAsk /\ BeginSteamShortcut(ask.of, ask.remove)
    /\ UNCHANGED <<vdf, bak, grid, steam, page, left, events>>
Cancel ==
    /\ ask # NoAsk /\ ask' = NoAsk
    /\ UNCHANGED <<vdf, bak, grid, steam, page, sjob, left, events>>

(***************************************************************************)
(* The worker                                                              *)
(***************************************************************************)
AppId == <<sjob.exe, NameOf[sjob.of]>>
OurEntry == [name |-> NameOf[sjob.of], owner |-> sjob.of, app |-> AppId]
Failed == [sjob EXCEPT !.pc = "end"]
Handled == [sjob EXCEPT !.todo = @ \ {sjob.in}, !.pc = "load", !.in = 0, !.list = EmptyList,
                        !.blind = FALSE]

FindSteamInstall ==
    /\ sjob.pc = "find"
    /\ sjob' = IF Found THEN [sjob EXCEPT !.pc = "load", !.todo = Profiles] ELSE Failed
    /\ UNCHANGED <<vdf, bak, grid, steam, page, ask, left, events>>
(* What load_shortcuts gives: the list, or an empty one when the file      *)
(* cannot be opened just now.                                              *)
ListRead(p, blind) == IF blind THEN EmptyList ELSE Parsed(vdf[p])
LoadShortcuts(p, blind) ==
    /\ sjob.pc = "load" /\ p \in sjob.todo
    /\ IF blind THEN Counts ELSE UNCHANGED events
    /\ UNCHANGED <<vdf, bak, steam, page, ask, left>>
(* The title's entry in the list read, or else a fresh one.  Art under the *)
(* id of another executable or name will not be read again.                *)
WriteEntry(p, blind) ==
    /\ ~sjob.remove /\ LoadShortcuts(p, blind)
    /\ LET list == ListRead(p, blind)
           found == FindEntry(list, sjob.of)
       IN  \E l \in IF found # {} THEN found ELSE NextFree(list) :
              /\ sjob' = [sjob EXCEPT !.pc = "art", !.in = p, !.blind = blind,
                                      !.list = [list EXCEPT ![l] = OurEntry]]
              /\ grid' = RemoveArtFor(p, {list[l].app} \ {AppId})
(* A title without a cover has no art to copy.                             *)
CopyArt(copied) ==
    /\ sjob.pc = "art"
    /\ grid' = IF copied THEN [grid EXCEPT ![sjob.in] = @ \cup {AppId}] ELSE grid
    /\ \/ UNCHANGED events /\ sjob' = [sjob EXCEPT !.pc = "backup"]
       \/ Counts /\ sjob' = Failed
    /\ UNCHANGED <<vdf, bak, steam, page, ask, left>>
(* Entries of the title's stamp, and those of its name that nobody claims, *)
(* go.  A profile is saved when one was removed in it or before it.        *)
RemoveEntries(p, blind) ==
    /\ sjob.remove /\ LoadShortcuts(p, blind)
    /\ LET list == ListRead(p, blind)
           gone == OwnedBy(list, sjob.of) \cup Unclaimed(list, sjob.of)
           job == [sjob EXCEPT !.in = p, !.blind = blind, !.removed = @ \/ gone # {},
                       !.list = [l \in Lines |-> IF l \in gone THEN NoLine ELSE list[l]]]
       IN  /\ grid' = RemoveArtFor(p, {list[l].app : l \in gone})
           /\ sjob' = IF job.removed THEN [job EXCEPT !.pc = "backup"]
                      ELSE [sjob EXCEPT !.todo = @ \ {p}]
(* The copy is made once, and its own failure is passed over.              *)
BackUpOnce ==
    /\ sjob.pc = "backup" /\ sjob' = [sjob EXCEPT !.pc = "save"]
    /\ \/ bak' = [bak EXCEPT ![sjob.in] = @ \/ vdf[sjob.in].is # "missing"] /\ UNCHANGED events
       \/ Counts /\ UNCHANGED bak
    /\ UNCHANGED <<vdf, grid, steam, page, ask, left>>
SaveShortcuts ==
    /\ sjob.pc = "save" /\ UNCHANGED events /\ sjob' = Handled
    /\ vdf' = [vdf EXCEPT ![sjob.in] = Rewritten(sjob.list)]
    /\ left' = [left EXCEPT ![sjob.in] =
                  [g \in Games |-> IF g = sjob.of THEN IF sjob.remove THEN "out" ELSE "in"
                                   ELSE IF sjob.blind THEN "unknown" ELSE @[g]]]
    /\ UNCHANGED <<bak, grid, steam, page, ask>>
SaveFails ==
    /\ sjob.pc = "save" /\ Counts /\ sjob' = Failed
    /\ UNCHANGED <<vdf, bak, grid, steam, page, ask, left>>
AllDone ==
    /\ sjob.pc = "load" /\ sjob.todo = {} /\ sjob' = Failed
    /\ UNCHANGED <<vdf, bak, grid, steam, page, ask, left, events>>
Invalidates ==
    /\ sjob.pc = "end" /\ page' = [page EXCEPT !.valid = FALSE]
    /\ sjob' = [NoSteamJob EXCEPT !.pc = "free"]
    /\ UNCHANGED <<vdf, bak, grid, steam, ask, left, events>>
WorkerFree ==
    /\ sjob.pc = "free" /\ sjob' = NoSteamJob
    /\ UNCHANGED <<vdf, bak, grid, steam, page, ask, left, events>>
(* An exit that must be quick leaves the worker to die with the process.   *)
WorkerDies ==
    /\ sjob.pc # "idle" /\ Counts
    /\ sjob' = NoSteamJob /\ page' = FreshPage /\ ask' = NoAsk
    /\ UNCHANGED <<vdf, bak, grid, steam, left>>

SteamWorker ==
    \/ FindSteamInstall \/ BackUpOnce \/ SaveShortcuts \/ SaveFails
    \/ \E p \in Profiles, blind \in BOOLEAN : WriteEntry(p, blind) \/ RemoveEntries(p, blind)
    \/ \E copied \in BOOLEAN : CopyArt(copied)
    \/ AllDone \/ Invalidates \/ WorkerFree
SteamUser ==
    \/ \E p \in Profiles : SteamStarts(p)
    \/ \E name \in Names : AddsByHand(name) \/ \E l \in Lines : Renames(l, name)
    \/ \E l \in Lines : Deletes(l)
    \/ \E cut \in BOOLEAN : SteamExits(cut)
SteamPage ==
    \/ \E g \in Games : OpenTitlePage(g)
    \/ RefreshReads \/ RefreshEnds
    \/ \E remove \in BOOLEAN : Press(remove)
    \/ ContinueAnyway \/ Cancel
SteamNext == SteamWorker \/ SteamUser \/ SteamPage \/ WorkerDies
SteamSpec == SteamInit /\ [][SteamNext]_stVars

-----------------------------------------------------------------------------
SteamTypeOK ==
    /\ vdf \in [Profiles -> [is : {"missing", "cut", "whole"}, list : Lists]]
    /\ bak \in [Profiles -> BOOLEAN]
    /\ grid \in [Profiles -> SUBSET AppIds]
    /\ steam \in [in : Profiles \cup {0}, list : Lists]
    /\ page \in [at : {"library", "open", "reading", "shown"}, of : Games \cup {Nobody},
                 valid : BOOLEAN, ids : SUBSET Games]
    /\ ask \in [of : Games \cup {Nobody}, remove : BOOLEAN]
    /\ sjob \in [pc : {"idle", "find", "load", "art", "backup", "save", "end", "free"},
                 of : Games \cup {Nobody}, remove : BOOLEAN, exe : Launchers \cup {ByHand},
                 todo : SUBSET Profiles, in : Profiles \cup {0}, list : Lists,
                 blind : BOOLEAN, removed : BOOLEAN]
    /\ left \in [Profiles -> [Games -> {"unknown", "in", "out"}]]
    /\ events \in 0 .. MaxEvents

(* A title has at most one entry in a profile, whatever the player adds    *)
(* and renames in Steam and however often it is added; and a list that     *)
(* Retro saved last still says of each title what Retro did last: other    *)
(* titles, of the same name too, neither take its entry nor bring it back. *)
AsRetroLeftIt ==
    \A p \in Profiles, g \in Games :
        LET own == OwnedBy(vdf[p].list, g)
        IN  /\ \A l, k \in own : l = k
            /\ left[p][g] = "in" => own # {}
            /\ left[p][g] = "out" => own = {}
=============================================================================
