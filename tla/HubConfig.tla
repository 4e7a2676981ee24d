------------------------------ MODULE HubConfig ------------------------------
(***************************************************************************)
(* config.json and the programs that write it.  Every writer writes the    *)
(* whole file, in place, from a copy: the hub's pages, its title, network  *)
(* and view settings, the first-run wizard, the command line; the launch   *)
(* and job workers read it into the hub's one copy (hub.cfg) meanwhile.    *)
(***************************************************************************)
EXTENDS Naturals, Sequences

CONSTANTS MaxChanges, MaxReads, MaxCli, MaxBad
ASSUME HubConfigAssumption == MaxChanges \in Nat \ {0}

VARIABLES
    cfgFile,     \* the file: cut short, or whole with these settings
    hmem,     \* hub.cfg
    pen,      \* the hub's save under way
    wread,    \* what a worker has read and not yet assigned: <<>> or <<it>>
    cli,      \* the command line's copy, and how far it is
    cpage,    \* the settings page in front, with its draft
    wiz,      \* the wizard, its marker, and a hard reset
    book,     \* history: each setting's last saved value; where a copy is behind
    spent     \* how often the bounded things happened

hcVars == <<cfgFile, hmem, pen, wread, cli, cpage, wiz, book, spent>>

Fields == {"library", "romm", "titles", "view", "net"}
Defaults == [f \in Fields |-> 0]
NoSave == [at |-> "none", next |-> Defaults, own |-> "view", sets |-> "before", leave |-> FALSE]
NoDraft == [at |-> "none", draft |-> 0, dirty |-> FALSE]
NoCli == [at |-> "none", copy |-> Defaults]

HubConfigInit ==
    /\ cfgFile \in [torn : {FALSE}, of : {Defaults, [Defaults EXCEPT !["library"] = 1]}]
    /\ hmem = cfgFile.of /\ pen = NoSave /\ wread = <<>> /\ cli = NoCli /\ cpage = NoDraft
    /\ wiz = [at |-> IF hmem["library"] = 0 THEN "choose" ELSE "shut", fin |-> "no",
              mark |-> hmem["library"] # 0, reset |-> "no"]
    /\ book = [due |-> cfgFile.of, loose |-> {}]
    /\ spent = [changes |-> hmem["library"], reads |-> 0, cli |-> 0, bad |-> 0]

-----------------------------------------------------------------------------
(* A file cut short is taken for defaults.                                 *)
Loaded == IF cfgFile.torn THEN Defaults ELSE cfgFile.of
(* Where a copy differs from what was last saved of each setting.          *)
Behind(c) == {f \in Fields : c[f] # book.due[f]}

Finishing(step) == pen.at = "none" /\ wiz.reset # "done" /\ wiz.fin = step
UiFree == Finishing("no")
AtRest == UiFree /\ cpage.at = "none" /\ wiz.at = "shut"
Fresh == spent.changes < MaxChanges
Value == spent.changes + 1
Change == Fresh /\ spent' = [spent EXCEPT !.changes = Value]
GoesWrong == spent.bad < MaxBad /\ spent' = [spent EXCEPT !.bad = @ + 1]
Reload == hmem' = Loaded /\ book' = [book EXCEPT !.loose = Behind(Loaded)]

-----------------------------------------------------------------------------
(* save_app_config truncates the file, then fills it; a file that cannot   *)
(* be opened stays as it was.  The caller sets hub.cfg before it saves,    *)
(* once saved, or after it whatever became of it.                          *)
Opened(next, own, sets, leave, loose) ==
    /\ pen' = [at |-> "cut", next |-> next, own |-> own, sets |-> sets, leave |-> leave]
    /\ cfgFile' = [cfgFile EXCEPT !.torn = TRUE]
    /\ hmem' = IF sets = "before" THEN next ELSE hmem
    /\ book' = [due |-> [book.due EXCEPT ![own] = next[own]], loose |-> loose \ {own}]
NotOpened(next, own, sets, loose) ==
    /\ spent.bad < MaxBad /\ UNCHANGED <<pen, cfgFile>>
    /\ hmem' = IF sets = "saved" THEN hmem ELSE next
    /\ book' = [book EXCEPT !.loose = IF sets = "saved" THEN loose ELSE loose \cup {own}]
Save(next, own, sets, leave, loose, changes) ==
    \/ /\ Opened(next, own, sets, leave, loose)
       /\ spent' = [spent EXCEPT !.changes = changes]
    \/ /\ NotOpened(next, own, sets, loose)
       /\ spent' = [spent EXCEPT !.changes = changes, !.bad = @ + 1]

(* what its caller does once saved: a page drops its dirty mark, the       *)
(* wizard goes on with its folders, then its marker                        *)
Left == IF pen.own # cpage.at THEN cpage
        ELSE IF pen.leave THEN NoDraft ELSE [cpage EXCEPT !.dirty = FALSE]
NextStep == IF pen.own = "library" /\ wiz.at # "shut" THEN "dirs"
            ELSE IF pen.own = "romm" /\ wiz.fin = "dirs" THEN "mark" ELSE wiz.fin
(* two that fill it at once can leave something that is neither            *)
Mixed(other) == {FALSE} \cup {other = "cut"}
TakenOverByPages == IF pen.sets = "saved" THEN pen.next ELSE hmem
TakenOver == IF pen.sets = "before" THEN hmem ELSE pen.next
CloseFile ==
    /\ pen.at = "cut"
    /\ cfgFile' \in [torn : Mixed(cli.at), of : {pen.next}]
    /\ hmem' = TakenOver
    /\ cpage' = Left /\ wiz' = [wiz EXCEPT !.fin = NextStep] /\ pen' = NoSave
    /\ UNCHANGED <<wread, cli, book, spent>>
(* the disk is full: the caller hears of it, the old file is gone          *)
WriteFails ==
    /\ pen.at = "cut" /\ GoesWrong
    /\ hmem' = IF pen.sets = "saved" THEN hmem ELSE pen.next
    /\ book' = [book EXCEPT !.loose = @ \cup {pen.own}]
    /\ wiz' = [wiz EXCEPT !.fin = "no"] /\ pen' = NoSave
    /\ UNCHANGED <<cfgFile, wread, cli, cpage>>

-----------------------------------------------------------------------------
(* The settings pages.                                                     *)

OpenPage(p) ==
    /\ AtRest /\ Reload
    /\ cpage' = [at |-> p, draft |-> Loaded[p], dirty |-> FALSE]
    /\ UNCHANGED <<cfgFile, pen, wread, cli, wiz, spent>>
OpenSettings == OpenPage("library")
OpenRommSettings == OpenPage("romm")
EditPage(p) ==
    /\ UiFree /\ cpage.at = p /\ Change
    /\ cpage' = [cpage EXCEPT !.draft = Value, !.dirty = TRUE]
    /\ UNCHANGED <<cfgFile, hmem, pen, wread, cli, wiz, book>>
EditSettings == EditPage("library")
EditRomm == EditPage("romm")
(* the page's own Save stays on it, the header's and the legend's leave;   *)
(* (bound: a page without edits is not saved, it would write what it read) *)
SavePage(p, leave) ==
    /\ UiFree /\ cpage.at = p /\ cpage.dirty
    /\ Save([hmem EXCEPT ![p] = cpage.draft], p, "saved", leave, book.loose, spent.changes)
    /\ UNCHANGED <<wread, cli, cpage, wiz>>
SaveLibrary(leave) == SavePage("library", leave)
SaveRomm(leave) == SavePage("romm", leave)
ClosePage ==
    /\ UiFree /\ cpage.at # "none" /\ cpage' = NoDraft
    /\ UNCHANGED <<cfgFile, hmem, pen, wread, cli, wiz, book, spent>>

(* The display name and the lobby's address read the file before they save *)
SetNet ==
    /\ AtRest /\ Fresh
    /\ Save([Loaded EXCEPT !["net"] = Value], "net", "before", FALSE, Behind(Loaded), Value)
    /\ UNCHANGED <<wread, cli, cpage, wiz>>
(* full screen and what else is saved as it is toggled do not              *)
ToggleView ==
    /\ UiFree /\ Fresh
    /\ Save([hmem EXCEPT !["view"] = Value], "view", "before", FALSE, book.loose, Value)
    /\ UNCHANGED <<wread, cli, cpage, wiz>>
(* a core title is installed or removed: read, saved, and taken over       *)
Register ==
    /\ AtRest /\ Fresh
    /\ Save([Loaded EXCEPT !["titles"] = Value], "titles", "always", FALSE, Behind(Loaded), Value)
    /\ UNCHANGED <<wread, cli, cpage, wiz>>
(* an import, a prune or a scan is asked for                               *)
ReadAgain ==
    /\ AtRest /\ hmem # Loaded /\ Reload
    /\ UNCHANGED <<cfgFile, pen, wread, cli, cpage, wiz, spent>>

-----------------------------------------------------------------------------
(* The launch worker and the job worker load the file and assign hub.cfg,  *)
(* with no lock: the hub can save from a copy that is half theirs.         *)

WorkerReads ==
    /\ wread = <<>> /\ wiz.at = "shut" /\ wiz.reset = "no" /\ spent.reads < MaxReads
    /\ wread' = <<Loaded>> /\ spent' = [spent EXCEPT !.reads = @ + 1]
    /\ UNCHANGED <<cfgFile, hmem, pen, cli, cpage, wiz, book>>
WorkerAssigns(part) ==
    /\ wread # <<>>
    /\ hmem' = [f \in Fields |-> IF f \in part THEN wread[1][f] ELSE hmem[f]]
    /\ book' = [book EXCEPT !.loose = @ \cup Behind(wread[1])]
    /\ wread' = IF part = Fields THEN <<>> ELSE wread
    /\ UNCHANGED <<cfgFile, pen, cli, cpage, wiz, spent>>

(* `retcomm core add` is another process.                                  *)
CliReads ==
    /\ cli.at = "none" /\ spent.cli < MaxCli /\ Fresh
    /\ spent' = [spent EXCEPT !.cli = @ + 1, !.changes = Value]
    /\ cli' = [at |-> "read", copy |-> [Loaded EXCEPT !["titles"] = Value]]
    /\ UNCHANGED <<cfgFile, hmem, pen, wread, cpage, wiz, book>>
CliOpens ==
    /\ cli.at = "read"
    /\ cfgFile' = [cfgFile EXCEPT !.torn = TRUE] /\ cli' = [cli EXCEPT !.at = "cut"]
    /\ UNCHANGED <<hmem, pen, wread, cpage, wiz, book, spent>>
CliCloses ==
    /\ cli.at = "cut" /\ cli' = NoCli
    /\ cfgFile' \in [torn : Mixed(pen.at), of : {cli.copy}]
    /\ book' = [due |-> [book.due EXCEPT !["titles"] = cli.copy["titles"]],
                loose |-> book.loose \cup Behind(cli.copy) \cup {"titles"}]
    /\ UNCHANGED <<hmem, pen, wread, cpage, wiz, spent>>

-----------------------------------------------------------------------------
(* The wizard: where Retro keeps its files, the player's folders, and     *)
(* Finish, which saves them, makes the platforms' own folders, saves       *)
(* RomM's part, and only then writes the marker.                           *)

Wizard(at, to) ==
    /\ UiFree /\ wiz.at = at /\ wiz' = [wiz EXCEPT !.at = to]
    /\ UNCHANGED <<cfgFile, hmem, pen, wread, cli, cpage, book, spent>>
ChoosePath ==
    \/ Wizard("choose", "easyRoot") \/ Wizard("choose", "advRoot")
ChooseRoot ==
    \/ Wizard("easyRoot", "easyFolder") \/ Wizard("advRoot", "advPaths")
ChoosePaths ==
    \/ Wizard("advPaths", "missing") \/ Wizard("advPaths", "advFolders")
MakeMissing == Wizard("missing", "advFolders")
Back ==
    \/ Wizard("easyRoot", "choose") \/ Wizard("easyFolder", "easyRoot")
    \/ Wizard("advRoot", "choose") \/ Wizard("advPaths", "advRoot")
    \/ Wizard("missing", "advPaths") \/ Wizard("advFolders", "advPaths")
FinishFrom(at) ==
    /\ UiFree /\ wiz.at = at /\ Fresh
    /\ Save([hmem EXCEPT !["library"] = Value], "library", "saved", FALSE, book.loose, Value)
    /\ UNCHANGED <<wread, cli, cpage, wiz>>
FinishEasySetup == FinishFrom("easyFolder")
FinishAdvanced == FinishFrom("advFolders")
MakeFolders ==
    /\ Finishing("dirs") /\ Fresh
    /\ Save([hmem EXCEPT !["romm"] = Value], "romm", "saved", FALSE, book.loose, Value)
    /\ wiz' = [wiz EXCEPT !.fin = IF pen'.at = "cut" THEN @ ELSE "no"]
    /\ UNCHANGED <<wread, cli, cpage>>
CompleteSetup ==
    /\ Finishing("mark")
    /\ wiz' = [wiz EXCEPT !.at = "shut", !.fin = "no", !.mark = TRUE]
    /\ UNCHANGED <<cfgFile, hmem, pen, wread, cli, cpage, book, spent>>
(* a folder or the marker cannot be made: Finish can be pressed again      *)
SetupFails ==
    /\ (Finishing("dirs") \/ Finishing("mark")) /\ GoesWrong /\ wiz' = [wiz EXCEPT !.fin = "no"]
    /\ UNCHANGED <<cfgFile, hmem, pen, wread, cli, cpage, book>>

(* A hard reset runs on the job's worker beside the pages.                 *)
WipeConfig ==
    /\ wiz.at = "shut" /\ wiz.reset = "no" /\ wread = <<>> /\ pen.at # "cut" /\ Change
    /\ cfgFile' = [torn |-> FALSE, of |-> Defaults]
    /\ wiz' = [wiz EXCEPT !.reset = "wiped", !.mark = FALSE]
    /\ book' = [due |-> Defaults, loose |-> Fields]
    /\ UNCHANGED <<hmem, pen, wread, cli, cpage>>
ResetMemory ==
    /\ wiz.reset = "wiped"
    /\ hmem' = Defaults /\ cpage' = NoDraft /\ wiz' = [wiz EXCEPT !.reset = "done"]
    /\ UNCHANGED <<cfgFile, pen, wread, cli, book, spent>>

(* The hub ends, or dies, and starts again: a library folder without a     *)
(* marker is taken for a setup that was finished.                          *)
StartsAgain ==
    /\ Reload /\ pen' = NoSave /\ wread' = <<>> /\ cpage' = NoDraft
    /\ LET pending == ~wiz.mark /\ Loaded["library"] = 0
       IN wiz' = [at |-> IF pending THEN "choose" ELSE "shut", fin |-> "no",
                  mark |-> ~pending, reset |-> "no"]
    /\ UNCHANGED <<cfgFile, cli>>
HubEnds == pen.at = "none" /\ wiz.fin = "no" /\ StartsAgain /\ UNCHANGED spent
HubDies == StartsAgain /\ GoesWrong

HubConfigNext ==
    \/ CloseFile \/ WriteFails \/ OpenSettings \/ OpenRommSettings \/ EditSettings \/ EditRomm
    \/ ClosePage
    \/ \E leave \in BOOLEAN : SaveLibrary(leave) \/ SaveRomm(leave)
    \/ SetNet \/ ToggleView \/ Register \/ ReadAgain
    \/ WorkerReads \/ \E part \in {Fields} \cup {{f} : f \in Fields} : WorkerAssigns(part)
    \/ CliReads \/ CliOpens \/ CliCloses
    \/ ChoosePath \/ ChooseRoot \/ ChoosePaths \/ MakeMissing \/ Back
    \/ FinishEasySetup \/ FinishAdvanced \/ MakeFolders \/ CompleteSetup \/ SetupFails
    \/ WipeConfig \/ ResetMemory \/ HubEnds \/ HubDies
HubConfigSpec == HubConfigInit /\ [][HubConfigNext]_hcVars

-----------------------------------------------------------------------------
(* Types: no page is open beside the wizard.                               *)
HubConfigTypeOK ==
    /\ cfgFile.torn \in BOOLEAN
    /\ \A c \in {cfgFile.of, hmem, pen.next, book.due, cli.copy} :
         c \in [Fields -> 0..MaxChanges]
    /\ book.loose \subseteq Fields
    /\ cpage.dirty => cpage.at \in {"library", "romm"}
    /\ wiz.at # "shut" => cpage.at = "none"

(* What was last saved of a setting is what the file says of it, whoever   *)
(* has written the file since: unless a copy that was behind when it was   *)
(* made, by a worker's late assignment, another process, a failed save or  *)
(* a file cut short, has been put in its place.                            *)
SavedIsKept ==
    ~cfgFile.torn => \A f \in Fields \ book.loose : cfgFile.of[f] = book.due[f]
=============================================================================
