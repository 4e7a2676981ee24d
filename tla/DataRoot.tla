------------------------------ MODULE DataRoot ------------------------------
(***************************************************************************)
(* Where Retro keeps its own folders, and how they move: the precedence of *)
(* the pointers (data_root.cpp), the plan and the migration                *)
(* (data_root_migrate.cpp), the dialog, the setup wizard and the command   *)
(* that ask for it.  A location has a data folder, a map from files to     *)
(* versions, and a config folder with its settings and install roots.      *)
(* One process of Retro runs at a time.                                    *)
(***************************************************************************)
EXTENDS Naturals, FiniteSets

CONSTANTS Folders,        \* folders a user may choose, none inside another
          Files,          \* files of a data folder; "setup" is the wizard's mark
          MaxWrites,      \* bound: writes of files and settings
          MaxMoves,       \* bound: migrations asked for
          Pins,           \* values of RETCOMM_HOME: NoPlace or a folder
          Portable        \* does the launcher carry its root beside the binary?

Default == "os_default"
NoPlace == "none"
Places == Folders \cup {Default}
Pointer == Places \cup {NoPlace}
ASSUME DataRootAssumption ==
    /\ NoPlace \notin Places /\ Pins \subseteq Pointer /\ "setup" \in Files
    /\ Portable \in BOOLEAN
    /\ MaxWrites \in Nat \ {0} /\ MaxMoves \in Nat
Modes == {"Move", "UseExisting", "StartFresh"}
NoFiles == [f \in Files |-> 0]
NoConfig == [ver |-> 0, installs |-> NoPlace]
NoPlan == [at |-> "idle", to |-> NoPlace, mode |-> "Move", by |-> "cli",
           beside |-> FALSE, left |-> {}, had |-> NoFiles, set |-> 0,
           outranked |-> FALSE]

VARIABLES data,       \* data[p][f]: version of file f under p, 0 when absent
          config,     \* config[p]: version of the settings, install root listed
          links,      \* links[p]: the place the links of p's toolchains lead to
          exeMarker,  \* retcomm-root.json beside the binary
          osPointer,  \* root.json in the default config folder
          pin,        \* RETCOMM_HOME
          here,       \* the place the hub that runs resolved at its start
          move,       \* the migration under way
          writes, moves, mine

drVars == <<data, config, links, exeMarker, osPointer, pin, here, move,
            writes, moves, mine>>

Empty(p) == data[p] = NoFiles
(* resolve_data_root: the environment, then the marker beside the binary,  *)
(* then the pointer in the default config folder, then the default.        *)
Resolved(env, exe, ptr) ==
    IF env # NoPlace THEN env
    ELSE IF exe # NoPlace THEN exe
    ELSE IF ptr # NoPlace THEN ptr ELSE Default
Root == Resolved(pin, exeMarker, osPointer)

DataRootInit ==
    /\ \E p \in Places : \E how \in {"default", "beside", "pointer"} :
         /\ (how = "default") <=> (p = Default)
         /\ exeMarker = IF how = "beside" THEN p ELSE NoPlace
         /\ osPointer = IF how = "pointer" THEN p ELSE NoPlace
         /\ data = [q \in Places |-> IF q = p THEN [f \in Files |-> 1] ELSE NoFiles]
         /\ config = [q \in Places |->
                        IF q = p THEN [ver |-> 1, installs |-> p] ELSE NoConfig]
         /\ links = [q \in Places |-> IF q = p THEN p ELSE NoPlace]
    /\ pin \in Pins
    /\ here = NoPlace /\ move = NoPlan
    /\ writes = 1 /\ moves = 0 /\ mine = NoFiles

----------------------------------------------------------------------------
(* The hub between migrations: it resolves its folders at start, makes     *)
(* them, and saves files and settings under them.                          *)
StartHub ==
    /\ here = NoPlace /\ move.at = "idle"
    /\ here' = Root
    /\ mine' = data[Root]
    /\ UNCHANGED <<data, config, links, exeMarker, osPointer, pin, move, writes, moves>>

CloseHub ==
    /\ here # NoPlace /\ move.at = "idle"
    /\ here' = NoPlace
    /\ UNCHANGED <<data, config, links, exeMarker, osPointer, pin, move, writes, moves, mine>>

SaveFile(f) ==
    /\ here # NoPlace /\ move.at = "idle" /\ writes < MaxWrites
    /\ writes' = writes + 1
    /\ data' = [data EXCEPT ![here][f] = writes']
    /\ mine' = [mine EXCEPT ![f] = writes']
    /\ UNCHANGED <<config, links, exeMarker, osPointer, pin, here, move, moves>>

SaveSettings ==
    /\ here # NoPlace /\ move.at = "idle" /\ writes < MaxWrites
    /\ writes' = writes + 1
    /\ config' = [config EXCEPT ![here] =
                    [ver |-> writes', installs |-> IF @.ver = 0 THEN here ELSE @.installs]]
    /\ UNCHANGED <<data, links, exeMarker, osPointer, pin, here, move, moves, mine>>

----------------------------------------------------------------------------
(* plan_root_migration: the same place is a no-op and nested places are    *)
(* refused (Folders do not nest); an unwritable target is refused too,     *)
(* which is a choice not to ask.  The migration keeps what it found.       *)
Planned(from, to, mode, by, beside) ==
    [at |-> IF mode = "Move" THEN "data" ELSE "rebase", to |-> to, mode |-> mode,
     by |-> by, beside |-> beside, left |-> Files, had |-> data[from],
     set |-> config[from].ver, outranked |-> FALSE]
CanPlan(from, to) == move.at = "idle" /\ moves < MaxMoves /\ to # from

(* The dialog's Continue, disabled when the root is pinned, and the job it  *)
(* starts: an empty target, which is the default place, ends the job.      *)
Continue(to, mode) ==
    /\ here # NoPlace /\ pin = NoPlace /\ CanPlan(here, to)
    /\ moves' = moves + 1
    /\ move' = IF to = Default THEN move ELSE Planned(here, to, mode, "hub", Portable)
    /\ UNCHANGED <<data, config, links, exeMarker, osPointer, pin, here, writes, mine>>

(* The wizard's Finish: settings and the setup mark are written under the  *)
(* present root, then the job moves them.                                  *)
FinishSetup(to) ==
    /\ here # NoPlace /\ CanPlan(here, to) /\ writes < MaxWrites
    /\ moves' = moves + 1 /\ writes' = writes + 1
    /\ data' = [data EXCEPT ![here]["setup"] = writes']
    /\ mine' = data'[here]
    /\ config' = [config EXCEPT ![here] =
                    [ver |-> writes', installs |-> IF @.ver = 0 THEN here ELSE @.installs]]
    /\ move' = IF to = Default THEN move
               ELSE [Planned(here, to, "Move", "hub", Portable)
                       EXCEPT !.had = data'[here], !.set = writes']
    /\ UNCHANGED <<links, exeMarker, osPointer, pin, here>>

(* retcomm root set | reset: a process of its own; it keeps a marker that  *)
(* is already beside the binary, except for a reset.                       *)
Command(to, mode) ==
    /\ here = NoPlace /\ CanPlan(Root, to)
    /\ moves' = moves + 1
    /\ move' = Planned(Root, to, mode, "cli", to # Default /\ exeMarker # NoPlace)
    /\ mine' = data[Root]
    /\ here' = Root
    /\ UNCHANGED <<data, config, links, exeMarker, osPointer, pin, writes>>

----------------------------------------------------------------------------
(* migrate_data_root.  move_tree renames when the target is empty and on   *)
(* the same volume; else it copies file by file over what is there and     *)
(* removes the source, and a source that stays is only a note.             *)
To == move.to
Unmoved == <<config, exeMarker, osPointer, pin, here, writes, moves, mine>>

RenameData ==
    /\ move.at = "data" /\ Empty(To)
    /\ data' = [data EXCEPT ![To] = data[here], ![here] = NoFiles]
    /\ links' = [links EXCEPT ![To] = links[here], ![here] = NoPlace]
    /\ move' = [move EXCEPT !.at = "config"]
    /\ UNCHANGED Unmoved

(* Mutant of CopyFile. *)
CopyFileSourceFirst(f) ==
    /\ move.at = "data" /\ f \in move.left
    /\ data' = [data EXCEPT ![here][f] = 0]
    /\ links' = [links EXCEPT ![To] = links[here]]
    /\ move' = [move EXCEPT !.left = @ \ {f}]
    /\ UNCHANGED Unmoved
(* Mutant of CopyFile. *)
CopyFileKeepsTarget(f) ==
    /\ move.at = "data" /\ f \in move.left
    /\ data' = [data EXCEPT ![To][f] = IF @ = 0 THEN data[here][f] ELSE @]
    /\ links' = [links EXCEPT ![To] = links[here]]
    /\ move' = [move EXCEPT !.left = @ \ {f}]
    /\ UNCHANGED Unmoved
CopyFile(f) ==
    /\ move.at = "data" /\ f \in move.left
    /\ data' = [data EXCEPT ![To][f] = IF data[here][f] = 0 THEN @ ELSE data[here][f]]
    /\ links' = [links EXCEPT ![To] = links[here]]
    /\ move' = [move EXCEPT !.left = @ \ {f}]
    /\ UNCHANGED Unmoved

DropSource(kept) ==
    /\ move.at = "data" /\ move.left = {}
    /\ data' = [data EXCEPT ![here] = [f \in Files |-> IF f \in kept THEN @[f] ELSE 0]]
    /\ move' = [move EXCEPT !.at = "config"]
    /\ UNCHANGED <<links, Unmoved>>

(* The second tree; the links and the install roots after it.              *)
MoveConfig(kept) ==
    /\ move.at = "config"
    /\ config' = [config EXCEPT ![To] = IF config[here].ver = 0 THEN @ ELSE config[here],
                                ![here] = IF kept THEN @ ELSE NoConfig]
    /\ move' = [move EXCEPT !.at = "links"]
    /\ UNCHANGED <<data, links, exeMarker, osPointer, pin, here, writes, moves, mine>>

(* retarget_data_dir_links: a link into the old tree is replaced; one that *)
(* cannot be made again stays absent, one that cannot be removed stays.    *)
RetargetLinks(outcome) ==
    /\ move.at = "links"
    /\ outcome \in {To, NoPlace, here}
    /\ links' = [links EXCEPT ![To] = IF @ = here THEN outcome ELSE @]
    /\ move' = [move EXCEPT !.at = "rebase"]
    /\ UNCHANGED <<data, Unmoved>>

RebaseInstalls(saved) ==
    /\ move.at = "rebase"
    /\ config' = [config EXCEPT ![To].installs = IF saved /\ @ = here THEN To ELSE @]
    /\ move' = [move EXCEPT !.at = "pointer"]
    /\ UNCHANGED <<data, links, exeMarker, osPointer, pin, here, writes, moves, mine>>

(* write_data_root_pointer and clear_data_root_pointer: the new pointer is *)
(* written before the other is removed; only a reset minds a file that     *)
(* cannot be removed.  A marker beside the binary that stays outranks the  *)
(* new pointer.                                                            *)
WritePointer(stuck) ==
    /\ move.at = "pointer"
    /\ stuck => exeMarker # NoPlace
    /\ exeMarker' = IF To # Default /\ move.beside THEN To
                    ELSE IF stuck THEN exeMarker ELSE NoPlace
    /\ osPointer' = IF To = Default \/ move.beside THEN NoPlace ELSE To
    /\ move' = [move EXCEPT !.at = IF To = Default /\ stuck THEN "failed" ELSE "done",
                            !.outranked = stuck /\ ~move.beside]
    /\ UNCHANGED <<data, config, links, pin, here, writes, moves, mine>>

(* A copy, the config folder or the pointer fails: the job reports it.     *)
StepFails ==
    /\ move.at \in {"data", "config", "pointer"}
    /\ move' = [move EXCEPT !.at = "failed"]
    /\ UNCHANGED <<data, links, Unmoved>>

(* The end of the job or of the command.  A hub that changed its folder    *)
(* exits for a relaunch; when that cannot be scheduled, or the change      *)
(* failed, it runs on with the folders it resolved at its start.           *)
EndMove(relaunched) ==
    /\ move.at \in {"done", "failed"}
    /\ relaunched => move.at = "done"
    /\ move' = NoPlan
    /\ here' = IF move.by = "cli" \/ relaunched THEN NoPlace ELSE here
    /\ UNCHANGED <<data, config, links, exeMarker, osPointer, pin, writes, moves, mine>>

Crash ==
    /\ move.at # "idle"
    /\ move' = NoPlan /\ here' = NoPlace
    /\ UNCHANGED <<data, config, links, exeMarker, osPointer, pin, writes, moves, mine>>

DataRootNext ==
    \/ StartHub \/ CloseHub \/ SaveSettings \/ \E f \in Files : SaveFile(f)
    \/ \E to \in Places : FinishSetup(to)
    \/ \E to \in Places, mode \in Modes : Continue(to, mode)
    \/ \E to \in Places, mode \in Modes : Command(to, mode)
    \/ RenameData \/ \E f \in Files : CopyFile(f)
    \/ \E kept \in SUBSET Files : DropSource(kept)
    \/ \E kept \in BOOLEAN : MoveConfig(kept)
    \/ \E p \in Pointer : RetargetLinks(p)
    \/ \E ok \in BOOLEAN : RebaseInstalls(ok)
    \/ \E stuck \in BOOLEAN : WritePointer(stuck)
    \/ StepFails \/ Crash \/ \E ok \in BOOLEAN : EndMove(ok)
DataRootSpec == DataRootInit /\ [][DataRootNext]_drVars

----------------------------------------------------------------------------
DataRootTypeOK ==
    /\ data \in [Places -> [Files -> 0..MaxWrites]]
    /\ config \in [Places -> [ver : 0..MaxWrites, installs : Pointer]]
    /\ links \in [Places -> Pointer]
    /\ {exeMarker, osPointer, pin, here} \subseteq Pointer
    /\ move \in [at : {"idle", "data", "config", "links", "rebase", "pointer",
                       "done", "failed"},
                 to : Pointer, mode : Modes, by : {"hub", "cli"}, beside : BOOLEAN,
                 left : SUBSET Files, had : [Files -> 0..MaxWrites], set : 0..MaxWrites,
                 outranked : BOOLEAN]
    /\ writes \in 0..MaxWrites /\ moves \in 0..MaxMoves
    /\ mine \in [Files -> 0..MaxWrites]

(* What the user last had in the folder Retro ran on is on disk somewhere, *)
(* whatever a migration does to it: a copy, a merge over an older tree, a  *)
(* source removed in part, a failure or a crash at any step                *)
(* (data_root_migrate.cpp:149-177, 334-353).                               *)
WorkSurvives == \A f \in Files : mine[f] # 0 => \E p \in Places : data[p][f] = mine[f]

(* A change that reports success takes effect: the next start resolves the *)
(* new place, and after a move every file and the settings are there, also *)
(* when the move merged into an older tree and two migrations of the hub   *)
(* and the command follow each other (data_root_migrate.cpp:389-399).  Of  *)
(* the new place only its pointer can be lost: a marker beside the binary  *)
(* that cannot be removed outranks it, and success is reported all the     *)
(* same (data_root.cpp:259-261).  A root pinned in the environment is left *)
(* out: it wins over every pointer.                                        *)
MoveFindsWork ==
    move.at = "done" /\ pin = NoPlace =>
        /\ move.outranked \/ Root = move.to
        /\ move.mode = "Move" =>
              /\ \A f \in Files : move.had[f] # 0 => data[move.to][f] = move.had[f]
              /\ move.set # 0 => config[move.to].ver = move.set
=============================================================================
