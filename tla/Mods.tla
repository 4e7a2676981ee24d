-------------------------------- MODULE Mods --------------------------------
(***************************************************************************)
(* The Mods page and the file that holds the selection (mods.cpp and the   *)
(* two pages of hub_main.cpp), for one package of several features with an *)
(* option each.  The psxrecomp/snesrecomp engines keep a block per feature *)
(* in state.toml, which the hub edits one block at a time; n64lle keeps a  *)
(* section per package in mods.toml, which the hub writes from what its    *)
(* page last read.  The game's own menu writes the same file.              *)
(***************************************************************************)
EXTENDS Integers, Sequences, FiniteSets, SequencesExt

CONSTANTS Features,   \* the package's features
          DefaultOn,  \* those its manifest turns on
          MaxEdits,   \* bound: what the player changes on the page
          MaxGame,    \* bound: what the player changes in the game's menu
          MaxBroken   \* bound: writes that fail

ASSUME ModsAssumption ==
    IsFiniteSet(Features) /\ Features # {} /\ DefaultOn \subseteq Features

VARIABLES layout,  \* "engine" or "n64"
          file,    \* the features the file decides, those on, option values
          modPage, \* what the page read last
          pen,     \* the write under way: edits left, what was read, whether
                   \* anyone else wrote since
          edits, played, broken

moVars == <<layout, file, modPage, pen, edits, played, broken>>

(* An option holds 0, its default, or 1; 2 is a value it does not allow.   *)
Values == 0 .. 2
Empty == [decided |-> {}, on |-> {}, val |-> [f \in Features |-> 0]]
Runs(s, f) == IF f \in s.decided THEN f \in s.on ELSE f \in DefaultOn
(* Reading the file: a feature it does not decide stands at its default.   *)
Scan(s) == [on |-> {f \in Features : Runs(s, f)}, val |-> s.val]
NoPen == [todo |-> <<>>, read |-> <<>>, alone |-> FALSE, all |-> FALSE]

ModsInit ==
    /\ layout \in {"engine", "n64"} /\ file = Empty /\ modPage = Scan(Empty) /\ pen = NoPen
    /\ edits = 0 /\ played = 0 /\ broken = 0

-----------------------------------------------------------------------------
(* One edit of the engines' file: only the feature's own block changes.  A *)
(* block made to carry a value is made enabled.                            *)
EngineSets(s, e) ==
    [s EXCEPT !.decided = @ \cup {e.f}, !.on = IF e.to = 1 THEN @ \cup {e.f} ELSE @ \ {e.f}]
EngineSetsOption(s, e) ==
    [s EXCEPT !.decided = @ \cup {e.f}, !.val[e.f] = e.to,
              !.on = IF e.f \in s.decided THEN @ ELSE @ \cup {e.f}]
(* One edit of n64lle's: the section is written whole, features and        *)
(* options, from the page.                                                 *)
Section(on, val) == [decided |-> Features, on |-> on, val |-> val]
PlusMinus(e) == IF e.to = 1 THEN modPage.on \cup {e.f} ELSE modPage.on \ {e.f}
OptionsAlone(e) == Section({}, [modPage.val EXCEPT ![e.f] = e.to])
SectionWithOption(e) == Section(modPage.on, [modPage.val EXCEPT ![e.f] = e.to])
Edited(s, e) ==
    CASE e.what = "on" /\ layout = "engine"  -> EngineSets(s, e)
      [] e.what = "on" /\ layout = "n64"     -> Section(PlusMinus(e), modPage.val)
      [] e.what = "val" /\ layout = "engine" -> EngineSetsOption(s, e)
      [] e.what = "val" /\ layout = "n64"    -> SectionWithOption(e)
      [] e.what = "all"                      -> Section(IF e.to = 1 THEN Features ELSE {}, modPage.val)

-----------------------------------------------------------------------------
(* The page.                                                               *)

Change == pen.todo = <<>> /\ edits < MaxEdits /\ edits' = edits + 1
Begin(es, all) == pen' = [NoPen EXCEPT !.todo = es, !.all = all]
Rescan ==
    /\ pen.todo = <<>> /\ modPage # Scan(file) /\ modPage' = Scan(file)
    /\ UNCHANGED <<layout, file, pen, edits, played, broken>>
Toggle(f) ==
    /\ Change
    /\ Begin(<<[what |-> "on", f |-> f, to |-> IF f \in modPage.on THEN 0 ELSE 1]>>, FALSE)
    /\ UNCHANGED <<layout, file, modPage, played, broken>>
(* n64lle's options are checked before a value is written; typing text     *)
(* into an engine's option is not                                          *)
SetOption(f, v) ==
    /\ v # modPage.val[f] /\ (layout = "n64" => v < 2) /\ Change
    /\ Begin(<<[what |-> "val", f |-> f, to |-> v]>>, FALSE)
    /\ UNCHANGED <<layout, file, modPage, played, broken>>
(* all features: one write of the section, or one per feature              *)
SetAll(to) ==
    /\ Change
    /\ Begin(IF layout = "n64" THEN <<[what |-> "all", f |-> CHOOSE f \in Features : TRUE, to |-> to]>>
             ELSE SetToSeq({[what |-> "on", f |-> f, to |-> to] : f \in Features}), TRUE)
    /\ UNCHANGED <<layout, file, modPage, played, broken>>

(* A write reads the file, and publishes it later.  state.toml is renamed  *)
(* into place, after removing it if need be; mods.toml is truncated.       *)
Read ==
    /\ pen.todo # <<>> /\ pen.read = <<>>
    /\ pen' = [pen EXCEPT !.read = <<file>>, !.alone = layout = "engine" \/ modPage = Scan(file)]
    /\ UNCHANGED <<layout, file, modPage, edits, played, broken>>
AfterWrite == [NoPen EXCEPT !.todo = Tail(pen.todo), !.all = pen.all]
Publish ==
    /\ pen.read # <<>>
    /\ file' = Edited(pen.read[1], Head(pen.todo))
    /\ pen' = AfterWrite
    /\ modPage' = IF Len(pen.todo) = 1 THEN Scan(file') ELSE modPage
    /\ UNCHANGED <<layout, edits, played, broken>>
(* the pages rescan after a failure only where a whole package was asked   *)
PublishFails ==
    /\ pen.read # <<>> /\ broken < MaxBroken /\ broken' = broken + 1
    /\ file' \in {file, Empty}
    /\ pen' = AfterWrite
    /\ modPage' = IF Len(pen.todo) = 1 /\ pen.all THEN Scan(file') ELSE modPage
    /\ UNCHANGED <<layout, edits, played>>

(* The game's own menu: it writes what it stands at, with one change.      *)
GameSets(f) ==
    /\ played < MaxGame /\ played' = played + 1
    /\ LET now == Scan(file)
           on == IF f \in now.on THEN now.on \ {f} ELSE now.on \cup {f}
       IN file' = Section(on, file.val)
    /\ pen' = [pen EXCEPT !.alone = FALSE]
    /\ UNCHANGED <<layout, modPage, edits, broken>>

ModsNext ==
    \/ Rescan \/ Read \/ Publish \/ PublishFails
    \/ \E f \in Features : Toggle(f) \/ GameSets(f) \/ \E v \in Values : SetOption(f, v)
    \/ \E to \in 0 .. 1 : SetAll(to)
ModsSpec == ModsInit /\ [][ModsNext]_moVars

-----------------------------------------------------------------------------
(* Types; and no value is written into mods.toml that its option does not  *)
(* allow: the game refuses the whole plan for one (mods.cpp:1088).         *)
ModsTypeOK ==
    /\ file.decided \subseteq Features /\ file.on \subseteq Features
    /\ modPage.on \subseteq Features
    /\ \A f \in Features : file.val[f] \in IF layout = "n64" THEN 0 .. 1 ELSE Values

(* A change to one feature, or to one of its options, leaves every other   *)
(* feature running or not as it did, and every other value, when the game  *)
(* has written nothing the hub has not read: although a block or a section *)
(* that did not exist now decides what the manifest decided before.        *)
Landed == pen.read # <<>> /\ edits' = edits /\ broken' = broken /\ pen'.read = <<>>
EditIsLocal ==
    [][Landed /\ pen.alone /\ Head(pen.todo).what # "all" =>
         \A g \in Features \ {Head(pen.todo).f} :
            (Runs(file', g) <=> Runs(file, g)) /\ file'.val[g] = file.val[g]]_moVars
=============================================================================
