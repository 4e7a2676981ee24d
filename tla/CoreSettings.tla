---------------------------- MODULE CoreSettings ----------------------------
(***************************************************************************)
(* The settings page of a core and the files behind it: the controllers,   *)
(* the options and the picture of a platform, the options and the picture  *)
(* of one game over them, and the play preferences every core shares, which*)
(* a game in the hub's window writes too.  The page keeps, for each of the *)
(* six layers, the values on screen and the values it takes for saved; a   *)
(* layer's values are one number, 0 for the defaults a missing file means. *)
(***************************************************************************)
EXTENDS Naturals, Sequences

CONSTANTS Games,       \* titles of the platform that have layers of their own
          MaxValues,   \* bound: values made, on the page or in a game
          MaxUnsaved   \* bound: files that cannot be written

ASSUME CoreSettingsAssumption == MaxValues \in Nat /\ MaxUnsaved \in Nat

NoGame == "none"
Shared == {"input", "plat", "prefs", "view"}
Own == {"own", "ownView"}
Layers == Shared \union Own
Files == (Shared \X {NoGame}) \union (Own \X Games)
At(l, key) == <<l, IF l \in Own THEN key ELSE NoGame>>

VARIABLES shell,    \* the overlay shell, or the older page
          ini,      \* the files
          sheet,    \* the page
          session,  \* the game's copy of the preferences: <<it>>, or <<>>
          used      \* how often the bounded things happened

csVars == <<shell, ini, sheet, session, used>>

NoSheet == [open |-> FALSE, mode |-> "library", key |-> NoGame, scoped |-> FALSE,
            controls |-> FALSE, all |-> FALSE, kept |-> 0, torn |-> FALSE,
            edited |-> [l \in Layers |-> 0], saved |-> [l \in Layers |-> 0]]

CoreSettingsInit ==
    /\ shell \in BOOLEAN /\ ini = [f \in Files |-> 0]
    /\ sheet = NoSheet /\ session = <<>> /\ used = [edits |-> 0, unsaved |-> 0]

-----------------------------------------------------------------------------
Made(n) == used.edits < MaxValues /\ n = used.edits + 1
Count(n) == used' = [used EXCEPT !.edits = IF n > @ THEN n ELSE @]
Fails == used.unsaved < MaxUnsaved /\ used' = [used EXCEPT !.unsaved = @ + 1]
OnSheet == sheet.open /\ session = <<>>
Dirty == sheet.edited # sheet.saved
Stored(key) == [l \in Layers |-> IF l \in Own /\ key = NoGame THEN 0 ELSE ini[At(l, key)]]

(* The page opens over a platform, over one game (from its page, or in     *)
(* Direct mode, which edits that game only), or for the preferences alone. *)
Open(mode, key) ==
    /\ ~sheet.open /\ session = <<>>
    /\ mode = "global" => key = NoGame /\ shell
    /\ mode = "direct" => key # NoGame
    /\ sheet' = [NoSheet EXCEPT !.open = TRUE, !.mode = mode, !.key = key,
                               !.scoped = mode = "direct",
                               !.edited = Stored(key), !.saved = Stored(key)]
    /\ UNCHANGED <<shell, ini, session, used>>

(* The sections: the controllers are their own in the shell, and whatever  *)
(* changes there is saved at the end of the frame, but not in the middle   *)
(* of binding all the buttons; a file that cannot be written is tried again*)
(* in the next frame.                                                      *)
OtherSection ==
    /\ OnSheet /\ shell /\ sheet.mode # "global" /\ ~sheet.all
    /\ sheet' = [sheet EXCEPT !.controls = ~@]
    /\ UNCHANGED <<shell, ini, session, used>>
Autosaves(s) == shell /\ s.mode # "global" /\ s.controls /\ ~s.all
EndFrame(s, ok) ==
    IF Autosaves(s) /\ ok
    THEN /\ ini' = [ini EXCEPT ![At("input", NoGame)] = s.edited["input"]]
         /\ sheet' = [s EXCEPT !.saved["input"] = s.edited["input"]]
    ELSE sheet' = s /\ ini' = ini
Frame(ok) ==
    /\ OnSheet /\ Autosaves(sheet) /\ sheet.edited["input"] # sheet.saved["input"]
    /\ EndFrame(sheet, ok)
    /\ UNCHANGED <<shell, session, used>>

(* What the rows in front edit; a game's own layers in its scope only.     *)
InScope == IF sheet.scoped THEN Own ELSE {"plat", "view"}
Editable ==
    CASE sheet.mode = "global" -> {"prefs", "input"}
      [] shell /\ sheet.mode # "global" /\ sheet.controls -> {"input"}
      [] shell /\ sheet.mode # "global" /\ ~sheet.controls -> InScope
      [] OTHER -> InScope \union {"prefs", "input"}
Set(s, l, v) == [s EXCEPT !.edited[l] = v]
Edit(l, v, ok) ==
    /\ OnSheet /\ ~sheet.all /\ l \in Editable
    /\ v \in {0, sheet.saved[l]} \/ Made(v)
    /\ EndFrame(Set(sheet, l, v), ok)
    /\ Count(v) /\ UNCHANGED <<shell, session>>

(* Reset: a section's options, and for the picture its rows too.           *)
Reset(both) ==
    /\ OnSheet /\ ~sheet.all /\ ~sheet.controls /\ (shell => Dirty)
    /\ sheet' = [sheet EXCEPT !.edited =
         [l \in Layers |-> IF \/ sheet.mode = "global" /\ l = "prefs"
                              \/ /\ sheet.mode # "global" /\ l \in InScope
                                 /\ both \/ l \in {"plat", "own"}
                           THEN 0 ELSE @[l]]]
    /\ UNCHANGED <<shell, ini, session, used>>

(* Binding all the buttons, one after the other.  Cancel and B put back    *)
(* what was there before; after the last button, or Escape, what was bound *)
(* stays and is saved.                                                     *)
BindAll ==
    /\ OnSheet /\ shell /\ sheet.mode # "global" /\ sheet.controls /\ ~sheet.all
    /\ sheet' = [sheet EXCEPT !.all = TRUE, !.kept = sheet.edited["input"]]
    /\ UNCHANGED <<shell, ini, session, used>>
Bind(v) ==
    /\ OnSheet /\ sheet.all /\ Made(v)
    /\ sheet' = Set(sheet, "input", v)
    /\ Count(v) /\ UNCHANGED <<shell, ini, session>>
BindEnds(cancelled, ok) ==
    /\ OnSheet /\ sheet.all
    /\ EndFrame([sheet EXCEPT !.all = FALSE,
                   !.edited["input"] = IF cancelled THEN sheet.kept ELSE @], ok)
    /\ UNCHANGED <<shell, session, used>>

(* Another game's layers, or every game's, while nothing is edited.        *)
(* Mutant of ScopeOf. *)
ScopeOfOptions(s, key) ==
    [s EXCEPT !.key = key, !.scoped = key # NoGame,
              !.edited["own"] = Stored(key)["own"], !.saved["own"] = Stored(key)["own"]]
ScopeOf(s, key) ==
    [s EXCEPT !.key = key, !.scoped = key # NoGame,
              !.edited = [l \in Layers |-> IF l \in Own THEN Stored(key)[l] ELSE @[l]],
              !.saved = [l \in Layers |-> IF l \in Own THEN Stored(key)[l] ELSE @[l]]]
SetScope(key) ==
    /\ OnSheet /\ shell /\ sheet.mode = "library" /\ ~sheet.controls /\ ~Dirty
    /\ sheet' = ScopeOf(sheet, key)
    /\ UNCHANGED <<shell, ini, session, used>>
(* The older page switches between the two it was opened with.             *)
OtherScope ==
    /\ OnSheet /\ ~shell /\ sheet.mode = "library" /\ sheet.key # NoGame
    /\ sheet' = [sheet EXCEPT !.scoped = ~@]
    /\ UNCHANGED <<shell, ini, session, used>>

-----------------------------------------------------------------------------
(* Save writes one file after another, each beside the old one and renamed *)
(* over it, and stops at the first that cannot be written: the files before*)
(* it have the new values then, and the page still takes the old ones for  *)
(* saved.                                                                  *)
Changed(l) == sheet.edited[l] # sheet.saved[l]
Order == IF sheet.mode = "global" THEN <<"prefs", "input">>
         ELSE <<"input", "plat", "own", "prefs", "view", "ownView">>
Writes(l) ==
    /\ l \in Own => sheet.key # NoGame
    /\ l \in {"prefs", "view", "ownView"} \/ sheet.mode = "global" => Changed(l)
WrittenBy(n) == {l \in {Order[i] : i \in 1 .. n} : Writes(l)}
Written(n) ==
    [f \in Files |-> IF f[1] \in WrittenBy(n) /\ f = At(f[1], sheet.key)
                     THEN sheet.edited[f[1]] ELSE ini[f]]
Saves == OnSheet /\ ~sheet.all /\ (shell => Dirty)
Save ==
    /\ Saves
    /\ ini' = Written(Len(Order))
    /\ sheet' = [sheet EXCEPT !.saved = sheet.edited, !.open = shell]
    /\ UNCHANGED <<shell, session, used>>
SaveFails ==
    /\ Saves /\ Fails
    /\ \E n \in 0 .. Len(Order) - 1 :
         /\ Writes(Order[n + 1])
         /\ ini' = Written(n)
         /\ sheet' = [sheet EXCEPT !.torn = @ \/ WrittenBy(n) # {}]
    /\ UNCHANGED <<shell, session>>

(* The shell's Cancel keeps the page; the older one's, the way back and    *)
(* the tabs close it, in Direct mode and to another tab only when clean.   *)
Dropped(s) == [s EXCEPT !.edited = s.saved]
Revert ==
    /\ OnSheet /\ shell /\ ~sheet.all /\ Dirty
    /\ sheet' = Dropped(sheet)
    /\ UNCHANGED <<shell, ini, session, used>>
Close ==
    /\ OnSheet
    /\ (sheet.mode = "direct" /\ shell) \/ sheet.all => ~Dirty
    /\ sheet' = [Dropped(sheet) EXCEPT !.open = FALSE, !.all = FALSE]
    /\ UNCHANGED <<shell, ini, session, used>>

(* A game starts with what is on disk, over the page when its launch was   *)
(* asked before; its own volume and frame counter are saved as they change.*)
PlayGame ==
    /\ session = <<>>
    /\ session' = <<ini[At("prefs", NoGame)]>>
    /\ UNCHANGED <<shell, ini, sheet, used>>
PlayedPrefs(v, ok) ==
    /\ session # <<>> /\ Made(v)
    /\ session' = <<v>>
    /\ ini' = IF ok THEN [ini EXCEPT ![At("prefs", NoGame)] = v] ELSE ini
    /\ sheet' = [sheet EXCEPT !.torn = @ \/ (ok /\ sheet.open)]
    /\ Count(v) /\ UNCHANGED shell
GameOver ==
    /\ session # <<>> /\ session' = <<>>
    /\ UNCHANGED <<shell, ini, sheet, used>>

CoreSettingsNext ==
    \/ \E mode \in {"library", "direct", "global"}, key \in Games \union {NoGame} : Open(mode, key)
    \/ OtherSection \/ \E ok \in BOOLEAN : Frame(ok)
    \/ \E l \in Layers, v \in 0 .. MaxValues, ok \in BOOLEAN : Edit(l, v, ok)
    \/ \E both \in BOOLEAN : Reset(both)
    \/ BindAll \/ \E v \in 1 .. MaxValues : Bind(v)
    \/ \E cancelled, ok \in BOOLEAN : BindEnds(cancelled, ok)
    \/ \E key \in Games \union {NoGame} : SetScope(key)
    \/ OtherScope \/ Save \/ SaveFails \/ Revert \/ Close \/ PlayGame \/ GameOver
    \/ \E v \in 1 .. MaxValues, ok \in BOOLEAN : PlayedPrefs(v, ok)
CoreSettingsSpec == CoreSettingsInit /\ [][CoreSettingsNext]_csVars

-----------------------------------------------------------------------------
CoreSettingsTypeOK ==
    /\ shell \in BOOLEAN /\ ini \in [Files -> 0 .. MaxValues]
    /\ sheet.mode \in {"library", "direct", "global"} /\ sheet.key \in Games \union {NoGame}
    /\ {sheet.open, sheet.scoped, sheet.controls, sheet.all, sheet.torn} \subseteq BOOLEAN
    /\ {sheet.edited, sheet.saved} \subseteq [Layers -> 0 .. MaxValues]
    /\ session \in {<<>>} \union {<<v>> : v \in 0 .. MaxValues}
    /\ used.edits \in 0 .. MaxValues /\ used.unsaved \in 0 .. MaxUnsaved

(* The page that shows no unsaved changes shows what is on disk, through   *)
(* every change of scope, of section and of page, the saves the controllers*)
(* make on their own and a binding that was given up: closing it then      *)
(* loses nothing and the next game starts with what was seen.  A save that *)
(* failed in the middle, or a game that wrote the preferences behind an    *)
(* open page, is left out: the page cannot tell there (hub_main.cpp:11273, *)
(* 11413-11467, 13655-13672, 15591-15604).                                 *)
CleanMeansSaved ==
    sheet.open /\ ~Dirty /\ ~sheet.torn =>
        \A l \in Layers : l \in Shared \/ sheet.key # NoGame =>
            sheet.edited[l] = ini[At(l, sheet.key)]
=============================================================================
