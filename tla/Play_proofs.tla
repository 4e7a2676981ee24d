------------------------------ MODULE Play_proofs -----------------------------
(***************************************************************************)
(* Proofs about playing a title: the settings page, the files a launch     *)
(* stages and starts from, the Mods page, what the menu over a game may    *)
(* lose, and the types all four keep; for every set of games, media,       *)
(* features and slots, and any number of edits, launches and presses.      *)
(***************************************************************************)
EXTENDS MCPlay, FiniteSetTheorems, SequenceTheorems, TLAPS

(* The settings page.                                                      *)

Shown == 0 .. MaxValues
Copied(it) == it \in {<<>>} \cup {<<v>> : v \in Shown}
Sheets == [open : BOOLEAN, mode : {"library", "direct", "global"}, key : Games \cup {NoGame},
           scoped : BOOLEAN, controls : BOOLEAN, all : BOOLEAN, kept : Shown, torn : BOOLEAN,
           edited : [Layers -> Shown], saved : [Layers -> Shown]]

PageTyped == sheet \in Sheets /\ ini \in [Files -> Shown] /\ Copied(session)

LEMMA ShownValues == 0 \in Shown /\ 1 .. MaxValues \subseteq Shown
  BY CoreSettingsAssumption DEF Shown

(* What a page takes for saved is in the files, in the layers it has: the  *)
(* games' own layers only when it is opened for one.                       *)
Has(s, l) == l \in Shared \/ s.key # NoGame
Matches(s, d) ==
    s.open /\ ~s.torn => \A l \in Layers : Has(s, l) => s.saved[l] = d[At(l, s.key)]

(* The page of the preferences alone edits nothing of a core's.            *)
GlobalIsPrefs(s) ==
    s.mode = "global" => \A l \in Layers \ {"prefs", "input"} : s.edited[l] = s.saved[l]

CoreSettingsInv == PageTyped /\ Matches(sheet, ini) /\ GlobalIsPrefs(sheet)
-----------------------------------------------------------------------------
(* The files a page has.                                                   *)
LEMMA FilesOfPage ==
  ASSUME NEW s \in Sheets, NEW l \in Layers, Has(s, l)
  PROVE  At(l, s.key) \in Files /\ At(l, s.key)[1] = l
  BY DEF Sheets, Has, Layers, Shared, Own, Files, At

LEMMA InputFile == At("input", NoGame) \in Files /\ \A k : At("input", k) = At("input", NoGame)
  BY DEF At, Files, Shared, Own

LEMMA PrefsFile == At("prefs", NoGame) \in Files /\ \A k : At("prefs", k) = At("prefs", NoGame)
  BY DEF At, Files, Shared, Own

(* Only the controllers' layer is kept in the controllers' file.           *)
LEMMA InputFileAlone ==
  ASSUME NEW l \in Layers, NEW k, l # "input"
  PROVE  At(l, k) # At("input", NoGame)
  BY DEF At

LEMMA StoredTyped ==
  ASSUME PageTyped, NEW key \in Games \cup {NoGame}
  PROVE  /\ Stored(key) \in [Layers -> Shown]
         /\ \A l \in Layers : l \in Shared \/ key # NoGame => Stored(key)[l] = ini[At(l, key)]
  <1> USE ShownValues DEF PageTyped, Stored
  <1>1. ASSUME NEW l \in Layers, l \in Shared \/ key # NoGame
        PROVE  At(l, key) \in Files
    BY <1>1 DEF Layers, Shared, Own, Files, At
  <1>2. \A l \in Layers : l \in Shared \/ l \in Own
    BY DEF Layers
  <1>3. \A l \in Shared : l \notin Own
    BY DEF Shared, Own
  <1>4. QED
    BY <1>1, <1>2, <1>3

(* The end of a frame writes the controllers to their file, or nothing.    *)
LEMMA EndFrameKeeps ==
  ASSUME ini \in [Files -> Shown], session' = session, Copied(session),
         NEW s \in Sheets, Matches(s, ini), GlobalIsPrefs(s),
         NEW ok \in BOOLEAN, EndFrame(s, ok)
  PROVE  CoreSettingsInv'
  <1>1. CASE Autosaves(s) /\ ok
    <2>1. /\ ini' = [ini EXCEPT ![At("input", NoGame)] = s.edited["input"]]
          /\ sheet' = [s EXCEPT !.saved["input"] = s.edited["input"]]
      BY <1>1 DEF EndFrame
    <2>2. "input" \in Layers /\ s.edited["input"] \in Shown
      BY DEF Layers, Shared, Sheets
    <2>3. sheet' \in Sheets /\ ini' \in [Files -> Shown]
      BY <2>1, <2>2, InputFile DEF Sheets
    <2>4. /\ sheet'.open = s.open /\ sheet'.torn = s.torn /\ sheet'.key = s.key
          /\ sheet'.saved = [s.saved EXCEPT !["input"] = s.edited["input"]]
      BY <2>1 DEF Sheets
    <2>5. ASSUME s.open, ~s.torn, NEW l \in Layers, Has(s, l)
          PROVE  sheet'.saved[l] = ini'[At(l, s.key)]
      <3>1. At(l, s.key) \in Files
        BY <2>5, FilesOfPage
      <3>2. s.saved[l] = ini[At(l, s.key)]
        BY <2>5 DEF Matches
      <3>3. CASE l = "input"
        BY <2>1, <2>2, <2>4, <3>3, InputFile DEF Sheets
      <3>4. CASE l # "input"
        <4>1. ini'[At(l, s.key)] = ini[At(l, s.key)]
          BY <2>1, <3>1, <3>4, InputFileAlone
        <4>2. QED
          BY <2>4, <3>2, <3>4, <4>1 DEF Sheets
      <3>5. QED
        BY <3>3, <3>4
    <2>6. Matches(sheet', ini')
      BY <2>4, <2>5 DEF Matches, Has
    <2>7. sheet'.mode # "global"
      BY <1>1, <2>1 DEF Autosaves, Sheets
    <2>8. QED
      BY <2>3, <2>6, <2>7 DEF CoreSettingsInv, PageTyped, GlobalIsPrefs, Matches, Has
  <1>2. CASE ~(Autosaves(s) /\ ok)
    <2>1. sheet' = s /\ ini' = ini
      BY <1>2 DEF EndFrame
    <2>2. QED
      BY <2>1 DEF CoreSettingsInv, PageTyped, GlobalIsPrefs, Matches, Has
  <1>3. QED
    BY <1>1, <1>2

(* What Save has written up to the nth file has the values on screen.      *)
LEMMA WrittenTyped ==
  ASSUME PageTyped, NEW n \in Nat
  PROVE  /\ Written(n) \in [Files -> Shown]
         /\ WrittenBy(n) = {} => Written(n) = ini
  BY DEF PageTyped, Written, WrittenBy, Files, Layers, Sheets

(* A layer Save leaves alone is one that has not changed.                  *)
LEMMA SaveWritesAll ==
  ASSUME CoreSettingsInv, sheet.open, ~sheet.torn, NEW l \in Layers, Has(sheet, l),
         l \notin WrittenBy(Len(Order))
  PROVE  sheet.edited[l] = sheet.saved[l]
  <1>1. CASE sheet.mode = "global"
    <2>1. Order = <<"prefs", "input">>
      BY <1>1 DEF Order
    <2>2. {"prefs", "input"} = {Order[i] : i \in 1 .. Len(Order)}
      <3>1. Len(Order) = 2 /\ Order[1] = "prefs" /\ Order[2] = "input"
        BY <2>1
      <3>2. QED
        BY <3>1
    <2>3. l \in {"prefs", "input"} => ~Writes(l)
      BY <2>2 DEF WrittenBy
    <2>4. l \in {"prefs", "input"} => l \notin Own
      BY DEF Own
    <2>5. QED
      BY <1>1, <2>3, <2>4 DEF Writes, Changed, CoreSettingsInv, GlobalIsPrefs
  <1>2. CASE sheet.mode # "global"
    <2>1. Order = <<"input", "plat", "own", "prefs", "view", "ownView">>
      BY <1>2 DEF Order
    <2>2. Len(Order) = 6 /\ Order[1] = "input" /\ Order[2] = "plat" /\ Order[3] = "own"
          /\ Order[4] = "prefs" /\ Order[5] = "view" /\ Order[6] = "ownView"
      BY <2>1
    <2>3. l \in {Order[i] : i \in 1 .. Len(Order)}
      BY <2>2 DEF Layers, Shared, Own
    <2>4. ~Writes(l)
      BY <2>3 DEF WrittenBy
    <2>5. l \in Own => sheet.key # NoGame
      BY DEF Has, Shared, Own
    <2>6. QED
      BY <2>4, <2>5 DEF Writes, Changed
  <1>3. QED
    BY <1>1, <1>2
-----------------------------------------------------------------------------
LEMMA CoreSettingsInitInv == CoreSettingsInit => CoreSettingsInv
  BY ShownValues
  DEF CoreSettingsInit, CoreSettingsInv, PageTyped, Copied, Matches, GlobalIsPrefs, NoSheet, Sheets

LEMMA OpenKeeps ==
  ASSUME CoreSettingsInv, NEW mode \in {"library", "direct", "global"},
         NEW key \in Games \cup {NoGame}, Open(mode, key)
  PROVE  CoreSettingsInv'
  <1>1. /\ Stored(key) \in [Layers -> Shown]
        /\ \A l \in Layers : l \in Shared \/ key # NoGame => Stored(key)[l] = ini[At(l, key)]
    BY StoredTyped DEF CoreSettingsInv
  <1>2. sheet' = [NoSheet EXCEPT !.open = TRUE, !.mode = mode, !.key = key,
                    !.scoped = mode = "direct", !.edited = Stored(key), !.saved = Stored(key)]
        /\ ini' = ini /\ session' = session
    BY DEF Open
  <1>3. sheet' \in Sheets /\ sheet'.key = key /\ sheet'.saved = Stored(key)
        /\ sheet'.edited = sheet'.saved
    BY <1>1, <1>2, ShownValues DEF NoSheet, Sheets
  <1>4. QED
    BY <1>1, <1>2, <1>3 DEF CoreSettingsInv, PageTyped, Matches, Has, GlobalIsPrefs

(* Another game's layers replace both what is edited and what is saved.    *)
LEMMA SetScopeKeeps ==
  ASSUME CoreSettingsInv, NEW key \in Games \cup {NoGame}, SetScope(key)
  PROVE  CoreSettingsInv'
  <1>1. /\ Stored(key) \in [Layers -> Shown]
        /\ \A l \in Layers : l \in Shared \/ key # NoGame => Stored(key)[l] = ini[At(l, key)]
    BY StoredTyped DEF CoreSettingsInv
  <1>2. sheet \in Sheets /\ sheet.mode = "library" /\ sheet.open
    BY DEF CoreSettingsInv, PageTyped, SetScope, OnSheet
  <1>3. sheet' = ScopeOf(sheet, key) /\ ini' = ini /\ session' = session
    BY DEF SetScope
  <1>4. /\ sheet' \in Sheets /\ sheet'.key = key /\ sheet'.mode = "library"
        /\ sheet'.torn = sheet.torn /\ sheet'.open = sheet.open
        /\ sheet'.saved = [l \in Layers |-> IF l \in Own THEN Stored(key)[l] ELSE sheet.saved[l]]
    BY <1>1, <1>2, <1>3 DEF ScopeOf, Sheets
  <1>5. ASSUME sheet'.open, ~sheet'.torn, NEW l \in Layers, Has(sheet', l)
        PROVE  sheet'.saved[l] = ini'[At(l, key)]
    <2>1. CASE l \in Own
      BY <1>1, <1>3, <1>4, <1>5, <2>1 DEF Has
    <2>2. CASE l \notin Own
      <3>1. l \in Shared /\ At(l, key) = At(l, sheet.key)
        BY <2>2 DEF Layers, At
      <3>2. sheet.saved[l] = ini[At(l, sheet.key)]
        BY <1>4, <1>5, <3>1 DEF CoreSettingsInv, Matches, Has
      <3>3. QED
        BY <1>3, <1>4, <2>2, <3>1, <3>2
    <2>3. QED
      BY <2>1, <2>2
  <1>6. QED
    BY <1>3, <1>4, <1>5 DEF CoreSettingsInv, PageTyped, Matches, GlobalIsPrefs

LEMMA SaveKeeps ==
  ASSUME CoreSettingsInv, Save, shell \in BOOLEAN
  PROVE  CoreSettingsInv'
  <1>1. sheet \in Sheets /\ sheet.open
    BY DEF CoreSettingsInv, PageTyped, Save, Saves, OnSheet
  <1>2. ini' = Written(Len(Order)) /\ session' = session
        /\ sheet' = [sheet EXCEPT !.saved = sheet.edited, !.open = shell]
    BY DEF Save
  <1>3. Len(Order) \in Nat
    BY DEF Order
  <1>4. ini' \in [Files -> Shown]
    BY <1>2, <1>3, WrittenTyped DEF CoreSettingsInv
  <1>5. sheet' \in Sheets /\ sheet'.saved = sheet.edited /\ sheet'.edited = sheet.edited
        /\ sheet'.key = sheet.key /\ sheet'.torn = sheet.torn
    BY <1>1, <1>2 DEF Sheets
  <1>6. ASSUME ~sheet.torn, NEW l \in Layers, Has(sheet, l)
        PROVE  sheet.edited[l] = ini'[At(l, sheet.key)]
    <2>1. At(l, sheet.key) \in Files /\ At(l, sheet.key)[1] = l
      BY <1>1, <1>6, FilesOfPage
    <2>2. CASE l \in WrittenBy(Len(Order))
      BY <1>2, <2>1, <2>2 DEF Written
    <2>3. CASE l \notin WrittenBy(Len(Order))
      <3>1. ini'[At(l, sheet.key)] = ini[At(l, sheet.key)]
        BY <1>2, <2>1, <2>3 DEF Written
      <3>2. sheet.edited[l] = sheet.saved[l]
        BY <1>1, <1>6, <2>3, SaveWritesAll
      <3>3. sheet.saved[l] = ini[At(l, sheet.key)]
        BY <1>1, <1>6 DEF CoreSettingsInv, Matches
      <3>4. QED
        BY <3>1, <3>2, <3>3
    <2>4. QED
      BY <2>2, <2>3
  <1>7. QED
    BY <1>2, <1>4, <1>5, <1>6 DEF CoreSettingsInv, PageTyped, Matches, Has, GlobalIsPrefs

(* A save that failed after it wrote something is marked torn.             *)
LEMMA SaveFailsKeeps ==
  ASSUME CoreSettingsInv, SaveFails
  PROVE  CoreSettingsInv'
  <1>1. sheet \in Sheets
    BY DEF CoreSettingsInv, PageTyped
  <1>2. PICK n \in 0 .. Len(Order) - 1 :
          ini' = Written(n) /\ sheet' = [sheet EXCEPT !.torn = @ \/ WrittenBy(n) # {}]
    BY DEF SaveFails
  <1>3. n \in Nat /\ session' = session
    BY DEF SaveFails
  <1>4. ini' \in [Files -> Shown] /\ (WrittenBy(n) = {} => ini' = ini)
    BY <1>2, <1>3, WrittenTyped DEF CoreSettingsInv
  <1>5. sheet' \in Sheets
    BY <1>1, <1>2 DEF Sheets
  <1>6. /\ sheet'.open = sheet.open /\ sheet'.key = sheet.key /\ sheet'.mode = sheet.mode
        /\ sheet'.edited = sheet.edited /\ sheet'.saved = sheet.saved
        /\ ~sheet'.torn => ~sheet.torn /\ WrittenBy(n) = {}
    BY <1>1, <1>2 DEF Sheets
  <1>7. QED
    BY <1>3, <1>4, <1>5, <1>6 DEF CoreSettingsInv, PageTyped, Matches, Has, GlobalIsPrefs

(* An edit of a layer of the page is not yet in its file.                  *)
LEMMA SetKeeps ==
  ASSUME CoreSettingsInv, NEW l \in Layers, NEW v \in Shown,
         sheet.mode = "global" => l \in {"prefs", "input"}
  PROVE  /\ Set(sheet, l, v) \in Sheets /\ Matches(Set(sheet, l, v), ini)
         /\ GlobalIsPrefs(Set(sheet, l, v))
  <1>1. sheet \in Sheets
    BY DEF CoreSettingsInv, PageTyped
  <1>2. /\ Set(sheet, l, v) \in Sheets
        /\ Set(sheet, l, v).open = sheet.open /\ Set(sheet, l, v).key = sheet.key
        /\ Set(sheet, l, v).torn = sheet.torn /\ Set(sheet, l, v).mode = sheet.mode
        /\ Set(sheet, l, v).saved = sheet.saved
        /\ Set(sheet, l, v).edited = [sheet.edited EXCEPT ![l] = v]
    BY <1>1 DEF Set, Sheets
  <1>3. QED
    BY <1>1, <1>2 DEF CoreSettingsInv, Matches, Has, GlobalIsPrefs, Sheets

(* A step that changes of the page neither what it has nor what it takes   *)
(* for saved, and no file.                                                 *)
LEMMA SameSavedKeeps ==
  ASSUME CoreSettingsInv, sheet' \in Sheets, ini' = ini, Copied(session'),
         sheet'.open => sheet.open /\ (sheet.torn => sheet'.torn),
         sheet'.key = sheet.key, sheet'.saved = sheet.saved, GlobalIsPrefs(sheet')
  PROVE  CoreSettingsInv'
  BY DEF CoreSettingsInv, PageTyped, Matches, Has, GlobalIsPrefs

LEMMA DroppedKeeps ==
  ASSUME CoreSettingsInv
  PROVE  /\ Dropped(sheet) \in Sheets /\ Dropped(sheet).key = sheet.key
         /\ Dropped(sheet).saved = sheet.saved /\ Dropped(sheet).edited = sheet.saved
         /\ Dropped(sheet).open = sheet.open /\ Dropped(sheet).torn = sheet.torn
         /\ Dropped(sheet).mode = sheet.mode
  BY DEF CoreSettingsInv, PageTyped, Dropped, Sheets

(* A game that writes the preferences behind an open page tears it.        *)
LEMMA PlayedPrefsKeeps ==
  ASSUME CoreSettingsInv, NEW v \in Shown, NEW ok \in BOOLEAN, PlayedPrefs(v, ok)
  PROVE  CoreSettingsInv'
  <1>1. sheet \in Sheets /\ ini \in [Files -> Shown]
    BY DEF CoreSettingsInv, PageTyped
  <1>2. /\ session' = <<v>> /\ sheet' = [sheet EXCEPT !.torn = @ \/ (ok /\ sheet.open)]
        /\ ini' = IF ok THEN [ini EXCEPT ![At("prefs", NoGame)] = v] ELSE ini
    BY DEF PlayedPrefs
  <1>3. sheet' \in Sheets /\ ini' \in [Files -> Shown] /\ Copied(session')
    BY <1>1, <1>2, PrefsFile DEF Sheets, Copied
  <1>4. /\ sheet'.open = sheet.open /\ sheet'.key = sheet.key /\ sheet'.mode = sheet.mode
        /\ sheet'.edited = sheet.edited /\ sheet'.saved = sheet.saved
        /\ (sheet'.torn <=> sheet.torn \/ (ok /\ sheet.open))
    BY <1>1, <1>2 DEF Sheets
  <1>5. QED
    BY <1>2, <1>3, <1>4 DEF CoreSettingsInv, PageTyped, Matches, Has, GlobalIsPrefs

LEMMA CoreSettingsStep ==
  CoreSettingsInv /\ shell \in BOOLEAN /\ [CoreSettingsNext]_csVars => CoreSettingsInv'
  <1> SUFFICES ASSUME CoreSettingsInv, shell \in BOOLEAN, [CoreSettingsNext]_csVars
               PROVE  CoreSettingsInv'
    OBVIOUS
  <1>0. /\ sheet \in Sheets /\ ini \in [Files -> Shown] /\ Copied(session)
        /\ Matches(sheet, ini) /\ GlobalIsPrefs(sheet)
    BY DEF CoreSettingsInv, PageTyped
  <1>1. ASSUME NEW mode \in {"library", "direct", "global"}, NEW key \in Games \cup {NoGame},
               Open(mode, key)
        PROVE  CoreSettingsInv'
    BY <1>1, OpenKeeps
  <1>2. CASE OtherSection
    <2>1. sheet' = [sheet EXCEPT !.controls = ~@] /\ ini' = ini /\ session' = session
      BY <1>2 DEF OtherSection
    <2>2. /\ sheet' \in Sheets /\ sheet'.open = sheet.open /\ sheet'.torn = sheet.torn
          /\ sheet'.key = sheet.key /\ sheet'.saved = sheet.saved
          /\ sheet'.edited = sheet.edited /\ sheet'.mode = sheet.mode
      BY <1>0, <2>1 DEF Sheets
    <2>3. QED
      BY <1>0, <2>1, <2>2, SameSavedKeeps DEF GlobalIsPrefs
  <1>3. ASSUME NEW ok \in BOOLEAN, Frame(ok) PROVE CoreSettingsInv'
    BY <1>0, <1>3, EndFrameKeeps DEF Frame
  <1>4. ASSUME NEW l \in Layers, NEW v \in 0 .. MaxValues, NEW ok \in BOOLEAN, Edit(l, v, ok)
        PROVE  CoreSettingsInv'
    <2>1. sheet.mode = "global" => l \in {"prefs", "input"}
      BY <1>4 DEF Edit, Editable
    <2>2. v \in Shown
      BY DEF Shown
    <2>3. /\ Set(sheet, l, v) \in Sheets /\ Matches(Set(sheet, l, v), ini)
          /\ GlobalIsPrefs(Set(sheet, l, v))
      BY <2>1, <2>2, SetKeeps
    <2>4. EndFrame(Set(sheet, l, v), ok) /\ session' = session
      BY <1>4 DEF Edit
    <2>5. QED
      BY <1>0, <2>3, <2>4, EndFrameKeeps
  <1>5. ASSUME NEW both \in BOOLEAN, Reset(both) PROVE CoreSettingsInv'
    <2>1. PICK e \in [Layers -> Shown] :
            /\ sheet' = [sheet EXCEPT !.edited = e]
            /\ sheet.mode = "global" => \A l \in Layers \ {"prefs"} : e[l] = sheet.edited[l]
      <3> DEFINE e == [l \in Layers |-> IF \/ sheet.mode = "global" /\ l = "prefs"
                                          \/ /\ sheet.mode # "global" /\ l \in InScope
                                             /\ both \/ l \in {"plat", "own"}
                                       THEN 0 ELSE sheet.edited[l]]
      <3>1. e \in [Layers -> Shown]
        BY <1>0, ShownValues DEF Sheets
      <3>2. sheet' = [sheet EXCEPT !.edited = e]
        BY <1>5 DEF Reset
      <3>3. sheet.mode = "global" => \A l \in Layers \ {"prefs"} : e[l] = sheet.edited[l]
        OBVIOUS
      <3>4. QED
        BY <3>1, <3>2, <3>3
    <2>2. /\ sheet' \in Sheets /\ sheet'.open = sheet.open /\ sheet'.torn = sheet.torn
          /\ sheet'.key = sheet.key /\ sheet'.saved = sheet.saved
          /\ sheet'.edited = e /\ sheet'.mode = sheet.mode
      BY <1>0, <2>1 DEF Sheets
    <2>3. GlobalIsPrefs(sheet')
      BY <1>0, <2>1, <2>2 DEF GlobalIsPrefs
    <2>4. ini' = ini /\ session' = session
      BY <1>5 DEF Reset
    <2>5. QED
      BY <1>0, <2>2, <2>3, <2>4, SameSavedKeeps
  <1>6. CASE BindAll
    <2>1. sheet' = [sheet EXCEPT !.all = TRUE, !.kept = sheet.edited["input"]]
          /\ ini' = ini /\ session' = session
      BY <1>6 DEF BindAll
    <2>2. sheet.edited["input"] \in Shown
      BY <1>0 DEF Sheets, Layers, Shared
    <2>3. /\ sheet' \in Sheets /\ sheet'.open = sheet.open /\ sheet'.torn = sheet.torn
          /\ sheet'.key = sheet.key /\ sheet'.saved = sheet.saved
          /\ sheet'.edited = sheet.edited /\ sheet'.mode = sheet.mode
      BY <1>0, <2>1, <2>2 DEF Sheets
    <2>4. QED
      BY <1>0, <2>1, <2>3, SameSavedKeeps DEF GlobalIsPrefs
  <1>7. ASSUME NEW v \in 1 .. MaxValues, Bind(v) PROVE CoreSettingsInv'
    <2>1. v \in Shown /\ "input" \in Layers
      BY ShownValues DEF Layers, Shared
    <2>2. sheet' = Set(sheet, "input", v) /\ ini' = ini /\ session' = session
      BY <1>7 DEF Bind
    <2>3. QED
      BY <1>0, <2>1, <2>2, SetKeeps DEF CoreSettingsInv, PageTyped, Matches, Has, GlobalIsPrefs
  <1>8. ASSUME NEW cancelled \in BOOLEAN, NEW ok \in BOOLEAN, BindEnds(cancelled, ok)
        PROVE  CoreSettingsInv'
    <2> DEFINE s == [sheet EXCEPT !.all = FALSE,
                       !.edited["input"] = IF cancelled THEN sheet.kept ELSE @]
    <2>1. EndFrame(s, ok) /\ session' = session
      BY <1>8 DEF BindEnds
    <2>2. "input" \in Layers
      BY DEF Layers, Shared
    <2>3. /\ s \in Sheets /\ s.open = sheet.open /\ s.torn = sheet.torn /\ s.key = sheet.key
          /\ s.saved = sheet.saved /\ s.mode = sheet.mode
          /\ \A l \in Layers \ {"input"} : s.edited[l] = sheet.edited[l]
      BY <1>0, <2>2 DEF Sheets
    <2>4. Matches(s, ini) /\ GlobalIsPrefs(s)
      BY <1>0, <2>3 DEF Matches, Has, GlobalIsPrefs
    <2> HIDE DEF s
    <2>5. QED
      BY <1>0, <2>1, <2>3, <2>4, EndFrameKeeps
  <1>9. ASSUME NEW key \in Games \cup {NoGame}, SetScope(key) PROVE CoreSettingsInv'
    BY <1>9, SetScopeKeeps
  <1>10. CASE OtherScope
    <2>1. sheet' = [sheet EXCEPT !.scoped = ~@] /\ ini' = ini /\ session' = session
      BY <1>10 DEF OtherScope
    <2>2. /\ sheet' \in Sheets /\ sheet'.open = sheet.open /\ sheet'.torn = sheet.torn
          /\ sheet'.key = sheet.key /\ sheet'.saved = sheet.saved
          /\ sheet'.edited = sheet.edited /\ sheet'.mode = sheet.mode
      BY <1>0, <2>1 DEF Sheets
    <2>3. QED
      BY <1>0, <2>1, <2>2, SameSavedKeeps DEF GlobalIsPrefs
  <1>11. CASE Save
    BY <1>11, SaveKeeps
  <1>12. CASE SaveFails
    BY <1>12, SaveFailsKeeps
  <1>13. CASE Revert
    <2>1. sheet' = Dropped(sheet) /\ ini' = ini /\ session' = session
      BY <1>13 DEF Revert
    <2>2. QED
      BY <1>0, <2>1, DroppedKeeps, SameSavedKeeps DEF GlobalIsPrefs
  <1>14. CASE Close
    <2>1. /\ sheet' = [Dropped(sheet) EXCEPT !.open = FALSE, !.all = FALSE]
          /\ ini' = ini /\ session' = session
      BY <1>14 DEF Close
    <2>2. /\ sheet' \in Sheets /\ ~sheet'.open /\ sheet'.key = sheet.key
          /\ sheet'.saved = sheet.saved /\ sheet'.edited = sheet.saved
      BY <2>1, DroppedKeeps DEF Sheets
    <2>3. QED
      BY <1>0, <2>1, <2>2, SameSavedKeeps DEF GlobalIsPrefs
  <1>15. CASE PlayGame
    <2>1. sheet' = sheet /\ ini' = ini /\ session' = <<ini[At("prefs", NoGame)]>>
      BY <1>15 DEF PlayGame
    <2>2. Copied(session')
      BY <1>0, <2>1, PrefsFile DEF Copied
    <2>3. QED
      BY <1>0, <2>1, <2>2 DEF CoreSettingsInv, PageTyped, Matches, Has, GlobalIsPrefs
  <1>16. CASE GameOver
    <2>1. sheet' = sheet /\ ini' = ini /\ session' = <<>>
      BY <1>16 DEF GameOver
    <2>2. QED
      BY <1>0, <2>1 DEF Copied, CoreSettingsInv, PageTyped, Matches, Has, GlobalIsPrefs
  <1>17. ASSUME NEW v \in 1 .. MaxValues, NEW ok \in BOOLEAN, PlayedPrefs(v, ok)
         PROVE  CoreSettingsInv'
    BY <1>17, ShownValues, PlayedPrefsKeeps
  <1>18. CASE UNCHANGED csVars
    BY <1>0, <1>18 DEF csVars, CoreSettingsInv, PageTyped, Matches, Has, GlobalIsPrefs
  <1>19. QED
    BY <1>1, <1>2, <1>3, <1>4, <1>5, <1>6, <1>7, <1>8, <1>9, <1>10, <1>11, <1>12, <1>13,
       <1>14, <1>15, <1>16, <1>17, <1>18
    DEF CoreSettingsNext

(* The page's kind never changes under it.                                 *)
LEMMA ShellStays == shell \in BOOLEAN /\ [CoreSettingsNext]_csVars => (shell \in BOOLEAN)'
  BY DEF CoreSettingsNext, csVars, Open, OtherSection, Frame, Edit, Reset, BindAll, Bind,
         BindEnds, SetScope, OtherScope, Save, SaveFails, Revert, Close, PlayGame, PlayedPrefs,
         GameOver

(* A page that shows no unsaved changes shows what is in the files         *)
(* (hub_main.cpp:11273, 11413-11467, 13655-13672, 15591-15604), whatever   *)
(* was edited, bound, switched to and left before, and whichever file      *)
(* could not be written.                                                   *)
THEOREM CleanMeansSavedHolds == CoreSettingsSpec => []CleanMeansSaved
  <1>1. CoreSettingsInit => shell \in BOOLEAN
    BY DEF CoreSettingsInit
  <1>2. CoreSettingsInv => CleanMeansSaved
    BY DEF CoreSettingsInv, Matches, Has, CleanMeansSaved, Dirty
  <1>3. QED
    BY <1>1, <1>2, CoreSettingsInitInv, CoreSettingsStep, ShellStays, PTL DEF CoreSettingsSpec

(* The bounds are kept: what is counted, and what is made.                 *)
Counted ==
    /\ used = [edits |-> used.edits, unsaved |-> used.unsaved]
    /\ used.edits \in Shown /\ used.unsaved \in 0 .. MaxUnsaved

LEMMA CountKeeps ==
  ASSUME Counted, NEW v \in Shown, Count(v)
  PROVE  Counted'
  <1>1. used' = [used EXCEPT !.edits = IF v > used.edits THEN v ELSE used.edits]
    BY DEF Count
  <1>2. QED
    BY <1>1 DEF Counted

LEMMA CountedStep == Counted /\ [CoreSettingsNext]_csVars => Counted'
  <1> SUFFICES ASSUME Counted, [CoreSettingsNext]_csVars PROVE Counted'
    OBVIOUS
  <1>1. CASE used' = used
    BY <1>1 DEF Counted
  <1>2. ASSUME NEW l \in Layers, NEW v \in 0 .. MaxValues, NEW ok \in BOOLEAN, Edit(l, v, ok)
        PROVE  Counted'
    BY <1>2, CountKeeps DEF Edit, Shown
  <1>3. ASSUME NEW v \in 1 .. MaxValues, Bind(v) PROVE Counted'
    BY <1>3, CountKeeps, ShownValues DEF Bind
  <1>4. ASSUME NEW v \in 1 .. MaxValues, NEW ok \in BOOLEAN, PlayedPrefs(v, ok) PROVE Counted'
    BY <1>4, CountKeeps, ShownValues DEF PlayedPrefs
  <1>5. CASE SaveFails
    BY <1>5, CoreSettingsAssumption DEF SaveFails, Fails, Counted
  <1>6. QED
    BY <1>1, <1>2, <1>3, <1>4, <1>5
    DEF CoreSettingsNext, csVars, Open, OtherSection, Frame, Reset, BindAll, BindEnds, SetScope,
        OtherScope, Save, Revert, Close, PlayGame, GameOver

SettingsTyped == PageTyped /\ Counted /\ shell \in BOOLEAN

LEMMA SettingsTypedOK == SettingsTyped => CoreSettingsTypeOK
  BY DEF SettingsTyped, PageTyped, Counted, Copied, Shown, Sheets, CoreSettingsTypeOK

(* However many values are made and files fail, the page, the files and a  *)
(* game's copy hold values that were made, and the page is of a game there *)
(* is or of none (hub_main.cpp:11273).                                     *)
THEOREM CoreSettingsTyped == CoreSettingsSpec => []CoreSettingsTypeOK
  <1>1. CoreSettingsInit => CoreSettingsInv /\ Counted /\ shell \in BOOLEAN
    BY CoreSettingsInitInv, ShownValues, CoreSettingsAssumption DEF CoreSettingsInit, Counted
  <1>2. CoreSettingsInv /\ Counted /\ shell \in BOOLEAN => CoreSettingsTypeOK
    BY SettingsTypedOK DEF SettingsTyped, CoreSettingsInv
  <1>3. QED
    BY <1>1, <1>2, CoreSettingsStep, CountedStep, ShellStays, PTL DEF CoreSettingsSpec
-----------------------------------------------------------------------------
(* What Play starts.                                                       *)
LwShape == lw = [at |-> lw.at, media |-> lw.media, shown |-> lw.shown, skip |-> lw.skip,
                 bios |-> lw.bios, direct |-> lw.direct, pack |-> lw.pack, held |-> lw.held,
                 body |-> lw.body, turned |-> lw.turned, match |-> lw.match,
                 stale |-> lw.stale]
GameShape == game = [on |-> game.on, media |-> game.media, runs |-> game.runs] /\ game.runs \in Nat

(* Past the seed, the file names what the launch read, unless a game       *)
(* turned its disc since, or a cartridge boots by argument or goes on in a *)
(* match without it.                                                       *)
Seeded == {"settings", "upsert", "pack", "textures", "defaults", "spawn"}
SeedIsMeant ==
    lw.at \in Seeded =>
        \/ seed = lw.media \/ lw.turned
        \/ kind = "cart" /\ (lw.direct \/ lw.stale)

ChoicesInv == LwShape /\ GameShape /\ SeedIsMeant

LEMMA ChoicesInitInv == ChoicesInit => ChoicesInv
  BY DEF ChoicesInit, ChoicesInv, LwShape, GameShape, SeedIsMeant, Seeded, NoWorker

(* A write succeeds, or leaves the file as it was or empty.                *)
LEMMA WroteIs ==
  ASSUME NEW old, NEW new, NEW empty, NEW w \in Wrote(old, new, empty)
  PROVE  w = <<TRUE, new>> \/ w = <<FALSE, old>> \/ w = <<FALSE, empty>>
  BY DEF Wrote

LEMMA ChoicesStep == ChoicesInv /\ [ChoicesNext]_tcVars => ChoicesInv'
  <1> SUFFICES ASSUME ChoicesInv, [ChoicesNext]_tcVars PROVE ChoicesInv'
    OBVIOUS
  <1>0. LwShape /\ GameShape /\ SeedIsMeant
    BY DEF ChoicesInv
  <1> USE DEF ChoicesInv, LwShape, GameShape, SeedIsMeant, Seeded
  <1>1. CASE UNCHANGED <<kind, seed, lw, game>>
    BY <1>0, <1>1
  <1>2. CASE RefreshRow \/ PickBios \/ LeaveOut \/ SkipRead \/ SkipWritten \/ OpenPackList \/ ImportEnds
    BY <1>1, <1>2
    DEF RefreshRow, PickBios, LeaveOut, SkipRead, SkipWritten, OpenPackList, ImportEnds
  <1>3. CASE \E p \in Packs : UsePack(p) \/ ImportStarts(p) \/ RemovePack(p)
    BY <1>1, <1>3 DEF UsePack, ImportStarts, RemovePack
  <1>4. ASSUME NEW d \in Discs, PickDisc(d) PROVE ChoicesInv'
    BY <1>0, <1>4 DEF PickDisc, Launching, InRoom
  <1>5. ASSUME NEW d \in Discs, GameTurnsDisc(d) PROVE ChoicesInv'
    BY <1>0, <1>5 DEF GameTurnsDisc, Launching
  <1>23. ASSUME NEW d \in Discs, ImageGoes(d) PROVE ChoicesInv'
    BY <1>1, <1>23 DEF ImageGoes
  <1>6. CASE Play \/ EnterRoom \/ LeaveRoom
    <2>1. CASE Play
      BY <1>0, <2>1 DEF Play, NoWorker
    <2>2. CASE EnterRoom
      <3>1. lw'.at = "room"
        BY <2>2 DEF EnterRoom, NoWorker
      <3>2. LwShape'
        BY <2>2 DEF EnterRoom, NoWorker
      <3>3. QED
        BY <1>0, <2>2, <3>1, <3>2 DEF EnterRoom
    <2>3. CASE LeaveRoom
      BY <1>0, <2>3 DEF LeaveRoom, NoWorker
    <2>4. QED
      BY <1>6, <2>1, <2>2, <2>3
  <1>24. CASE MatchStarts
    BY <1>0, <1>24 DEF MatchStarts
  <1>7. CASE ReadMedia
    BY <1>0, <1>7 DEF ReadMedia
  <1>8. CASE EnsureSave
    BY <1>0, <1>8 DEF EnsureSave
  <1>9. CASE Plan
    BY <1>0, <1>9 DEF Plan
  <1>10. CASE StageRom
    BY <1>0, <1>10 DEF StageRom
  <1>11. CASE StageBios
    BY <1>0, <1>11 DEF StageBios
  <1>12. CASE StageSeed
    <2>1. PICK w \in Wrote(seed, lw.media, 0) : seed' = w[2] /\ lw' = AfterSeed(w[1])
      BY <1>12 DEF StageSeed
    <2>2. w = <<TRUE, lw.media>> \/ w = <<FALSE, seed>> \/ w = <<FALSE, 0>>
      BY <2>1, WroteIs
    <2>3. kind' = kind /\ game' = game /\ lw.at = "seed"
      BY <1>12 DEF StageSeed
    <2>4. CASE w = <<TRUE, lw.media>>
      <3>1. seed' = lw.media /\ lw' = [lw EXCEPT !.at = "settings"]
        BY <2>1, <2>4 DEF AfterSeed
      <3>2. QED
        BY <1>0, <2>3, <3>1
    <2>5. ASSUME NEW x, w = <<FALSE, x>> PROVE ChoicesInv'
      <3>1. CASE kind # "cart"
        BY <1>0, <2>1, <2>3, <2>5, <3>1 DEF AfterSeed, NoWorker
      <3>2. CASE kind = "cart"
        <4>1. lw' = [lw EXCEPT !.at = "settings", !.direct = @ \/ ~lw.match, !.stale = lw.match]
          BY <2>1, <2>5, <3>2 DEF AfterSeed
        <4>3. lw'.direct \/ lw'.stale
          BY <1>0, <4>1
        <4>4. QED
          BY <1>0, <2>3, <3>2, <4>1, <4>3
      <3>3. QED
        BY <3>1, <3>2
    <2>6. QED
      BY <2>2, <2>4, <2>5
  <1>13. CASE ReadSettings
    BY <1>0, <1>13 DEF ReadSettings
  <1>14. CASE WriteSettings
    <2>1. PICK w \in Wrote(toml, lw.body, Blank) :
             lw' = IF w[1] THEN [lw EXCEPT !.at = "pack", !.body = Blank] ELSE NoWorker
      BY <1>14 DEF WriteSettings
    <2>2. UNCHANGED <<kind, seed, game>> /\ lw.at = "upsert"
      BY <1>14 DEF WriteSettings
    <2>3. QED
      BY <1>0, <2>1, <2>2 DEF NoWorker
  <1>15. CASE FindPack
    BY <1>0, <1>15 DEF FindPack
  <1>16. CASE ApplyPack
    BY <1>0, <1>16 DEF ApplyPack
  <1>17. CASE ApplyDefaults
    BY <1>0, <1>17 DEF ApplyDefaults
  <1>18. CASE Spawn
    BY <1>0, <1>18 DEF Spawn, NoWorker
  <1>19. CASE GameEnds
    BY <1>0, <1>19 DEF GameEnds
  <1>20. CASE HubDies
    BY <1>0, <1>20 DEF HubDies, NoWorker
  <1>21. CASE UNCHANGED tcVars
    BY <1>1, <1>21 DEF tcVars
  <1>22. QED
    BY <1>2, <1>3, <1>4, <1>5, <1>6, <1>7, <1>8, <1>9, <1>10, <1>11, <1>12, <1>13, <1>14,
       <1>15, <1>16, <1>17, <1>18, <1>19, <1>20, <1>21, <1>23, <1>24 DEF ChoicesNext

(* The seed a game finds is the one its launch chose, or does not matter.  *)
MeantWhenStarted ==
    game'.runs > game.runs =>
        \/ seed = lw.media \/ lw.turned
        \/ kind = "cart" /\ (lw.direct \/ lw.stale)

LEMMA OnlySpawnStarts == ChoicesInv /\ [ChoicesNext]_tcVars => MeantWhenStarted
  <1> SUFFICES ASSUME ChoicesInv, [ChoicesNext]_tcVars, game'.runs > game.runs
               PROVE  \/ seed = lw.media \/ lw.turned
                      \/ kind = "cart" /\ (lw.direct \/ lw.stale)
    BY DEF MeantWhenStarted
  <1>0. GameShape /\ SeedIsMeant
    BY DEF ChoicesInv
  <1>1. game' # game
    BY <1>0 DEF GameShape
  <1>2. CASE Spawn
    BY <1>0, <1>2 DEF Spawn, SeedIsMeant, Seeded
  <1>3. CASE GameEnds \/ \E d \in Discs : GameTurnsDisc(d)
    <2>1. game'.runs = game.runs
      BY <1>0, <1>3 DEF GameEnds, GameTurnsDisc, GameShape
    <2>2. QED
      BY <1>0, <2>1 DEF GameShape
  <1>4. CASE \/ RefreshRow \/ PickBios \/ LeaveOut \/ SkipRead \/ SkipWritten \/ OpenPackList
             \/ ImportEnds \/ HubDies \/ (\E d \in Discs : PickDisc(d) \/ ImageGoes(d))
             \/ UNCHANGED tcVars
             \/ \E p \in Packs : UsePack(p) \/ ImportStarts(p) \/ RemovePack(p)
    <2>1. game' = game
      BY <1>4
      DEF RefreshRow, PickBios, LeaveOut, SkipRead, SkipWritten, OpenPackList, ImportEnds,
          HubDies, PickDisc, ImageGoes, UsePack, ImportStarts, RemovePack, tcVars
    <2>2. QED
      BY <1>1, <2>1
  <1>5. CASE \/ Play \/ EnterRoom \/ MatchStarts \/ LeaveRoom \/ ReadMedia \/ EnsureSave \/ Plan \/ StageRom \/ StageBios \/ StageSeed
             \/ ReadSettings \/ WriteSettings \/ FindPack \/ ApplyPack \/ ApplyDefaults
    <2>1. game' = game
      BY <1>5
      DEF Play, EnterRoom, MatchStarts, LeaveRoom, ReadMedia, EnsureSave, Plan, StageRom, StageBios, StageSeed, ReadSettings,
          WriteSettings, FindPack, ApplyPack, ApplyDefaults
    <2>2. QED
      BY <1>1, <2>1
  <1>6. QED
    BY <1>2, <1>3, <1>4, <1>5 DEF ChoicesNext

(* Whatever writes fail and whoever else edits the files meanwhile, a game *)
(* starts beside the disc or ROM its launch chose (launch.cpp:1273), or    *)
(* has it from its arguments, or turned it itself; but a cartridge's match *)
(* goes on when that file could not be written.                            *)
THEOREM StartsAsChosenHolds == ChoicesSpec => StartsAsChosen
  <1>1. ChoicesInv /\ [ChoicesNext]_tcVars
          => [game'.runs > game.runs =>
                \/ seed = lw.media \/ lw.turned
                \/ kind = "cart" /\ (lw.direct \/ lw.stale)]_tcVars
    BY OnlySpawnStarts DEF MeantWhenStarted
  <1>2. QED
    BY <1>1, ChoicesInitInv, ChoicesStep, PTL DEF ChoicesSpec, StartsAsChosen

(* What the files of a launch, its worker and the window can hold.         *)
AnyDisc == Discs \cup {0}
AnyPack == Packs \cup {"none"}
AnyBios == {"none", "dump", "open"}
Remembered == [disc : AnyDisc, pack : AnyPack, bios : {"dump", "open"}, out : BOOLEAN]
Tomls == [disc : AnyDisc, at : AnyDisc, bios : AnyBios, skip : BOOLEAN, pack : AnyPack,
          prefs : BOOLEAN, own : BOOLEAN]
Windows == [disc : AnyDisc, pack : AnyPack, list : SUBSET Packs,
            edit : {<<>>} \cup {<<t>> : t \in Tomls}, import : AnyPack]
Stations == {"idle", "room", "media", "saves", "plan", "sidecar", "bios", "seed", "settings", "upsert",
             "pack", "textures", "defaults", "spawn"}
Launches == [at : Stations, media : AnyDisc, shown : AnyDisc, skip : BOOLEAN, bios : AnyBios,
             direct : BOOLEAN, pack : AnyPack, held : {<<>>} \cup {<<c>> : c \in Remembered},
             body : Tomls, turned : BOOLEAN, match : BOOLEAN, stale : BOOLEAN]
OnDisk == [Packs -> {"none", "part", "whole"}]

ChoicesTyped ==
    /\ choice \in Remembered /\ toml \in Tomls /\ seed \in AnyDisc /\ bcfg \in AnyBios
    /\ sidecar \in {"none", "link", "copy"} /\ packs \in OnDisk
    /\ page \in Windows /\ lw \in Launches /\ (lw.at = "saves" => lw.held # <<>>)

LEMMA BlanksTyped ==
  /\ Blank \in Tomls /\ 1 \in AnyDisc /\ 0 \in AnyDisc
  /\ NoWorker \in Launches /\ NoWorker.at # "saves" /\ NoPage \in Windows
  <1>1. Blank \in Tomls /\ 1 \in AnyDisc /\ 0 \in AnyDisc
    BY ChoicesAssumption DEF Blank, Tomls, AnyDisc, AnyPack, AnyBios
  <1>2. NoWorker \in Launches /\ NoWorker.at # "saves"
    BY <1>1 DEF NoWorker, Launches, Stations, AnyPack, AnyBios
  <1>3. NoPage \in Windows
    BY <1>1 DEF NoPage, Windows, AnyPack
  <1>4. QED
    BY <1>1, <1>2, <1>3

LEMMA WroteTyped ==
  ASSUME NEW S, NEW old \in S, NEW new \in S, NEW empty \in S, NEW w \in Wrote(old, new, empty)
  PROVE  w[1] \in BOOLEAN /\ w[2] \in S
  <1>1. w = <<TRUE, new>> \/ w = <<FALSE, old>> \/ w = <<FALSE, empty>>
    BY WroteIs
  <1>2. CASE w = <<TRUE, new>>
    BY <1>2
  <1>3. CASE w = <<FALSE, old>>
    BY <1>3
  <1>4. CASE w = <<FALSE, empty>>
    BY <1>4
  <1>5. QED
    BY <1>1, <1>2, <1>3, <1>4

LEMMA RowDiscTyped ==
  ASSUME NEW t, NEW c
  PROVE  RowDisc(t, c) \in AnyDisc
  BY BlanksTyped DEF RowDisc, AnyDisc

LEMMA ChoicesTypedInit == ChoicesInit => ChoicesTyped
  <1> SUFFICES ASSUME ChoicesInit PROVE ChoicesTyped
    OBVIOUS
  <1>1. choice \in Remembered
    BY DEF ChoicesInit, Remembered, AnyDisc, AnyPack
  <1>2. toml \in Tomls
    BY BlanksTyped DEF ChoicesInit, Tomls
  <1>3. page \in Windows
    BY BlanksTyped DEF ChoicesInit, Windows
  <1>4. lw \in Launches /\ lw.at # "saves"
    BY BlanksTyped DEF ChoicesInit
  <1>5. /\ seed \in AnyDisc /\ bcfg \in AnyBios /\ sidecar \in {"none", "link", "copy"}
        /\ packs \in OnDisk
    BY DEF ChoicesInit, AnyDisc, AnyBios, OnDisk
  <1>6. QED
    BY <1>1, <1>2, <1>3, <1>4, <1>5 DEF ChoicesTyped

LEMMA ChoicesTypedStep == ChoicesTyped /\ [ChoicesNext]_tcVars => ChoicesTyped'
  <1> SUFFICES ASSUME ChoicesTyped, [ChoicesNext]_tcVars PROVE ChoicesTyped'
    OBVIOUS
  <1>0. /\ choice \in Remembered /\ toml \in Tomls /\ seed \in AnyDisc /\ bcfg \in AnyBios
        /\ sidecar \in {"none", "link", "copy"} /\ packs \in OnDisk
        /\ page \in Windows /\ lw \in Launches /\ (lw.at = "saves" => lw.held # <<>>)
    BY DEF ChoicesTyped
  <1>1. ASSUME NEW d \in Discs, PickDisc(d) PROVE ChoicesTyped'
    <2>1. PICK s \in Wrote(seed, d, 0), t \in Wrote(toml, [toml EXCEPT !.disc = d, !.at = d], Blank) :
             seed' = s[2] /\ toml' = t[2]
      BY <1>1 DEF PickDisc
    <2>2. d \in AnyDisc /\ [toml EXCEPT !.disc = d, !.at = d] \in Tomls
      BY <1>0 DEF AnyDisc, Tomls
    <2>3. seed' \in AnyDisc
      BY <1>0, <2>1, <2>2, BlanksTyped, WroteTyped
    <2>4. toml' \in Tomls
      BY <1>0, <2>1, <2>2, BlanksTyped, WroteTyped
    <2>5. choice' \in Remembered /\ page' \in Windows
      BY <1>0, <1>1, <2>2 DEF PickDisc, Remembered, Windows
    <2>6. UNCHANGED <<bcfg, sidecar, packs, lw>>
      BY <1>1 DEF PickDisc
    <2>7. QED
      BY <1>0, <2>3, <2>4, <2>5, <2>6 DEF ChoicesTyped
  <1>2. CASE PickBios \/ LeaveOut
    <2>1. choice' \in Remembered
      BY <1>0, <1>2 DEF PickBios, LeaveOut, Remembered
    <2>2. UNCHANGED <<toml, seed, bcfg, sidecar, packs, page, lw>>
      BY <1>2 DEF PickBios, LeaveOut
    <2>3. QED
      BY <1>0, <2>1, <2>2 DEF ChoicesTyped
  <1>3. ASSUME page' \in Windows, UNCHANGED <<choice, toml, seed, bcfg, sidecar, packs, lw>>
        PROVE  ChoicesTyped'
    BY <1>0, <1>3 DEF ChoicesTyped
  <1>4. CASE RefreshRow \/ OpenPackList
    <2>1. RowDisc(toml, choice) \in AnyDisc
      BY RowDiscTyped
    <2>2. page' \in Windows
      BY <1>0, <1>4, <2>1 DEF RefreshRow, OpenPackList, Listing, Windows, Remembered
    <2>3. QED
      BY <1>3, <1>4, <2>2 DEF RefreshRow, OpenPackList
  <1>5. CASE SkipRead
    <2>1. [toml EXCEPT !.skip = ~@] \in Tomls
      BY <1>0 DEF Tomls
    <2>2. page' = [page EXCEPT !.edit = <<[toml EXCEPT !.skip = ~@]>>]
      BY <1>5 DEF SkipRead
    <2>3. page' \in Windows
      BY <1>0, <2>1, <2>2 DEF Windows
    <2>4. QED
      BY <1>3, <1>5, <2>3 DEF SkipRead
  <1>6. CASE SkipWritten
    <2>1. PICK w \in Wrote(toml, page.edit[1], Blank) : toml' = w[2]
      BY <1>6 DEF SkipWritten
    <2>2. page.edit[1] \in Tomls
      BY <1>0, <1>6 DEF SkipWritten, Windows
    <2>3. toml' \in Tomls
      BY <1>0, <2>1, <2>2, BlanksTyped, WroteTyped
    <2>4. page' \in Windows /\ UNCHANGED <<choice, seed, bcfg, sidecar, packs, lw>>
      BY <1>0, <1>6 DEF SkipWritten, Windows
    <2>5. QED
      BY <1>0, <2>3, <2>4 DEF ChoicesTyped
  <1>7. ASSUME choice' \in Remembered, page' \in Windows, packs' \in OnDisk,
               UNCHANGED <<toml, seed, bcfg, sidecar, lw>>
        PROVE  ChoicesTyped'
    BY <1>0, <1>7 DEF ChoicesTyped
  <1>8. ASSUME NEW p \in Packs, UsePack(p) PROVE ChoicesTyped'
    <2>1. PICK now \in AnyPack :
             choice' = [choice EXCEPT !.pack = now] /\ page' = [page EXCEPT !.pack = now]
      BY <1>8 DEF UsePack, AnyPack
    <2>2. choice' \in Remembered /\ page' \in Windows
      BY <1>0, <2>1 DEF Remembered, Windows
    <2>3. QED
      BY <1>0, <1>7, <1>8, <2>2 DEF UsePack
  <1>9. ASSUME NEW p \in Packs, ImportStarts(p) PROVE ChoicesTyped'
    <2>1. packs' \in OnDisk
      BY <1>0, <1>9 DEF ImportStarts, OnDisk
    <2>2. page' \in Windows
      BY <1>0, <1>9 DEF ImportStarts, Windows, AnyPack
    <2>3. QED
      BY <1>0, <1>7, <1>9, <2>1, <2>2 DEF ImportStarts
  <1>10. CASE ImportEnds
    <2>1. PICK ok \in BOOLEAN :
            /\ packs' = [packs EXCEPT ![page.import] = IF ok THEN "whole" ELSE "none"]
            /\ LET first == ok /\ choice.pack = "none"
               IN /\ choice' = IF first THEN [choice EXCEPT !.pack = page.import] ELSE choice
                  /\ page' = [page EXCEPT !.import = "none", !.list = Listing(packs'),
                                          !.pack = IF first THEN page.import ELSE @]
      BY <1>10 DEF ImportEnds
    <2>2. packs' \in OnDisk
      BY <1>0, <2>1 DEF OnDisk
    <2>3. choice' \in Remembered
      BY <1>0, <2>1 DEF Remembered, Windows
    <2>4. PICK now \in AnyPack :
             page' = [page EXCEPT !.import = "none", !.list = Listing(packs'), !.pack = now]
      BY <1>0, <2>1 DEF Windows
    <2>5. page' \in Windows
      BY <1>0, <2>4 DEF Windows, Listing, AnyPack
    <2>6. QED
      BY <1>7, <1>10, <2>2, <2>3, <2>5 DEF ImportEnds
  <1>11. ASSUME NEW p \in Packs, RemovePack(p) PROVE ChoicesTyped'
    <2>1. PICK ok \in BOOLEAN :
            /\ packs' = [packs EXCEPT ![p] = IF ok THEN "none" ELSE "part"]
            /\ LET clear == ok /\ choice.pack = p
               IN /\ choice' = IF clear THEN [choice EXCEPT !.pack = "none"] ELSE choice
                  /\ page' = [page EXCEPT !.list = IF ok THEN Listing(packs') ELSE @,
                                          !.pack = IF clear THEN "none" ELSE @]
      BY <1>11 DEF RemovePack
    <2>2. packs' \in OnDisk
      BY <1>0, <2>1 DEF OnDisk
    <2>3. choice' \in Remembered
      BY <1>0, <2>1 DEF Remembered, AnyPack
    <2>4. PICK now \in AnyPack, list \in SUBSET Packs :
             page' = [page EXCEPT !.list = list, !.pack = now]
      BY <1>0, <2>1 DEF Windows, AnyPack, Listing
    <2>5. page' \in Windows
      BY <1>0, <2>4 DEF Windows
    <2>6. QED
      BY <1>7, <1>11, <2>2, <2>3, <2>5 DEF RemovePack
  <1>12. ASSUME lw' \in Launches, lw'.at # "saves", UNCHANGED <<choice, packs, page>>,
                toml' \in Tomls, seed' \in AnyDisc, bcfg' \in AnyBios,
                sidecar' \in {"none", "link", "copy"}
         PROVE  ChoicesTyped'
    BY <1>0, <1>12 DEF ChoicesTyped
  <1>13. CASE Play
    <2>1. lw' \in Launches /\ lw'.at = "media"
      BY <1>0, <1>13, BlanksTyped DEF Play, Launches, Stations, Windows
    <2>2. QED
      BY <1>0, <1>12, <1>13, <2>1 DEF Play
  <1>30. CASE EnterRoom \/ MatchStarts \/ LeaveRoom
    <2>1. PlayMedia \in AnyDisc /\ choice.bios \in AnyBios /\ page.disc \in AnyDisc
      BY <1>0, BlanksTyped DEF PlayMedia, Remembered, Windows, AnyBios
    <2>2. lw' \in Launches /\ lw'.at # "saves"
      BY <1>0, <1>30, <2>1, BlanksTyped
      DEF EnterRoom, MatchStarts, LeaveRoom, Launches, Stations
    <2>3. UNCHANGED <<choice, toml, seed, bcfg, sidecar, packs, page>>
      BY <1>30 DEF EnterRoom, MatchStarts, LeaveRoom
    <2>4. QED
      BY <1>0, <2>2, <2>3 DEF ChoicesTyped
  <1>31. ASSUME NEW d \in Discs, ImageGoes(d) PROVE ChoicesTyped'
    BY <1>0, <1>31 DEF ImageGoes, ChoicesTyped
  <1>14. CASE ReadMedia
    <2>1. PlayMedia \in AnyDisc
      BY <1>0, BlanksTyped DEF PlayMedia, Remembered
    <2>2. lw' = [lw EXCEPT !.at = "saves", !.media = PlayMedia, !.held = <<choice>>]
      BY <1>14 DEF ReadMedia
    <2>3. lw' \in Launches /\ lw'.held = <<choice>>
      BY <1>0, <2>1, <2>2 DEF Launches, Stations
    <2>4. UNCHANGED <<choice, toml, seed, bcfg, sidecar, packs, page>>
      BY <1>14 DEF ReadMedia
    <2>5. QED
      BY <1>0, <2>3, <2>4 DEF ChoicesTyped
  <1>15. CASE EnsureSave
    <2>1. lw.held[1] \in Remembered
      BY <1>0, <1>15 DEF EnsureSave, Launches, Stations
    <2>2. choice' \in Remembered
      BY <1>0, <1>15, <2>1 DEF EnsureSave
    <2>3. choice'.bios \in AnyBios
      BY <2>2 DEF Remembered, AnyBios
    <2>4. lw' \in Launches /\ lw'.at = "plan"
      BY <1>0, <1>15, <2>3 DEF EnsureSave, Launches, Stations
    <2>5. UNCHANGED <<toml, seed, bcfg, sidecar, packs, page>>
      BY <1>15 DEF EnsureSave
    <2>6. QED
      BY <1>0, <2>2, <2>4, <2>5 DEF ChoicesTyped
  <1>16. CASE Plan
    <2>1. lw' \in Launches /\ lw'.at = "sidecar"
      BY <1>0, <1>16 DEF Plan, Launches, Stations, Tomls
    <2>2. QED
      BY <1>0, <1>12, <1>16, <2>1 DEF Plan
  <1>17. CASE StageRom
    <2>1. lw' \in Launches /\ lw'.at = "bios" /\ sidecar' \in {"none", "link", "copy"}
      BY <1>0, <1>17 DEF StageRom, Launches, Stations
    <2>2. QED
      BY <1>0, <1>12, <1>17, <2>1 DEF StageRom
  <1>18. CASE StageBios
    <2>1. lw' \in Launches /\ lw'.at = "seed"
      BY <1>0, <1>18 DEF StageBios, Launches, Stations
    <2>2. bcfg' \in AnyBios
      <3>1. lw.bios \in AnyBios /\ "open" \in AnyBios
        BY <1>0 DEF Launches, Stations, AnyBios
      <3>2. CASE kind = "cart"
        BY <1>0, <1>18, <3>2 DEF StageBios
      <3>3. CASE kind # "cart"
        <4>1. PICK w \in Wrote(bcfg, lw.bios, "open") : bcfg' = w[2]
          BY <1>18, <3>3 DEF StageBios
        <4>2. QED
          BY <1>0, <3>1, <4>1, WroteTyped
      <3>4. QED
        BY <3>2, <3>3
    <2>3. QED
      BY <1>0, <1>12, <1>18, <2>1, <2>2 DEF StageBios
  <1>19. CASE StageSeed
    <2>1. PICK w \in Wrote(seed, lw.media, 0) : seed' = w[2] /\ lw' = AfterSeed(w[1])
      BY <1>19 DEF StageSeed
    <2>2. lw.media \in AnyDisc
      BY <1>0 DEF Launches, Stations
    <2>3. seed' \in AnyDisc /\ w[1] \in BOOLEAN
      BY <1>0, <2>1, <2>2, BlanksTyped, WroteTyped
    <2>4. \/ lw' = [lw EXCEPT !.at = "settings"] \/ lw' = NoWorker
          \/ lw' = [lw EXCEPT !.at = "settings", !.direct = @ \/ ~lw.match, !.stale = lw.match]
      BY <2>1 DEF AfterSeed
    <2>5. lw' \in Launches /\ lw'.at # "saves"
      BY <1>0, <2>4, BlanksTyped DEF Launches, Stations
    <2>6. QED
      BY <1>0, <1>12, <1>19, <2>3, <2>5 DEF StageSeed
  <1>20. CASE ReadSettings
    <2>1. PICK at \in {"spawn", "defaults", "upsert"}, body \in Tomls :
             lw' = [lw EXCEPT !.at = at, !.body = body]
      <3>1. CASE kind = "cart"
        <4>1. lw' = [lw EXCEPT !.at = IF choice.out THEN "spawn" ELSE "defaults"]
          BY <1>20, <3>1 DEF ReadSettings
        <4>2. lw' = [lw EXCEPT !.at = IF choice.out THEN "spawn" ELSE "defaults", !.body = lw.body]
          BY <1>0, <4>1 DEF Launches, Stations
        <4>3. QED
          BY <1>0, <4>2 DEF Launches, Stations
      <3>2. CASE kind # "cart"
        <4>1. [toml EXCEPT !.disc = lw.media, !.at = 0, !.bios = lw.bios] \in Tomls
          BY <1>0, BlanksTyped DEF Tomls, Launches, Stations
        <4>2. QED
          BY <1>20, <3>2, <4>1 DEF ReadSettings
      <3>3. QED
        BY <3>1, <3>2
    <2>2. lw' \in Launches /\ lw'.at # "saves"
      BY <1>0, <2>1 DEF Launches, Stations
    <2>3. QED
      BY <1>0, <1>12, <1>20, <2>2 DEF ReadSettings
  <1>21. CASE WriteSettings
    <2>1. PICK w \in Wrote(toml, lw.body, Blank) :
            /\ toml' = w[2]
            /\ lw' = IF w[1] THEN [lw EXCEPT !.at = "pack", !.body = Blank] ELSE NoWorker
      BY <1>21 DEF WriteSettings
    <2>2. lw.body \in Tomls
      BY <1>0 DEF Launches, Stations
    <2>3. toml' \in Tomls
      BY <1>0, <2>1, <2>2, BlanksTyped, WroteTyped
    <2>4. lw' \in Launches /\ lw'.at # "saves"
      BY <1>0, <2>1, BlanksTyped DEF Launches, Stations
    <2>5. QED
      BY <1>0, <1>12, <1>21, <2>3, <2>4 DEF WriteSettings
  <1>22. CASE FindPack
    <2>1. PICK pack \in AnyPack : lw' = [lw EXCEPT !.at = "textures", !.pack = pack]
      BY <1>0, <1>22 DEF FindPack, AnyPack, Remembered
    <2>2. lw' \in Launches /\ lw'.at # "saves"
      BY <1>0, <2>1 DEF Launches, Stations
    <2>3. QED
      BY <1>0, <1>12, <1>22, <2>2 DEF FindPack
  <1>23. CASE ApplyPack \/ ApplyDefaults
    <2>1. [toml EXCEPT !.pack = lw.pack] \in Tomls /\ [toml EXCEPT !.prefs = TRUE] \in Tomls
      BY <1>0 DEF Tomls, Launches, Stations
    <2>2. PICK new \in Tomls : \E w \in Wrote(toml, new, Blank) : toml' = w[2]
      BY <1>23, <2>1 DEF ApplyPack, ApplyDefaults
    <2>3. toml' \in Tomls
      BY <1>0, <2>2, BlanksTyped, WroteTyped
    <2>4. PICK at \in {"spawn", "defaults"} : lw' = [lw EXCEPT !.at = at]
      BY <1>23 DEF ApplyPack, ApplyDefaults
    <2>5. lw' \in Launches /\ lw'.at # "saves"
      BY <1>0, <2>4 DEF Launches, Stations
    <2>6. UNCHANGED <<choice, packs, page, seed, bcfg, sidecar>>
      BY <1>23 DEF ApplyPack, ApplyDefaults
    <2>7. QED
      BY <1>0, <1>12, <2>3, <2>5, <2>6
  <1>24. CASE Spawn
    BY <1>0, <1>12, <1>24, BlanksTyped DEF Spawn
  <1>25. ASSUME NEW d \in Discs, GameTurnsDisc(d) PROVE ChoicesTyped'
    <2>1. d \in AnyDisc
      BY DEF AnyDisc
    <2>2. toml' \in Tomls /\ seed' \in AnyDisc
      BY <1>0, <1>25, <2>1 DEF GameTurnsDisc, Tomls
    <2>3. lw' \in Launches /\ lw'.at = lw.at /\ lw'.held = lw.held
      BY <1>0, <1>25 DEF GameTurnsDisc, Launching, Launches, Stations
    <2>4. QED
      BY <1>0, <1>25, <2>2, <2>3 DEF GameTurnsDisc, ChoicesTyped
  <1>26. CASE GameEnds \/ UNCHANGED tcVars
    BY <1>0, <1>26 DEF GameEnds, tcVars, ChoicesTyped
  <1>27. CASE HubDies
    <2>1. RowDisc(toml, choice) \in AnyDisc /\ choice.pack \in AnyPack
      BY <1>0, RowDiscTyped DEF Remembered
    <2>2. page' = [NoPage EXCEPT !.disc = RowDisc(toml, choice), !.pack = choice.pack]
          /\ lw' = NoWorker /\ UNCHANGED <<choice, toml, seed, bcfg, sidecar, packs>>
      BY <1>27 DEF HubDies
    <2>3. page' \in Windows
      BY <2>1, <2>2, BlanksTyped DEF Windows
    <2>4. QED
      BY <1>0, <2>2, <2>3, BlanksTyped DEF ChoicesTyped
  <1>28. QED
    BY <1>1, <1>2, <1>4, <1>5, <1>6, <1>8, <1>9, <1>10, <1>11, <1>13, <1>14, <1>15, <1>16,
       <1>17, <1>18, <1>19, <1>20, <1>21, <1>22, <1>23, <1>24, <1>25, <1>26, <1>27, <1>30,
       <1>31
    DEF ChoicesNext

LEMMA ChoicesTypedOK == ChoicesTyped => ChoicesTypeOK
  BY DEF ChoicesTyped, ChoicesTypeOK, Remembered, Tomls, AnyDisc, AnyPack, AnyBios, Windows, OnDisk

(* Whatever the player, the launch and the game write over one another,    *)
(* and whatever fails, each file holds discs of the set, packs and BIOSes  *)
(* there are (launch.cpp:1273, hub_model.cpp:657).                         *)
THEOREM ChoicesTypedThroughout == ChoicesSpec => []ChoicesTypeOK
  BY ChoicesTypedInit, ChoicesTypedStep, ChoicesTypedOK, PTL DEF ChoicesSpec
-----------------------------------------------------------------------------
(* The Mods page.                                                          *)

Edits == [what : {"on", "val", "all"}, f : Features, to : Values]
Selections == [decided : SUBSET Features, on : SUBSET Features, val : [Features -> Values]]
Pages == [on : SUBSET Features, val : [Features -> Values]]
Pens == [todo : Seq(Edits), read : {<<>>} \cup {<<s>> : s \in Selections},
         alone : BOOLEAN, all : BOOLEAN]

ModsTyped ==
    /\ layout \in {"engine", "n64"} /\ file \in Selections /\ modPage \in Pages
    /\ pen \in Pens /\ broken \in Nat

(* A file that was read is about to be written, by the first edit left.    *)
ReadToWrite == pen.read # <<>> => pen.todo # <<>>

(* While only the hub wrote, what it read is what the file holds, and the  *)
(* page n64lle's section is made from shows that.                          *)
AloneIsFresh ==
    pen.read # <<>> /\ pen.alone =>
        pen.read = <<file>> /\ (layout = "n64" => modPage = Scan(file))

ModsInv == ModsTyped /\ ReadToWrite /\ AloneIsFresh
-----------------------------------------------------------------------------
LEMMA ScanTyped == ASSUME NEW s \in Selections PROVE Scan(s) \in Pages
  BY DEF Scan, Selections, Pages

LEMMA EmptyTyped == Empty \in Selections
  BY DEF Empty, Selections, Values

LEMMA NoPenTyped == NoPen \in Pens
  BY DEF NoPen, Pens

(* All the features, one edit each, are a sequence of edits.               *)
LEMMA AllEdits ==
  ASSUME NEW to \in Values
  PROVE  LET S == {[what |-> "on", f |-> f, to |-> to] : f \in Features}
         IN  SetToSeq(S) \in Seq(Edits)
  <1> DEFINE E(f) == [what |-> "on", f |-> f, to |-> to]
             S == {E(f) : f \in Features}
             n == Cardinality(Features)
  <1>1. n \in Nat /\ ExistsBijection(1 .. n, Features)
    BY FS_CardinalityType, ModsAssumption
  <1>2. PICK g \in [1 .. n -> Features] :
          IsInjective(g) /\ \A f \in Features : \E i \in 1 .. n : g[i] = f
    BY <1>1 DEF ExistsBijection, Bijection, Injection, Surjection
  <1> DEFINE h == [i \in 1 .. n |-> E(g[i])]
  <1>3. h \in [1 .. n -> S] /\ IsInjective(h)
    BY <1>2 DEF IsInjective
  <1>4. \A s \in S : \E i \in 1 .. n : h[i] = s
    BY <1>2
  <1>5. ExistsBijection(1 .. n, S)
    BY <1>3, <1>4 DEF ExistsBijection, Bijection, Injection, Surjection
  <1>6. Cardinality(S) = n
    BY <1>1, <1>5, FS_CountingElements
  <1>7. \E f \in [1 .. Cardinality(S) -> S] : IsInjective(f)
    BY <1>3, <1>6
  <1>8. SetToSeq(S) \in [1 .. Cardinality(S) -> S]
    BY <1>7 DEF SetToSeq
  <1>9. S \subseteq Edits
    BY DEF Edits
  <1>10. SetToSeq(S) \in [1 .. n -> Edits]
    BY <1>6, <1>8, <1>9
  <1>11. SetToSeq(S) \in Seq(Edits)
    BY <1>1, <1>10
  <1>12. QED
    BY <1>11

(* An edit makes a selection of a selection.                               *)
LEMMA EditedTyped ==
  ASSUME ModsTyped, NEW s \in Selections, NEW e \in Edits
  PROVE  Edited(s, e) \in Selections
  <1> USE DEF ModsTyped, Selections, Pages, Edits
  <1>1. EngineSets(s, e) \in Selections
    BY DEF EngineSets
  <1>2. EngineSetsOption(s, e) \in Selections
    BY DEF EngineSetsOption
  <1>3. Section(PlusMinus(e), modPage.val) \in Selections
    BY DEF Section, PlusMinus
  <1>4. SectionWithOption(e) \in Selections
    BY DEF SectionWithOption, Section
  <1>5. Section(IF e.to = 1 THEN Features ELSE {}, modPage.val) \in Selections
    BY DEF Section
  <1>6. CASE e.what = "on" /\ layout = "engine"
    BY <1>1, <1>6 DEF Edited
  <1>7. CASE e.what = "on" /\ layout = "n64"
    BY <1>3, <1>7 DEF Edited
  <1>8. CASE e.what = "val" /\ layout = "engine"
    BY <1>2, <1>8 DEF Edited
  <1>9. CASE e.what = "val" /\ layout = "n64"
    BY <1>4, <1>9 DEF Edited
  <1>10. CASE e.what = "all"
    BY <1>5, <1>10 DEF Edited
  <1>11. QED
    BY <1>6, <1>7, <1>8, <1>9, <1>10

(* An edit of one feature leaves what the others run with, when the page   *)
(* n64lle's section is made from shows the selection it replaces.          *)
LEMMA EditedLocal ==
  ASSUME ModsTyped, NEW s \in Selections, NEW e \in Edits, NEW g \in Features \ {e.f},
         e.what # "all", layout = "n64" => modPage = Scan(s)
  PROVE  (Runs(Edited(s, e), g) <=> Runs(s, g)) /\ Edited(s, e).val[g] = s.val[g]
  <1> USE DEF ModsTyped, Selections, Pages, Edits
  <1> DEFINE t == Edited(s, e)
  <1>0. g # e.f /\ g \in Features /\ e.f \in Features
    OBVIOUS
  <1>1. CASE layout = "engine"
    <2>1. \/ t = EngineSets(s, e)
          \/ t = EngineSetsOption(s, e)
      BY <1>1 DEF Edited
    <2>2. /\ t.decided = s.decided \cup {e.f}
          /\ t.on \in {s.on, s.on \cup {e.f}, s.on \ {e.f}}
      BY <2>1 DEF EngineSets, EngineSetsOption
    <2>3. t.val[g] = s.val[g]
      <3>1. CASE t = EngineSets(s, e)
        BY <3>1 DEF EngineSets
      <3>2. CASE t = EngineSetsOption(s, e)
        <4>1. t.val = [s.val EXCEPT ![e.f] = e.to]
          BY <3>2 DEF EngineSetsOption
        <4>2. QED
          BY <1>0, <4>1
      <3>3. QED
        BY <2>1, <3>1, <3>2
    <2>4. (g \in t.decided <=> g \in s.decided) /\ (g \in t.on <=> g \in s.on)
      BY <1>0, <2>2
    <2>5. Runs(t, g) <=> Runs(s, g)
      BY <2>4 DEF Runs
    <2>6. QED
      BY <2>3, <2>5
  <1>2. CASE layout = "n64"
    <2>1. \/ t = Section(PlusMinus(e), modPage.val)
          \/ t = Section(modPage.on, [modPage.val EXCEPT ![e.f] = e.to])
      BY <1>2 DEF Edited, SectionWithOption
    <2>2. /\ t.decided = Features
          /\ t.on \in {modPage.on, modPage.on \cup {e.f}, modPage.on \ {e.f}}
      BY <2>1 DEF Section, PlusMinus
    <2>3. modPage.on = {f \in Features : Runs(s, f)} /\ modPage.val = s.val
      BY <1>2 DEF Scan
    <2>4. t.val[g] = s.val[g]
      BY <1>0, <2>1, <2>3 DEF Section
    <2>5. g \in t.decided /\ (g \in t.on <=> Runs(s, g))
      BY <1>0, <2>2, <2>3
    <2>6. Runs(t, g) <=> g \in t.on
      BY <2>5 DEF Runs
    <2>7. QED
      BY <2>4, <2>5, <2>6
  <1>3. QED
    BY <1>1, <1>2
-----------------------------------------------------------------------------
LEMMA ModsInitInv == ModsInit => ModsInv
  BY ScanTyped, EmptyTyped, NoPenTyped
  DEF ModsInit, ModsInv, ModsTyped, ReadToWrite, AloneIsFresh, NoPen

(* A press on the page starts with nothing read.                           *)
LEMMA PressKeeps ==
  ASSUME ModsInv, NEW es \in Seq(Edits), NEW all \in BOOLEAN, Begin(es, all),
         UNCHANGED <<layout, file, modPage, broken>>
  PROVE  ModsInv'
  <1>1. pen' \in Pens /\ pen'.read = <<>>
    BY DEF Begin, NoPen, Pens
  <1>2. QED
    BY <1>1 DEF ModsInv, ModsTyped, ReadToWrite, AloneIsFresh

LEMMA AfterWriteTyped ==
  ASSUME ModsTyped, pen.todo # <<>>
  PROVE  AfterWrite \in Pens /\ AfterWrite.read = <<>>
  <1>1. pen.todo \in Seq(Edits) /\ pen.all \in BOOLEAN
    BY DEF ModsTyped, Pens
  <1>2. Tail(pen.todo) \in Seq(Edits)
    BY <1>1, HeadTailProperties
  <1>3. QED
    BY <1>1, <1>2 DEF AfterWrite, NoPen, Pens

LEMMA ModsStep == ModsInv /\ [ModsNext]_moVars => ModsInv'
  <1> SUFFICES ASSUME ModsInv, [ModsNext]_moVars PROVE ModsInv'
    OBVIOUS
  <1>0. ModsTyped /\ ReadToWrite /\ AloneIsFresh
    BY DEF ModsInv
  <1>1. CASE Rescan
    <2>1. pen.read = <<>>
      BY <1>0, <1>1 DEF Rescan, ReadToWrite
    <2>2. QED
      BY <1>0, <1>1, <2>1, ScanTyped DEF Rescan, ModsInv, ModsTyped, ReadToWrite, AloneIsFresh
  <1>2. CASE Read
    <2>1. pen' \in Pens
      BY <1>0, <1>2 DEF Read, ModsTyped, Pens
    <2>2. pen'.read = <<file>> /\ pen'.todo # <<>>
          /\ (pen'.alone => layout = "engine" \/ modPage = Scan(file))
      BY <1>0, <1>2 DEF Read, ModsTyped, Pens
    <2>3. QED
      BY <1>0, <1>2, <2>1, <2>2 DEF Read, ModsInv, ModsTyped, ReadToWrite, AloneIsFresh, Scan, Runs
  <1>3. CASE Publish
    <2>1. pen.todo # <<>> /\ pen.read[1] \in Selections /\ Head(pen.todo) \in Edits
      BY <1>0, <1>3 DEF Publish, ReadToWrite, ModsTyped, Pens
    <2>2. file' \in Selections
      BY <1>0, <1>3, <2>1, EditedTyped DEF Publish
    <2>3. Scan(file') \in Pages
      BY <2>2, ScanTyped
    <2>4. pen' \in Pens /\ pen'.read = <<>>
      BY <1>0, <1>3, <2>1, AfterWriteTyped DEF Publish
    <2>5. QED
      BY <1>0, <1>3, <2>2, <2>3, <2>4
      DEF Publish, ModsInv, ModsTyped, ReadToWrite, AloneIsFresh
  <1>4. CASE PublishFails
    <2>1. pen.todo # <<>>
      BY <1>0, <1>4 DEF PublishFails, ReadToWrite
    <2>2. file' \in Selections
      BY <1>0, <1>4, EmptyTyped DEF PublishFails, ModsTyped
    <2>3. Scan(file') \in Pages
      BY <2>2, ScanTyped
    <2>4. pen' \in Pens /\ pen'.read = <<>>
      BY <1>0, <1>4, <2>1, AfterWriteTyped DEF PublishFails
    <2>5. QED
      BY <1>0, <1>4, <2>2, <2>3, <2>4
      DEF PublishFails, ModsInv, ModsTyped, ReadToWrite, AloneIsFresh
  <1>5. ASSUME NEW f \in Features, Toggle(f) PROVE ModsInv'
    <2>1. <<[what |-> "on", f |-> f, to |-> IF f \in modPage.on THEN 0 ELSE 1]>> \in Seq(Edits)
      BY DEF Edits, Values
    <2>2. QED
      BY <1>5, <2>1, PressKeeps DEF Toggle
  <1>6. ASSUME NEW f \in Features, NEW v \in Values, SetOption(f, v) PROVE ModsInv'
    <2>1. <<[what |-> "val", f |-> f, to |-> v]>> \in Seq(Edits)
      BY DEF Edits
    <2>2. QED
      BY <1>6, <2>1, PressKeeps DEF SetOption
  <1>7. ASSUME NEW to \in 0 .. 1, SetAll(to) PROVE ModsInv'
    <2>1. to \in Values
      BY DEF Values
    <2>2. <<[what |-> "all", f |-> CHOOSE f \in Features : TRUE, to |-> to]>> \in Seq(Edits)
      BY <2>1, ModsAssumption DEF Edits
    <2>3. SetToSeq({[what |-> "on", f |-> f, to |-> to] : f \in Features}) \in Seq(Edits)
      BY <2>1, AllEdits
    <2>4. QED
      BY <1>7, <2>2, <2>3, PressKeeps DEF SetAll
  <1>8. ASSUME NEW f \in Features, GameSets(f) PROVE ModsInv'
    <2>1. file' \in Selections
      BY <1>0, <1>8 DEF GameSets, Section, Scan, ModsTyped, Selections
    <2>2. pen' \in Pens /\ pen'.read = pen.read /\ pen'.todo = pen.todo /\ pen'.alone = FALSE
      BY <1>0, <1>8 DEF GameSets, ModsTyped, Pens
    <2>3. QED
      BY <1>0, <1>8, <2>1, <2>2 DEF GameSets, ModsInv, ModsTyped, ReadToWrite, AloneIsFresh
  <1>9. CASE UNCHANGED moVars
    BY <1>0, <1>9
    DEF moVars, ModsInv, ModsTyped, ReadToWrite, AloneIsFresh, Scan, Runs
  <1>10. QED
    BY <1>1, <1>2, <1>3, <1>4, <1>5, <1>6, <1>7, <1>8, <1>9 DEF ModsNext

(* Only a write that succeeds lands: a press has read nothing yet, and a   *)
(* write that fails counts as broken.                                      *)
LEMMA LandedPublishes ==
  ASSUME ModsInv, [ModsNext]_moVars, Landed
  PROVE  Publish
  <1> USE DEF Landed
  <1>0. pen.todo # <<>> /\ broken \in Nat /\ pen \in Pens
    BY DEF ModsInv, ReadToWrite, ModsTyped
  <1>1. CASE Rescan
    BY <1>0, <1>1 DEF Rescan
  <1>2. CASE Read
    BY <1>2 DEF Read
  <1>3. CASE PublishFails
    BY <1>0, <1>3 DEF PublishFails
  <1>4. ASSUME NEW f \in Features, Toggle(f) PROVE FALSE
    BY <1>0, <1>4 DEF Toggle, Change
  <1>5. ASSUME NEW f \in Features, NEW v \in Values, SetOption(f, v) PROVE FALSE
    BY <1>0, <1>5 DEF SetOption, Change
  <1>6. ASSUME NEW to \in 0 .. 1, SetAll(to) PROVE FALSE
    BY <1>0, <1>6 DEF SetAll, Change
  <1>7. ASSUME NEW f \in Features, GameSets(f) PROVE FALSE
    BY <1>0, <1>7 DEF GameSets, Pens
  <1>8. CASE UNCHANGED moVars
    BY <1>8 DEF moVars
  <1>9. QED
    BY <1>1, <1>2, <1>3, <1>4, <1>5, <1>6, <1>7, <1>8 DEF ModsNext

LEMMA EditLands ==
  ModsInv /\ [ModsNext]_moVars =>
    (Landed /\ pen.alone /\ Head(pen.todo).what # "all" =>
       \A g \in Features \ {Head(pen.todo).f} :
          (Runs(file', g) <=> Runs(file, g)) /\ file'.val[g] = file.val[g])
  <1> SUFFICES ASSUME ModsInv, [ModsNext]_moVars, Landed, pen.alone,
                      Head(pen.todo).what # "all", NEW g \in Features \ {Head(pen.todo).f}
               PROVE  (Runs(file', g) <=> Runs(file, g)) /\ file'.val[g] = file.val[g]
    OBVIOUS
  <1>1. Publish
    BY LandedPublishes
  <1>2. ModsTyped /\ pen.read = <<file>> /\ (layout = "n64" => modPage = Scan(file))
    BY DEF ModsInv, AloneIsFresh, Landed
  <1>3. file \in Selections /\ Head(pen.todo) \in Edits
    BY <1>2 DEF ModsInv, ModsTyped, ReadToWrite, Pens, Landed
  <1>4. file' = Edited(file, Head(pen.todo))
    BY <1>1, <1>2 DEF Publish
  <1>5. QED
    BY <1>2, <1>3, <1>4, EditedLocal

(* A change to one feature or option leaves every other as it was, as long *)
(* as the game wrote nothing the hub has not read (mods.cpp:493-1010): the *)
(* block or section that now decides says what the manifest said before.   *)
THEOREM EditIsLocalHolds == ModsSpec => EditIsLocal
  BY ModsInitInv, ModsStep, EditLands, PTL DEF ModsSpec, EditIsLocal


(* n64lle's file and page never hold a value that its options do not       *)
(* allow: nothing that is to be written does.                              *)
Mild == [Features -> 0 .. 1]
Allowed ==
    layout = "n64" =>
        /\ file.val \in Mild /\ modPage.val \in Mild
        /\ pen.read # <<>> => pen.read[1].val \in Mild
        /\ \A i \in 1 .. Len(pen.todo) : pen.todo[i].what = "val" => pen.todo[i].to \in 0 .. 1

LEMMA ScanAllowed == ASSUME NEW s, s.val \in Mild PROVE Scan(s).val \in Mild
  BY DEF Scan

LEMMA AllowedInit == ModsInit => Allowed
  BY DEF ModsInit, Allowed, Mild, Scan, Empty, NoPen

LEMMA EditedAllowed ==
  ASSUME ModsTyped, layout = "n64", NEW s, NEW e \in Edits, modPage.val \in Mild,
         e.what = "val" => e.to \in 0 .. 1
  PROVE  Edited(s, e).val \in Mild
  <1>1. e.what \in {"on", "val", "all"}
    BY DEF Edits
  <1>2. CASE e.what = "on"
    <2>1. Edited(s, e) = Section(PlusMinus(e), modPage.val)
      BY <1>2 DEF Edited
    <2>2. QED
      BY <2>1 DEF Section
  <1>3. CASE e.what = "val"
    <2>1. Edited(s, e) = Section(modPage.on, [modPage.val EXCEPT ![e.f] = e.to])
      BY <1>3 DEF Edited, SectionWithOption
    <2>2. [modPage.val EXCEPT ![e.f] = e.to] \in Mild
      BY <1>3 DEF Mild
    <2>3. QED
      BY <2>1, <2>2 DEF Section
  <1>4. CASE e.what = "all"
    <2>1. Edited(s, e) = Section(IF e.to = 1 THEN Features ELSE {}, modPage.val)
      BY <1>4 DEF Edited
    <2>2. QED
      BY <2>1 DEF Section
  <1>5. QED
    BY <1>1, <1>2, <1>3, <1>4

(* What is left of the edits after one was written.                        *)
LEMMA RestAllowed ==
  ASSUME NEW todo \in Seq(Edits), todo # <<>>,
         \A i \in 1 .. Len(todo) : todo[i].what = "val" => todo[i].to \in 0 .. 1
  PROVE  /\ Head(todo).what = "val" => Head(todo).to \in 0 .. 1
         /\ \A i \in 1 .. Len(Tail(todo)) : Tail(todo)[i].what = "val" => Tail(todo)[i].to \in 0 .. 1
  <1>1. Head(todo) = todo[1] /\ 1 \in 1 .. Len(todo)
    OBVIOUS
  <1>2. /\ Len(Tail(todo)) = Len(todo) - 1
        /\ \A i \in 1 .. Len(Tail(todo)) : Tail(todo)[i] = todo[i + 1] /\ i + 1 \in 1 .. Len(todo)
    OBVIOUS
  <1>3. QED
    BY <1>1, <1>2

LEMMA PressAllowed ==
  ASSUME Allowed, NEW es, NEW all, Begin(es, all), UNCHANGED <<layout, file, modPage>>,
         layout = "n64" => \A i \in 1 .. Len(es) : es[i].what = "val" => es[i].to \in 0 .. 1
  PROVE  Allowed'
  <1>1. pen'.todo = es /\ pen'.read = <<>>
    BY DEF Begin, NoPen
  <1>2. QED
    BY <1>1 DEF Allowed

LEMMA AllowedStep == ModsInv /\ Allowed /\ [ModsNext]_moVars => Allowed'
  <1> SUFFICES ASSUME ModsInv, Allowed, [ModsNext]_moVars PROVE Allowed'
    OBVIOUS
  <1>0. ModsTyped /\ ReadToWrite /\ pen \in Pens /\ file \in Selections /\ modPage \in Pages
    BY DEF ModsInv, ModsTyped
  <1>1. CASE Rescan
    BY <1>1, ScanAllowed DEF Rescan, Allowed
  <1>2. CASE Read
    <2>1. pen'.todo = pen.todo /\ pen'.read = <<file>>
      BY <1>0, <1>2 DEF Read, Pens
    <2>2. QED
      BY <1>2, <2>1 DEF Read, Allowed
  <1>3. ASSUME pen' = AfterWrite, layout' = layout, pen.read # <<>>,
               layout = "n64" => file'.val \in Mild,
               modPage' = modPage \/ modPage' = Scan(file')
        PROVE  Allowed'
    <2>1. pen.todo # <<>> /\ pen.todo \in Seq(Edits)
      BY <1>0, <1>3 DEF ReadToWrite, Pens
    <2>2. pen'.todo = Tail(pen.todo) /\ pen'.read = <<>>
      BY <1>3 DEF AfterWrite, NoPen
    <2>3. layout = "n64" =>
            \A i \in 1 .. Len(Tail(pen.todo)) :
              Tail(pen.todo)[i].what = "val" => Tail(pen.todo)[i].to \in 0 .. 1
      BY <2>1, RestAllowed DEF Allowed
    <2>4. QED
      BY <1>3, <2>2, <2>3, ScanAllowed DEF Allowed
  <1>4. CASE Publish
    <2>1. pen.todo # <<>> /\ pen.todo \in Seq(Edits) /\ Head(pen.todo) \in Edits
      BY <1>0, <1>4 DEF Publish, ReadToWrite, Pens
    <2>2. ASSUME layout = "n64" PROVE file'.val \in Mild
      <3>1. Head(pen.todo).what = "val" => Head(pen.todo).to \in 0 .. 1
        BY <2>1, <2>2, RestAllowed DEF Allowed
      <3>2. QED
        BY <1>0, <1>4, <2>1, <2>2, <3>1, EditedAllowed DEF Publish, Allowed
    <2>3. QED
      BY <1>3, <1>4, <2>2 DEF Publish
  <1>5. CASE PublishFails
    <2>1. Empty.val \in Mild
      BY DEF Empty, Mild
    <2>2. layout = "n64" => file'.val \in Mild
      BY <1>5, <2>1 DEF PublishFails, Allowed
    <2>3. QED
      BY <1>3, <1>5, <2>2 DEF PublishFails
  <1>6. ASSUME NEW f \in Features, Toggle(f) PROVE Allowed'
    <2>1. ASSUME NEW n PROVE LET es == <<[what |-> "on", f |-> f, to |-> n]>>
                             IN  \A i \in 1 .. Len(es) : es[i].what = "val" => es[i].to \in 0 .. 1
      OBVIOUS
    <2>2. QED
      BY <1>6, <2>1, PressAllowed DEF Toggle
  <1>7. ASSUME NEW f \in Features, NEW v \in Values, SetOption(f, v) PROVE Allowed'
    <2> DEFINE es == <<[what |-> "val", f |-> f, to |-> v]>>
    <2>1. layout = "n64" => \A i \in 1 .. Len(es) : es[i].what = "val" => es[i].to \in 0 .. 1
      BY <1>7 DEF SetOption, Values
    <2>2. Begin(es, FALSE) /\ UNCHANGED <<layout, file, modPage>>
      BY <1>7 DEF SetOption
    <2> HIDE DEF es
    <2>3. QED
      BY <2>1, <2>2, PressAllowed
  <1>8. ASSUME NEW to \in 0 .. 1, SetAll(to) PROVE Allowed'
    <2> DEFINE es == IF layout = "n64" THEN <<[what |-> "all", f |-> CHOOSE f \in Features : TRUE, to |-> to]>>
                     ELSE SetToSeq({[what |-> "on", f |-> f, to |-> to] : f \in Features})
    <2>1. layout = "n64" => \A i \in 1 .. Len(es) : es[i].what = "val" => es[i].to \in 0 .. 1
      OBVIOUS
    <2>2. Begin(es, TRUE) /\ UNCHANGED <<layout, file, modPage>>
      BY <1>8 DEF SetAll
    <2> HIDE DEF es
    <2>3. QED
      BY <2>1, <2>2, PressAllowed
  <1>9. ASSUME NEW f \in Features, GameSets(f) PROVE Allowed'
    <2>1. file'.val = file.val /\ UNCHANGED <<layout, modPage>>
      BY <1>9 DEF GameSets, Section
    <2>2. pen'.todo = pen.todo /\ pen'.read = pen.read
      BY <1>0, <1>9 DEF GameSets, Pens
    <2>3. QED
      BY <2>1, <2>2 DEF Allowed
  <1>10. CASE UNCHANGED moVars
    BY <1>10 DEF moVars, Allowed
  <1>11. QED
    BY <1>1, <1>2, <1>4, <1>5, <1>6, <1>7, <1>8, <1>9, <1>10 DEF ModsNext

LEMMA ModsTypedOK == ModsInv /\ Allowed => ModsTypeOK
  BY DEF ModsInv, ModsTyped, Allowed, Mild, Selections, Pages, ModsTypeOK

(* Whatever is pressed, written and failed, on the page or in the game, no *)
(* value is written into mods.toml that its option does not allow: the     *)
(* game refuses the whole plan for one (mods.cpp:1088).                    *)
THEOREM ModsTypedThroughout == ModsSpec => []ModsTypeOK
  BY ModsInitInv, ModsStep, AllowedInit, AllowedStep, ModsTypedOK, PTL DEF ModsSpec
-----------------------------------------------------------------------------
(* What is recorded and asked in a session.                                *)
LinkLike(l) == l = [st |-> l.st, frame |-> l.frame, state |-> l.state, ok |-> l.ok,
                    replay |-> l.replay, asked |-> l.asked]
MenuLike(m) == m = [open |-> m.open, page |-> m.page, view |-> m.view,
                    confirm |-> m.confirm, delete |-> m.delete]
RqLike(r) == r = [kind |-> r.kind, slot |-> r.slot, at |-> r.at]
ReelLike(r) == r = [cards |-> r.cards, view |-> r.view, ask |-> r.ask, want |-> r.want,
                    play |-> r.play, seen |-> r.seen, refresh |-> r.refresh,
                    files |-> r.files, sealed |-> r.sealed, preview |-> r.preview,
                    previews |-> r.previews, made |-> r.made]
PlayLike(x) == x = [on |-> x.on, net |-> x.net, quit |-> x.quit]
Shapes ==
    /\ PlayLike(play) /\ LinkLike(link) /\ MenuLike(menu) /\ RqLike(rq) /\ ReelLike(reel)
    /\ states \in [Slots -> Nat]

(* The runner works for the browser's request, or for none.                *)
Answering == link.state \in {"save", "load"} /\ link.st # "ended"
OneRequest ==
    /\ Answering => rq.at = "sent" /\ rq.kind = link.state
    /\ "up" \in wire => link.st = "starting"
    /\ ~play.on => wire = {}
    /\ rq.at # "none" => menu.confirm = 0

(* A save that may still be written goes to an empty slot, or one that the *)
(* player agreed to lose.                                                  *)
Unwritten == wire \cap {"state", "refused"} = {} /\ Answering
AgreedSlot ==
    /\ menu.confirm \in {0, menu.view}
    /\ rq.kind = "save" /\ (rq.at \in {"asked", "waiting"} \/ (rq.at = "sent" /\ Unwritten))
         => states[rq.slot] = 0 \/ rq.slot \in agreed

AskedInv == Shapes /\ OneRequest /\ AgreedSlot

LEMMA StartsLike ==
  /\ LinkLike(NoLink) /\ NoLink.state = "none"
  /\ LinkLike(Fresh) /\ Fresh.state = "none" /\ LinkLike(Replaying) /\ Replaying.state = "none"
  /\ MenuLike(NoMenu) /\ NoMenu.view = 0 /\ NoMenu.confirm = 0
  /\ RqLike(NoRequest) /\ NoRequest.at = "none"
  /\ ReelLike(NoReel)
  <1>1. LinkLike(NoLink) /\ NoLink.state = "none"
    BY DEF NoLink, LinkLike
  <1>2. LinkLike(Fresh) /\ Fresh.state = "none"
    <2>1. ASSUME NEW l, l = [NoLink EXCEPT !.st = "starting"]
          PROVE  LinkLike(l) /\ l.state = "none"
      BY <1>1, <2>1 DEF LinkLike
    <2>2. QED
      BY <2>1 DEF Fresh
  <1>3. LinkLike(Replaying) /\ Replaying.state = "none"
    <2>1. ASSUME NEW l, l = [Fresh EXCEPT !.replay = "playing"]
          PROVE  LinkLike(l) /\ l.state = "none"
      BY <1>2, <2>1 DEF LinkLike
    <2>2. QED
      BY <2>1 DEF Replaying
  <1>4. MenuLike(NoMenu) /\ NoMenu.view = 0 /\ NoMenu.confirm = 0
    BY DEF NoMenu, MenuLike
  <1>5. RqLike(NoRequest) /\ NoRequest.at = "none"
    BY DEF NoRequest, RqLike
  <1>6. ReelLike(NoReel)
    BY DEF NoReel, ReelLike
  <1>7. QED
    BY <1>1, <1>2, <1>3, <1>4, <1>5, <1>6

LEMMA AskedInit == PlayInit => AskedInv
  <1> SUFFICES ASSUME PlayInit PROVE AskedInv
    OBVIOUS
  <1>1. Shapes /\ link.state = "none"
    BY StartsLike DEF PlayInit, Shapes, PlayLike
  <1>2. rq = NoRequest /\ menu = NoMenu /\ wire = {}
    BY DEF PlayInit
  <1>3. QED
    BY <1>1, <1>2, StartsLike DEF AskedInv, OneRequest, AgreedSlot, Answering, Unwritten

(* What opens, closes and leaves the menu, and what a look at the reel     *)
(* makes of it, ask nothing and touch no file.                             *)
LEMMA MenusMade ==
  ASSUME MenuLike(menu)
  PROVE  /\ MenuLike(Opened) /\ MenuLike(Closed)
         /\ (Opened.confirm = menu.confirm /\ Opened.view = menu.view) \/ (Opened.confirm = 0 /\ Opened.view = 0)
         /\ Closed.confirm = menu.confirm /\ Closed.view = menu.view
  <1>1. MenuLike(Closed) /\ Closed.confirm = menu.confirm /\ Closed.view = menu.view
    <2>1. ASSUME NEW m, m = [menu EXCEPT !.open = FALSE]
          PROVE  MenuLike(m) /\ m.confirm = menu.confirm /\ m.view = menu.view
      BY <2>1 DEF MenuLike
    <2>2. QED
      BY <2>1 DEF Closed
  <1>2. CASE menu.open
    BY <1>1, <1>2 DEF Opened
  <1>3. CASE ~menu.open
    <2>1. ASSUME NEW m, m = [NoMenu EXCEPT !.open = TRUE]
          PROVE  MenuLike(m) /\ m.confirm = 0 /\ m.view = 0
      BY <2>1, StartsLike DEF MenuLike
    <2>2. QED
      BY <1>1, <1>3, <2>1 DEF Opened
  <1>4. QED
    BY <1>2, <1>3

LEMMA ReelsMade ==
  ASSUME ReelLike(reel)
  PROVE  ReelLike(Noticed) /\ Noticed.files = reel.files
  BY DEF ReelLike, Noticed, Refreshed, Previewed

(* The pages of the menu.                                                  *)
LEMMA PagesMade ==
  ASSUME MenuLike(menu), menu.confirm \in {0, menu.view},
         OpenStates \/ OpenReplays \/ menu' \in {Opened, Closed}
  PROVE  /\ MenuLike(menu') /\ menu'.confirm \in {0, menu'.view}
         /\ menu.confirm = 0 => menu'.confirm = 0
  <1>1. CASE OpenStates
    BY <1>1, MenusMade DEF OpenStates, MenuLike
  <1>2. CASE OpenReplays
    BY <1>2, MenusMade DEF OpenReplays, MenuLike
  <1>3. CASE menu' \in {Opened, Closed}
    BY <1>3, MenusMade
  <1>4. QED
    BY <1>1, <1>2, <1>3

LEMMA HeardMade ==
  ASSUME LinkLike(link)
  PROVE  /\ LinkLike(Heard)
         /\ Heard.state = (IF "state" \in wire THEN "done" ELSE IF "refused" \in wire THEN "failed" ELSE link.state)
         /\ Heard.st = (IF Died THEN "ended" ELSE IF "up" \in wire THEN "ready" ELSE link.st)
  <1> DEFINE st == IF Died THEN "ended" ELSE IF "up" \in wire THEN "ready" ELSE link.st
             frame == link.frame /\ "frame" \notin wire /\ ~Died
             state == IF "state" \in wire THEN "done" ELSE IF "refused" \in wire THEN "failed" ELSE link.state
             replay == IF "replay" \notin wire THEN link.replay
                       ELSE CASE link.asked = "start" -> "recording" [] link.asked = "stop" -> "saved"
             asked == IF "replay" \in wire THEN "none" ELSE link.asked
  <1>1. Heard = [link EXCEPT !.st = st, !.frame = frame, !.state = state, !.replay = replay, !.asked = asked]
    BY DEF Heard
  <1> HIDE DEF st, frame, state, replay, asked
  <1>2. LinkLike(Heard) /\ Heard.state = state /\ Heard.st = st
    BY <1>1 DEF LinkLike
  <1>3. QED
    BY <1>2 DEF st, state

LEMMA AskedStep == AskedInv /\ [PlayNext]_plVars => AskedInv'
  <1> SUFFICES ASSUME AskedInv, [PlayNext]_plVars PROVE AskedInv'
    OBVIOUS
  <1>0. /\ PlayLike(play) /\ LinkLike(link) /\ MenuLike(menu) /\ RqLike(rq) /\ ReelLike(reel)
        /\ states \in [Slots -> Nat] /\ OneRequest /\ AgreedSlot
    BY DEF AskedInv, Shapes
  <1>1. ASSUME UNCHANGED <<link, rq, states, agreed>>, MenuLike(menu'), ReelLike(reel'),
               menu'.confirm \in {0, menu'.view}, rq.at # "none" => menu'.confirm = 0,
               wire \subseteq wire', "up" \in wire' => "up" \in wire \/ link.st = "starting",
               PlayLike(play'), play'.on = play.on, wire' = wire \/ play.on
        PROVE  AskedInv'
    BY <1>0, <1>1 DEF AskedInv, Shapes, OneRequest, AgreedSlot, Answering, Unwritten
  <1>2. ASSUME UNCHANGED <<play, link, rq, states, agreed, menu, wire>>, ReelLike(reel') PROVE AskedInv'
    BY <1>0, <1>1, <1>2 DEF OneRequest, AgreedSlot
  <1>3. ASSUME UNCHANGED <<play, link, rq, states, agreed, menu, wire, reel>> PROVE AskedInv'
    BY <1>0, <1>2, <1>3
  <1>4. CASE \/ EventsDone \/ NothingPlays \/ AskLaunch \/ Look \/ Decide \/ Drawn \/ KeyTurbo
             \/ FocusLost \/ PadTurbo \/ Find \/ WorkerDone \/ UNCHANGED plVars
    BY <1>3, <1>4
    DEF EventsDone, NothingPlays, AskLaunch, Look, Decide, Drawn, KeyTurbo, FocusLost, PadTurbo,
        Find, WorkerDone, plVars
  <1>5. ASSUME UNCHANGED <<play, link, rq, states, agreed, wire>>, ReelLike(reel'),
               OpenStates \/ OpenReplays \/ menu' \in {Opened, Closed}
        PROVE  AskedInv'
    <2>1. /\ MenuLike(menu') /\ menu'.confirm \in {0, menu'.view}
          /\ menu.confirm = 0 => menu'.confirm = 0
      BY <1>0, <1>5, PagesMade DEF AgreedSlot
    <2>2. QED
      BY <1>0, <1>1, <1>5, <2>1 DEF OneRequest
  <1>6. ToggleRecording => ReelLike(reel')
    BY <1>0 DEF ToggleRecording, ReelLike
  <1>7. OpenReplays => ReelLike(reel')
    BY <1>0 DEF OpenReplays, ReelLike
  <1>8. CASE KeyRecord
    BY <1>2, <1>6, <1>8 DEF KeyRecord
  <1>9. CASE KeyMenu \/ KeyTab \/ KeyStates \/ PadMenu \/ RecordNew
    <2>1. CASE KeyMenu \/ PadMenu
      BY <1>0, <1>5, <2>1 DEF KeyMenu, PadMenu, SetPaused
    <2>2. CASE KeyTab
      BY <1>0, <1>5, <1>7, <2>2 DEF KeyTab
    <2>3. CASE KeyStates
      BY <1>0, <1>5, <2>3 DEF KeyStates, StatesShortcut, SetPaused
    <2>4. CASE RecordNew
      BY <1>5, <1>6, <2>4 DEF RecordNew, OnPage, InMenu, SetPaused
    <2>5. QED
      BY <1>9, <2>1, <2>2, <2>3, <2>4
  <1>10. ASSUME NEW p, Rail(p) PROVE AskedInv'
    <2>1. CASE p = "close"
      <3>1. /\ link' = [link EXCEPT !.st = "ended", !.frame = FALSE] /\ link.st = "ready"
            /\ UNCHANGED <<wire, rq, states, agreed, menu, reel>>
            /\ play' = [play EXCEPT !.quit = TRUE]
        BY <1>10, <2>1 DEF Rail, InMenu, Ready
      <3>2. LinkLike(link') /\ link'.st = "ended" /\ PlayLike(play') /\ play'.on = play.on
        BY <1>0, <3>1 DEF LinkLike, PlayLike
      <3>3. "up" \notin wire
        BY <1>0, <3>1 DEF OneRequest
      <3>4. QED
        BY <1>0, <3>1, <3>2, <3>3 DEF AskedInv, Shapes, OneRequest, AgreedSlot, Answering, Unwritten
    <2>2. CASE p # "close"
      BY <1>0, <1>5, <1>7, <1>10, <2>2 DEF Rail, SetPaused
    <2>3. QED
      BY <2>1, <2>2
  <1>11. ASSUME NEW s \in Slots, PickSlot(s) PROVE AskedInv'
    <2>1. /\ menu' = [menu EXCEPT !.view = s, !.confirm = 0]
          /\ UNCHANGED <<play, link, wire, rq, states, agreed, reel>>
      BY <1>11 DEF PickSlot
    <2>2. MenuLike(menu') /\ menu'.confirm = 0
      BY <1>0, <2>1 DEF MenuLike
    <2>3. QED
      BY <1>0, <1>1, <2>1, <2>2
  <1>12. CASE DeleteSlot
    <2>1. /\ menu' = [menu EXCEPT !.confirm = menu.view, !.delete = TRUE] /\ rq.at = "none"
          /\ UNCHANGED <<play, link, wire, rq, states, agreed, reel>>
      BY <1>12 DEF DeleteSlot, NotBusy
    <2>2. MenuLike(menu') /\ menu'.confirm = menu'.view
      BY <1>0, <2>1 DEF MenuLike
    <2>3. QED
      BY <1>0, <1>1, <2>1, <2>2
  <1>13. CASE Back
    <2>1. UNCHANGED <<play, link, wire, rq, states, agreed>>
      BY <1>13 DEF Back
    <2>2. CASE menu' = [menu EXCEPT !.view = 0, !.confirm = 0] /\ reel' = reel
      <3>1. MenuLike(menu') /\ menu'.confirm = 0
        BY <1>0, <2>2 DEF MenuLike
      <3>2. QED
        BY <1>0, <1>1, <2>1, <2>2, <3>1
    <2>3. CASE reel' = [reel EXCEPT !.view = 0, !.ask = 0] /\ menu' = menu
      <3>1. ReelLike(reel')
        BY <1>0, <2>3 DEF ReelLike
      <3>2. QED
        BY <1>2, <2>1, <2>3, <3>1
    <2>4. CASE menu' = [menu EXCEPT !.page = "main"] /\ reel' = reel
      <3>1. MenuLike(menu') /\ menu'.confirm = menu.confirm /\ menu'.view = menu.view
        BY <1>0, <2>4 DEF MenuLike
      <3>2. QED
        BY <1>0, <1>1, <2>1, <2>4, <3>1 DEF OneRequest, AgreedSlot
    <2>5. CASE menu' = Closed /\ reel' = reel
      BY <1>0, <1>5, <2>1, <2>5
    <2>6. QED
      BY <1>13, <2>2, <2>3, <2>4, <2>5 DEF Back
  <1>14. CASE PlayMovie \/ DeleteMovie \/ \E i \in 1 .. MaxMovies : PickMovie(i)
    <2>1. ReelLike(reel')
      BY <1>0, <1>14 DEF PlayMovie, DeleteMovie, PickMovie, ReelLike
    <2>2. UNCHANGED <<play, link, rq, states, agreed, menu, wire>>
      BY <1>14 DEF PlayMovie, DeleteMovie, PickMovie
    <2>3. QED
      BY <1>2, <2>1, <2>2
  <1>15. CASE RunnerUp \/ RunnerFrame \/ RunnerEnds \/ RunnerReplay
    <2>1. UNCHANGED <<play, link, rq, states, agreed, menu>>
      BY <1>15 DEF RunnerUp, RunnerFrame, RunnerEnds, RunnerReplay
    <2>2. wire \subseteq wire' /\ ("up" \in wire' => "up" \in wire \/ link.st = "starting") /\ play.on
      BY <1>15 DEF RunnerUp, RunnerFrame, RunnerEnds, RunnerReplay, Says, Alive
    <2>3. ReelLike(reel')
      BY <1>0, <1>15 DEF RunnerUp, RunnerFrame, RunnerEnds, RunnerReplay, ReelLike
    <2>4. QED
      BY <1>0, <1>1, <2>1, <2>2, <2>3 DEF OneRequest, AgreedSlot
  <1>16. CASE StartPending
    <2>1. UNCHANGED <<wire, menu, rq, states, agreed, reel>>
      BY <1>16 DEF StartPending
    <2>2. CASE UNCHANGED <<play, link>>
      BY <1>3, <2>1, <2>2
    <2>3. ASSUME NEW ok \in BOOLEAN, ~play.on, play' = [on |-> ok, net |-> FALSE, quit |-> FALSE],
                 link' = (IF ok THEN Fresh ELSE NoLink)
          PROVE  AskedInv'
      <3>1. PlayLike(play') /\ LinkLike(link') /\ link'.state = "none" /\ wire = {}
        BY <1>0, <2>3, StartsLike DEF PlayLike, OneRequest
      <3>2. QED
        BY <1>0, <2>1, <3>1 DEF AskedInv, Shapes, OneRequest, AgreedSlot, Answering, Unwritten
    <2>4. QED
      BY <1>16, <2>2, <2>3 DEF StartPending
  <1>17. CASE Pump
    <2>1. link' = Heard /\ wire' = {} /\ UNCHANGED <<play, menu, rq, states, agreed, reel>>
      BY <1>17 DEF Pump
    <2>2. /\ LinkLike(link')
          /\ link'.state = (IF "state" \in wire THEN "done" ELSE IF "refused" \in wire THEN "failed" ELSE link.state)
          /\ link'.st = (IF Died THEN "ended" ELSE IF "up" \in wire THEN "ready" ELSE link.st)
      BY <1>0, <2>1, HeardMade
    <2>3. Answering' => Answering /\ wire \cap {"state", "refused"} = {}
      BY <1>0, <2>2 DEF Answering, OneRequest
    <2>4. link'.state \in {link.state, "done", "failed"}
      BY <2>2
    <2>5. QED
      BY <1>0, <2>1, <2>2, <2>3, <2>4 DEF AskedInv, Shapes, OneRequest, AgreedSlot, Answering, Unwritten
  <1>18. CASE Turbo
    <2>1. CASE UNCHANGED <<rq, agreed>>
      BY <1>3, <1>18, <2>1 DEF Turbo
    <2>2. CASE link.st = "ended"
      <3>1. rq' = NoRequest /\ UNCHANGED <<play, link, wire, menu, states, reel>>
        BY <1>18, <2>2 DEF Turbo, GiveUp, Finish
      <3>2. QED
        BY <1>0, <2>2, <3>1, StartsLike
        DEF AskedInv, Shapes, OneRequest, AgreedSlot, Answering, Unwritten
    <2>3. QED
      BY <1>18, <2>1, <2>2 DEF Turbo
  <1>19. CASE ServiceReplays
    <2>0. UNCHANGED <<play, rq, states, agreed>>
      BY <1>19 DEF ServiceReplays
    <2>1. CASE NoReplay
      BY <1>0, <1>2, <2>0, <2>1, ReelsMade DEF NoReplay
    <2>2. CASE Recording /\ wire' = wire
      <3>1. /\ link' = [link EXCEPT !.asked = reel.want] /\ UNCHANGED <<menu, wire>>
            /\ \/ reel' = [Noticed EXCEPT !.want = "none"]
               \/ reel' = [Noticed EXCEPT !.want = "none", !.preview = reel.made + 1]
        BY <2>2 DEF Recording
      <3>2. LinkLike(link') /\ link'.st = link.st /\ link'.state = link.state
        BY <1>0, <3>1 DEF LinkLike
      <3>3. ReelLike(reel')
        BY <1>0, <3>1, ReelsMade DEF ReelLike
      <3>4. QED
        BY <1>0, <2>0, <3>1, <3>2, <3>3
        DEF AskedInv, Shapes, OneRequest, AgreedSlot, Answering, Unwritten
    <2>3. CASE Restart
      <3>1. CASE reel' = [Noticed EXCEPT !.play = 0] /\ UNCHANGED <<link, menu, wire>>
        <4>1. ReelLike(reel')
          BY <1>0, <3>1, ReelsMade DEF ReelLike
        <4>2. QED
          BY <1>2, <2>0, <3>1, <4>1
      <3>2. CASE /\ reel' = [Noticed EXCEPT !.play = 0, !.seen = "idle"]
                 /\ link' = Replaying /\ wire' = {}
                 /\ SetPaused(FALSE)
        <4>1. ReelLike(reel')
          BY <1>0, <3>2, ReelsMade DEF ReelLike
        <4>2. LinkLike(link') /\ link'.state = "none"
          BY <3>2, StartsLike
        <4>3. MenuLike(menu') /\ menu'.confirm \in {0, menu'.view}
              /\ (menu.confirm = 0 => menu'.confirm = 0)
          BY <1>0, <3>2, PagesMade DEF SetPaused, AgreedSlot
        <4>4. QED
          BY <1>0, <2>0, <3>2, <4>1, <4>2, <4>3
          DEF AskedInv, Shapes, OneRequest, AgreedSlot, Answering, Unwritten
      <3>3. QED
        BY <2>3, <3>1, <3>2 DEF Restart
    <2>4. QED
      BY <1>19, <2>1, <2>2, <2>3 DEF ServiceReplays
  <1>20. CASE ServiceStates
    <2>0. UNCHANGED <<play, wire, states, reel>>
      BY <1>20 DEF ServiceStates
    <2>1. ASSUME rq' = NoRequest, LinkLike(link'), link'.st = link.st,
                 link'.state \in {link.state, "none"},
                 link.st = "ended" \/ link'.state = "none" \/ ~Answering,
                 menu' = menu \/ menu' = Closed
          PROVE  AskedInv'
      <3>1. MenuLike(menu') /\ menu'.confirm \in {0, menu'.view}
        BY <1>0, <2>1, PagesMade, MenusMade DEF AgreedSlot
      <3>2. ~Answering'
        BY <2>1 DEF Answering
      <3>3. QED
        BY <1>0, <2>0, <2>1, <3>1, <3>2, StartsLike
        DEF AskedInv, Shapes, OneRequest, AgreedSlot, Unwritten
    <2>2. CASE SendState
      <3>0. rq.at \in {"asked", "waiting"} /\ ~Answering /\ menu' = menu
        BY <1>0, <2>2 DEF SendState, OneRequest
      <3>1. CASE link.st # "ready"
        BY <1>0, <2>1, <2>2, <3>0, <3>1 DEF SendState, Finish
      <3>2. CASE rq' = [rq EXCEPT !.at = "sent"] /\ link' = [link EXCEPT !.state = rq.kind]
                 /\ agreed' = agreed
        <4>1. RqLike(rq') /\ rq'.at = "sent" /\ rq'.kind = rq.kind /\ rq'.slot = rq.slot
          BY <1>0, <3>2 DEF RqLike
        <4>2. LinkLike(link') /\ link'.state = rq.kind /\ link'.st = link.st
          BY <1>0, <3>2 DEF LinkLike
        <4>3. QED
          BY <1>0, <2>0, <3>0, <3>2, <4>1, <4>2
          DEF AskedInv, Shapes, OneRequest, AgreedSlot, Answering, Unwritten
      <3>3. CASE rq' = [rq EXCEPT !.at = "waiting"] /\ UNCHANGED <<link, agreed>>
        <4>1. RqLike(rq') /\ rq'.at = "waiting" /\ rq'.kind = rq.kind /\ rq'.slot = rq.slot
          BY <1>0, <3>3 DEF RqLike
        <4>2. QED
          BY <1>0, <2>0, <3>0, <3>3, <4>1
          DEF AskedInv, Shapes, OneRequest, AgreedSlot, Answering, Unwritten
      <3>4. QED
        BY <2>2, <3>1, <3>2, <3>3 DEF SendState
    <2>3. CASE StateResult
      <3>1. /\ link' = [link EXCEPT !.state = "none"] /\ rq' = NoRequest
            /\ menu' = menu \/ menu' = Closed
        BY <2>3 DEF StateResult, Finish, SetPaused
      <3>2. LinkLike(link') /\ link'.state = "none" /\ link'.st = link.st
        BY <1>0, <3>1 DEF LinkLike
      <3>3. QED
        BY <2>1, <3>1, <3>2
    <2>4. CASE NoState
      BY <1>3, <2>0, <2>4 DEF NoState
    <2>5. QED
      BY <1>20, <2>2, <2>3, <2>4 DEF ServiceStates
  <1>21. CASE Grant
    <2>1. UNCHANGED <<play, wire, menu, rq, states, agreed, reel>>
      BY <1>21 DEF Grant
    <2>2. LinkLike(link') /\ link'.st = link.st /\ link'.state = link.state
      <3>1. link' = link \/ link' = [link EXCEPT !.frame = TRUE]
        BY <1>21 DEF Grant
      <3>2. QED
        BY <1>0, <3>1 DEF LinkLike
    <2>3. QED
      BY <1>0, <2>1, <2>2 DEF AskedInv, Shapes, OneRequest, AgreedSlot, Answering, Unwritten
  <1>22. CASE Shutdown
    <2>1. /\ play' = [on |-> FALSE, net |-> FALSE, quit |-> FALSE]
          /\ link' = NoLink /\ wire' = {} /\ menu' = NoMenu /\ rq' = NoRequest /\ states' = states
      BY <1>22 DEF Shutdown
    <2>2. PlayLike(play')
      BY <2>1 DEF PlayLike
    <2>3. ReelLike(Previewed(reel))
      BY <1>0 DEF Previewed, ReelLike
    <2>4. ReelLike(reel')
      BY <1>22, <2>3 DEF Shutdown, ReelLike
    <2>5. QED
      BY <1>0, <2>1, <2>2, <2>4, StartsLike
      DEF AskedInv, Shapes, OneRequest, AgreedSlot, Answering, Unwritten
  <1>23. ASSUME NEW k, rq' = [kind |-> k, slot |-> menu.view, at |-> "asked"],
                rq.at = "none", MenuLike(menu'), menu'.confirm = 0,
                UNCHANGED <<play, link, wire, states, reel>>,
                k = "save" => states[menu.view] = 0 \/ menu.view \in agreed'
         PROVE  AskedInv'
    <2>1. RqLike(rq') /\ rq'.kind = k /\ rq'.slot = menu.view /\ rq'.at = "asked"
      BY <1>23 DEF RqLike
    <2>2. QED
      BY <1>0, <1>23, <2>1 DEF AskedInv, Shapes, OneRequest, AgreedSlot, Answering, Unwritten
  <1>24. CASE SaveSlot \/ LoadSlot
    <2>1. /\ menu.view # 0 /\ menu.confirm = 0 /\ rq.at = "none"
          /\ UNCHANGED <<play, link, wire, states, agreed, reel>>
      BY <1>0, <1>24 DEF SaveSlot, LoadSlot, NotBusy, AgreedSlot
    <2>2. CASE menu' = [menu EXCEPT !.confirm = menu.view, !.delete = FALSE] /\ rq' = rq
      <3>1. MenuLike(menu') /\ menu'.confirm = menu'.view
        BY <1>0, <2>2 DEF MenuLike
      <3>2. QED
        BY <1>0, <1>1, <2>1, <2>2, <3>1
    <2>3. CASE states[menu.view] = 0 /\ Ask("save") /\ menu' = menu
      BY <1>0, <1>23, <2>1, <2>3 DEF Ask
    <2>4. CASE Ask("load") /\ menu' = menu
      BY <1>0, <1>23, <2>1, <2>4 DEF Ask
    <2>5. QED
      BY <1>24, <2>2, <2>3, <2>4 DEF SaveSlot, LoadSlot
  <1>25. CASE Confirm
    <2>1. /\ menu.view # 0 /\ menu.confirm # 0 /\ rq.at = "none" /\ agreed' = {menu.view}
          /\ UNCHANGED <<play, link, wire, reel>>
      BY <1>0, <1>25 DEF Confirm, OneRequest
    <2>2. ~Answering
      BY <1>0, <2>1 DEF OneRequest
    <2>3. CASE menu.delete
      <3>1. /\ states' = [states EXCEPT ![menu.view] = IF NotBusy THEN 0 ELSE @]
            /\ menu' = [menu EXCEPT !.view = 0, !.confirm = 0] /\ rq' = rq
        BY <1>25, <2>3 DEF Confirm
      <3>2. MenuLike(menu') /\ menu'.confirm = 0
        BY <1>0, <3>1 DEF MenuLike
      <3>3. states' \in [Slots -> Nat]
        BY <1>0, <3>1
      <3>4. QED
        BY <1>0, <2>1, <2>2, <3>1, <3>2, <3>3
        DEF AskedInv, Shapes, OneRequest, AgreedSlot, Answering, Unwritten
    <2>4. CASE ~menu.delete
      <3>1. Ask("save") /\ menu' = [menu EXCEPT !.confirm = 0] /\ states' = states
        BY <1>25, <2>1, <2>4 DEF Confirm, NotBusy
      <3>2. MenuLike(menu') /\ menu'.confirm = 0
        BY <1>0, <3>1 DEF MenuLike
      <3>3. QED
        BY <1>23, <2>1, <3>1, <3>2 DEF Ask
    <2>5. QED
      BY <2>3, <2>4
  <1>26. ASSUME NEW ok \in BOOLEAN, RunnerState(ok) PROVE AskedInv'
    <2>1. /\ Answering /\ wire \cap {"state", "refused"} = {} /\ play.on
          /\ UNCHANGED <<play, link, menu, rq, agreed, reel>>
      BY <1>26 DEF RunnerState, Says, Alive, Answering
    <2>2. /\ wire' = wire \cup {IF ok THEN "state" ELSE "refused"}
      BY <1>26 DEF RunnerState, Says
    <2>3. ~Unwritten' /\ ("up" \in wire' => "up" \in wire)
      BY <2>2 DEF Unwritten
    <2>4. states' \in [Slots -> Nat]
      BY <1>0, <1>26 DEF RunnerState
    <2>5. rq.at = "sent"
      BY <1>0, <2>1 DEF OneRequest
    <2>6. QED
      BY <1>0, <2>1, <2>3, <2>4, <2>5 DEF AskedInv, Shapes, OneRequest, AgreedSlot, Answering
  <1>27. QED
    BY <1>4, <1>8, <1>9, <1>10, <1>11, <1>12, <1>13, <1>14, <1>15, <1>16, <1>17, <1>18, <1>19,
       <1>20, <1>21, <1>22, <1>24, <1>25, <1>26
    DEF PlayNext, Loop, Player, Runner, RunnerAnswers

(* A slot's state changes by the runner's save or by the player's yes.      *)
LEMMA SlotLost ==
  ASSUME AskedInv, [PlayNext]_plVars, NEW s \in Slots, states[s] # 0, states'[s] # states[s]
  PROVE  s \in agreed'
  <1>0. states \in [Slots -> Nat] /\ OneRequest /\ AgreedSlot
    BY DEF AskedInv, Shapes
  <1>1. CASE Confirm
    <2>1. states' = states \/ states' = [states EXCEPT ![menu.view] = IF NotBusy THEN 0 ELSE @]
      BY <1>1 DEF Confirm
    <2>2. s = menu.view
      BY <1>0, <2>1
    <2>3. QED
      BY <1>1, <2>2 DEF Confirm
  <1>2. ASSUME NEW ok \in BOOLEAN, RunnerState(ok) PROVE s \in agreed'
    <2>1. /\ link.state = "save" /\ agreed' = agreed
          /\ states' = [states EXCEPT ![rq.slot] = IF @ = 1 THEN 2 ELSE 1]
      BY <1>2 DEF RunnerState
    <2>2. s = rq.slot
      BY <1>0, <2>1
    <2>3. Unwritten
      BY <1>2 DEF RunnerState, Says, Alive, Unwritten, Answering
    <2>4. rq.kind = "save" /\ rq.at = "sent"
      BY <1>0, <2>1, <2>3 DEF OneRequest, Unwritten
    <2>5. QED
      BY <1>0, <2>1, <2>2, <2>3, <2>4 DEF AgreedSlot
  <1>3. ~Confirm /\ (\A ok \in BOOLEAN : ~RunnerState(ok)) => states' = states
    <2>1. Loop => states' = states
      BY DEF Loop, EventsDone, StartPending, Pump, NothingPlays, Turbo, ServiceReplays,
             ServiceStates, Grant, AskLaunch, Look, Decide, Drawn, Shutdown
    <2>2. Player => states' = states \/ Confirm
      BY DEF Player, KeyMenu, KeyTab, KeyStates, KeyRecord, KeyTurbo, FocusLost, PadMenu,
             PadTurbo, Rail, PickSlot, SaveSlot, LoadSlot, DeleteSlot, PickMovie, PlayMovie,
             DeleteMovie, RecordNew, Back
    <2>3. Runner => states' = states \/ \E ok \in BOOLEAN : RunnerState(ok)
      BY DEF Runner, RunnerAnswers, RunnerUp, RunnerFrame, RunnerReplay, RunnerEnds
    <2>4. Find \/ WorkerDone \/ UNCHANGED plVars => states' = states
      BY DEF Find, WorkerDone, plVars
    <2>5. QED
      BY <2>1, <2>2, <2>3, <2>4 DEF PlayNext
  <1>4. QED
    BY <1>1, <1>2, <1>3

(* A replay's file goes only by the second press on its own card.           *)
LEMMA MovieLost ==
  ASSUME AskedInv, [PlayNext]_plVars, NEW f \in reel.files \ reel'.files
  PROVE  reel.ask = f
  <1>0. ReelLike(reel) /\ ReelLike(Noticed) /\ Noticed.files = reel.files
    BY ReelsMade DEF AskedInv, Shapes
  <1>1. CASE DeleteMovie
    <2>1. reel.ask = Movie /\ reel'.files = reel.files \ {Movie}
      BY <1>0, <1>1 DEF DeleteMovie, AskedAbout, ReelLike
    <2>2. QED
      BY <2>1
  <1>2. Loop => reel'.files = reel.files
    <2>1. ServiceReplays => reel'.files = reel.files
      BY <1>0 DEF ServiceReplays, Recording, Restart, NoReplay, ReelLike
    <2>2. Shutdown => reel'.files = reel.files
      <3>1. ReelLike(Previewed(reel)) /\ Previewed(reel).files = reel.files
        BY <1>0 DEF Previewed, ReelLike
      <3>2. QED
        BY <3>1 DEF Shutdown, ReelLike
    <2>3. QED
      BY <2>1, <2>2
      DEF Loop, EventsDone, StartPending, Pump, NothingPlays, Turbo, ServiceStates, Grant,
          AskLaunch, Look, Decide, Drawn
  <1>3. Player => reel'.files = reel.files \/ DeleteMovie
    <2>1. ToggleRecording => reel'.files = reel.files
      BY <1>0 DEF ToggleRecording, ReelLike
    <2>2. OpenReplays => reel'.files = reel.files
      BY <1>0 DEF OpenReplays, ReelLike
    <2>3. (\E i \in 1 .. MaxMovies : PickMovie(i)) \/ PlayMovie \/ Back => reel'.files = reel.files
      BY <1>0 DEF PickMovie, PlayMovie, Back, ReelLike
    <2>4. (\E p \in {"resume", "states", "replays", "close"} : Rail(p)) \/ KeyTab \/ KeyRecord \/ RecordNew
            => reel'.files = reel.files
      BY <2>1, <2>2 DEF Rail, KeyTab, KeyRecord, RecordNew
    <2>5. KeyMenu \/ KeyStates \/ KeyTurbo \/ FocusLost \/ PadMenu \/ PadTurbo \/ SaveSlot
            \/ LoadSlot \/ DeleteSlot \/ Confirm \/ (\E s \in Slots : PickSlot(s))
            => reel' = reel
      BY DEF KeyMenu, KeyStates, KeyTurbo, FocusLost, PadMenu, PadTurbo, SaveSlot, LoadSlot,
             DeleteSlot, Confirm, PickSlot
    <2>6. QED
      BY <2>3, <2>4, <2>5 DEF Player
  <1>4. Runner => reel.files \subseteq reel'.files
    <2>1. RunnerReplay => reel.files \subseteq reel'.files
      BY <1>0 DEF RunnerReplay, ReelLike
    <2>2. QED
      BY <2>1 DEF Runner, RunnerAnswers, RunnerUp, RunnerFrame, RunnerState, RunnerEnds
  <1>5. Find \/ WorkerDone \/ UNCHANGED plVars => reel' = reel
    BY DEF Find, WorkerDone, plVars
  <1>6. QED
    BY <1>1, <1>2, <1>3, <1>4, <1>5 DEF PlayNext

(* A state or a replay is lost only after the player was asked about that   *)
(* one, whatever the order of presses, answers, restarts and endings        *)
(* (hub_play.cpp:906 and 976).                                              *)
THEOREM AskedFirstHolds == PlaySpec => AskedFirst
  <1>1. AskedInv /\ [PlayNext]_plVars
          => [/\ \A f \in reel.files \ reel'.files : reel.ask = f
              /\ \A s \in Slots : states[s] # 0 /\ states'[s] # states[s] => s \in agreed']_plVars
    BY SlotLost, MovieLost
  <1>2. QED
    BY <1>1, AskedInit, AskedStep, PTL DEF PlaySpec, AskedFirst

(* What the loop, the menu and the request can be at.                      *)
Turns == {"events", "start", "tick", "pads", "replays", "states", "grant", "ask", "look", "decide",
          "draw"}
AnySlot == Slots \cup {0}

LEMMA TurnStep == turn \in Turns /\ [PlayNext]_plVars => turn' \in Turns
  <1> SUFFICES ASSUME turn \in Turns, [PlayNext]_plVars PROVE turn' \in Turns
    OBVIOUS
  <1>1. CASE turn' = turn
    BY <1>1
  <1>2. CASE Loop
    <2>1. CASE Turbo
      <3>1. turn' \in {"ask", "replays", "grant"}
        BY <2>1 DEF Turbo
      <3>2. QED
        BY <3>1 DEF Turns
    <2>2. QED
      BY <1>2, <2>1
      DEF Turns, Loop, EventsDone, StartPending, Pump, NothingPlays, ServiceReplays,
          ServiceStates, Grant, AskLaunch, Look, Decide, Drawn, Shutdown
  <1>3. CASE Player
    <2>1. turn' = turn \/ turn' = "events"
      BY <1>3
      DEF Player, KeyMenu, KeyTab, KeyStates, KeyRecord, KeyTurbo, FocusLost, PadMenu, PadTurbo,
          Rail, PickSlot, SaveSlot, LoadSlot, DeleteSlot, Confirm, PickMovie, PlayMovie,
          DeleteMovie, RecordNew, Back, OnPage, InMenu
    <2>2. QED
      BY <2>1 DEF Turns
  <1>4. CASE Runner
    BY <1>1, <1>4
    DEF Runner, RunnerAnswers, RunnerUp, RunnerFrame, RunnerState, RunnerReplay, RunnerEnds
  <1>5. QED
    BY <1>1, <1>2, <1>3, <1>4 DEF PlayNext, Find, WorkerDone, plVars

(* What opens and closes the menu keeps the slot in view, or none.         *)
LEMMA ViewsMade ==
  ASSUME MenuLike(menu), menu.view \in AnySlot,
         OpenStates \/ OpenReplays \/ menu' \in {menu, Opened, Closed}
  PROVE  menu'.view \in AnySlot
  <1>1. Opened.view \in AnySlot /\ Closed.view \in AnySlot /\ MenuLike(Opened)
    BY MenusMade DEF AnySlot
  <1>2. CASE OpenStates
    BY <1>1, <1>2 DEF OpenStates, MenuLike, AnySlot
  <1>3. CASE OpenReplays
    BY <1>1, <1>3 DEF OpenReplays, MenuLike
  <1>4. CASE menu' \in {menu, Opened, Closed}
    BY <1>1, <1>4
  <1>5. QED
    BY <1>2, <1>3, <1>4

LEMMA ViewStep == AskedInv /\ menu.view \in AnySlot /\ [PlayNext]_plVars => menu'.view \in AnySlot
  <1> SUFFICES ASSUME AskedInv, menu.view \in AnySlot, [PlayNext]_plVars
               PROVE  menu'.view \in AnySlot
    OBVIOUS
  <1>0. MenuLike(menu)
    BY DEF AskedInv, Shapes
  <1>1. CASE OpenStates \/ OpenReplays \/ menu' \in {menu, Opened, Closed}
    BY <1>0, <1>1, ViewsMade
  <1>2. CASE Loop
    <2>1. CASE Shutdown
      BY <2>1, StartsLike DEF Shutdown, AnySlot
    <2>2. CASE ~Shutdown
      <3>1. menu' \in {menu, Opened, Closed}
        BY <1>2, <2>2
        DEF Loop, EventsDone, StartPending, Pump, NothingPlays, Turbo, ServiceReplays, Recording,
            Restart, NoReplay, ServiceStates, SendState, StateResult, NoState, SetPaused, Grant,
            AskLaunch, Look, Decide, Drawn
      <3>2. QED
        BY <1>1, <3>1
    <2>3. QED
      BY <2>1, <2>2
  <1>3. CASE KeyMenu \/ KeyTab \/ KeyStates \/ KeyRecord \/ KeyTurbo \/ FocusLost \/ PadMenu \/ PadTurbo
    <2>1. OpenStates \/ OpenReplays \/ menu' \in {menu, Opened, Closed}
      BY <1>3
      DEF KeyMenu, KeyTab, KeyStates, StatesShortcut, KeyRecord, KeyTurbo, FocusLost, PadMenu,
          PadTurbo, SetPaused
    <2>2. QED
      BY <1>1, <2>1
  <1>4. ASSUME NEW p \in {"resume", "states", "replays", "close"}, Rail(p)
        PROVE  menu'.view \in AnySlot
    <2>1. OpenStates \/ OpenReplays \/ menu' \in {menu, Opened, Closed}
      BY <1>4 DEF Rail, SetPaused
    <2>2. QED
      BY <1>1, <2>1
  <1>5. ASSUME NEW s \in Slots, PickSlot(s) PROVE menu'.view \in AnySlot
    BY <1>0, <1>5 DEF PickSlot, MenuLike, AnySlot
  <1>6. CASE SaveSlot \/ LoadSlot \/ DeleteSlot \/ Confirm \/ Back
    <2>1. \/ menu' = menu \/ menu' = Closed
          \/ menu' = [menu EXCEPT !.confirm = menu.view, !.delete = FALSE]
          \/ menu' = [menu EXCEPT !.confirm = menu.view, !.delete = TRUE]
          \/ menu' = [menu EXCEPT !.view = 0, !.confirm = 0]
          \/ menu' = [menu EXCEPT !.confirm = 0]
          \/ menu' = [menu EXCEPT !.page = "main"]
      BY <1>6 DEF SaveSlot, LoadSlot, DeleteSlot, Confirm, Back
    <2>2. menu' = menu \/ menu' = Closed \/ menu'.view \in {menu.view, 0}
      BY <1>0, <2>1 DEF MenuLike
    <2>3. QED
      BY <1>1, <2>2 DEF AnySlot
  <1>7. CASE PlayMovie \/ DeleteMovie \/ RecordNew \/ \E i \in 1 .. MaxMovies : PickMovie(i)
    <2>1. menu' \in {menu, Opened, Closed}
      BY <1>7 DEF PlayMovie, DeleteMovie, RecordNew, PickMovie, SetPaused
    <2>2. QED
      BY <1>1, <2>1
  <1>8. CASE Runner \/ Find \/ WorkerDone \/ UNCHANGED plVars
    <2>1. menu' = menu
      BY <1>8
      DEF Runner, RunnerAnswers, RunnerUp, RunnerFrame, RunnerState, RunnerReplay, RunnerEnds,
          Find, WorkerDone, plVars
    <2>2. QED
      BY <1>1, <2>1
  <1>9. QED
    BY <1>2, <1>3, <1>4, <1>5, <1>6, <1>7, <1>8 DEF PlayNext, Player

RqTyped == rq.slot \in AnySlot /\ rq.at \in {"none", "asked", "waiting", "sent"}

LEMMA RqStep ==
  AskedInv /\ menu.view \in AnySlot /\ RqTyped /\ [PlayNext]_plVars => RqTyped'
  <1> SUFFICES ASSUME AskedInv, menu.view \in AnySlot, RqTyped, [PlayNext]_plVars
               PROVE  RqTyped'
    OBVIOUS
  <1>0. RqLike(rq)
    BY DEF AskedInv, Shapes
  <1>1. CASE rq' = rq
    BY <1>1 DEF RqTyped
  <1>2. CASE rq' = NoRequest
    BY <1>2 DEF RqTyped, NoRequest, AnySlot
  <1>3. CASE rq' = [rq EXCEPT !.at = "sent"] \/ rq' = [rq EXCEPT !.at = "waiting"]
    BY <1>0, <1>3 DEF RqTyped, RqLike
  <1>4. CASE \E k : Ask(k)
    BY <1>4 DEF RqTyped, Ask
  <1>5. Loop => rq' = rq \/ rq' = NoRequest
                 \/ rq' = [rq EXCEPT !.at = "sent"] \/ rq' = [rq EXCEPT !.at = "waiting"]
    BY DEF Loop, EventsDone, StartPending, Pump, NothingPlays, Turbo, GiveUp, Finish,
           ServiceReplays, ServiceStates, SendState, StateResult, NoState, Grant, AskLaunch, Look,
           Decide, Drawn, Shutdown
  <1>6. SaveSlot \/ LoadSlot \/ Confirm => rq' = rq \/ \E k : Ask(k)
    BY DEF SaveSlot, LoadSlot, Confirm
  <1>7. Player => rq' = rq \/ SaveSlot \/ LoadSlot \/ Confirm
    BY DEF Player, KeyMenu, KeyTab, KeyStates, KeyRecord, KeyTurbo, FocusLost, PadMenu, PadTurbo,
           Rail, PickSlot, DeleteSlot, PickMovie, PlayMovie, DeleteMovie, RecordNew, Back
  <1>8. Runner \/ Find \/ WorkerDone \/ UNCHANGED plVars => rq' = rq
    BY DEF Runner, RunnerAnswers, RunnerUp, RunnerFrame, RunnerState, RunnerReplay, RunnerEnds,
           Find, WorkerDone, plVars
  <1>9. QED
    BY <1>1, <1>2, <1>3, <1>4, <1>5, <1>6, <1>7, <1>8 DEF PlayNext

(* The runner answers what it was asked, and what it was asked is the      *)
(* browser's, until it has ended.                                          *)
Heeded ==
    /\ link.st \in {"idle", "starting", "ready", "ended"}
    /\ wire \cap {"state", "refused"} # {} => link.state \in {"save", "load"}
    /\ link.state # "none" => rq.at = "sent" \/ link.st = "ended"

LEMMA LinksStart ==
  /\ NoLink.st = "idle" /\ Fresh.st = "starting" /\ Replaying.st = "starting"
  /\ NoLink.state = "none" /\ Fresh.state = "none" /\ Replaying.state = "none"
  <1>1. NoLink.st = "idle"
    BY DEF NoLink
  <1>2. ASSUME NEW l, l = [NoLink EXCEPT !.st = "starting"] PROVE l.st = "starting"
    BY <1>2, StartsLike DEF LinkLike
  <1>3. ASSUME NEW l, l = [Fresh EXCEPT !.replay = "playing"] PROVE l.st = Fresh.st
    BY <1>3, StartsLike DEF LinkLike
  <1>4. Fresh.st = "starting"
    BY <1>2 DEF Fresh
  <1>5. Replaying.st = Fresh.st
    BY <1>3 DEF Replaying
  <1>6. QED
    BY <1>1, <1>4, <1>5, StartsLike

LEMMA HeededStep == AskedInv /\ Heeded /\ [PlayNext]_plVars => Heeded'
  <1> SUFFICES ASSUME AskedInv, Heeded, [PlayNext]_plVars PROVE Heeded'
    OBVIOUS
  <1>0. LinkLike(link) /\ RqLike(rq) /\ OneRequest
    BY DEF AskedInv, Shapes
  <1>1. ASSUME UNCHANGED <<link, wire>>, rq' = rq \/ rq.at = "none" \/ link.st = "ended"
        PROVE  Heeded'
    BY <1>1 DEF Heeded
  <1>2. ASSUME link' = NoLink \/ link' = Fresh \/ link' = Replaying, wire' = {}
        PROVE  Heeded'
    <2>1. link'.state = "none" /\ link'.st \in {"idle", "starting"}
      BY <1>2, LinksStart
    <2>2. QED
      BY <1>2, <2>1 DEF Heeded
  <1>3. CASE EventsDone \/ NothingPlays \/ AskLaunch \/ Look \/ Decide \/ Drawn
    BY <1>1, <1>3 DEF EventsDone, NothingPlays, AskLaunch, Look, Decide, Drawn
  <1>4. CASE StartPending
    <2>1. CASE UNCHANGED <<play, link, worker>>
      BY <1>1, <1>4, <2>1 DEF StartPending
    <2>2. CASE ~UNCHANGED <<play, link, worker>>
      BY <1>0, <1>2, <1>4, <2>2 DEF StartPending, OneRequest
    <2>3. QED
      BY <2>1, <2>2
  <1>5. CASE Pump
    <2>1. link' = Heard /\ wire' = {} /\ rq' = rq
      BY <1>5 DEF Pump
    <2>2. /\ link'.state = (IF "state" \in wire THEN "done" ELSE IF "refused" \in wire THEN "failed" ELSE link.state)
          /\ link'.st = (IF Died THEN "ended" ELSE IF "up" \in wire THEN "ready" ELSE link.st)
      BY <1>0, <2>1, HeardMade
    <2>3. link'.state # "none" => link.state # "none"
      BY <2>2 DEF Heeded
    <2>4. "up" \in wire => link.st # "ended"
      BY <1>0 DEF OneRequest
    <2>5. QED
      BY <2>1, <2>2, <2>3, <2>4 DEF Heeded
  <1>6. CASE Turbo
    BY <1>1, <1>6 DEF Turbo
  <1>7. CASE ServiceReplays
    <2>1. rq' = rq
      BY <1>7 DEF ServiceReplays
    <2>2. CASE NoReplay
      BY <1>1, <2>1, <2>2 DEF NoReplay
    <2>3. CASE Recording /\ wire' = wire
      <3>1. link' = [link EXCEPT !.asked = reel.want]
        BY <2>3 DEF Recording
      <3>2. link'.st = link.st /\ link'.state = link.state
        BY <1>0, <3>1 DEF LinkLike
      <3>3. QED
        BY <2>1, <2>3, <3>2 DEF Heeded
    <2>4. CASE Restart
      BY <1>1, <1>2, <2>1, <2>4 DEF Restart
    <2>5. QED
      BY <1>7, <2>2, <2>3, <2>4 DEF ServiceReplays
  <1>8. CASE ServiceStates
    <2>1. wire' = wire
      BY <1>8 DEF ServiceStates
    <2>2. CASE SendState
      <3>1. rq.at \in {"asked", "waiting"} /\ (link.state = "none" \/ link.st = "ended")
        BY <2>2 DEF SendState, Heeded
      <3>2. CASE link.st # "ready"
        <4>1. link' = link
          BY <2>2, <3>2 DEF SendState
        <4>2. QED
          BY <2>1, <3>1, <4>1 DEF Heeded
      <3>3. CASE link.st = "ready" /\ CanRequestState
        <4>1. /\ rq' = [rq EXCEPT !.at = "sent"] /\ link' = [link EXCEPT !.state = rq.kind]
              /\ link.state = "none"
          BY <2>2, <3>3 DEF SendState, CanRequestState, CanGrant
        <4>2. rq'.at = "sent" /\ link'.st = link.st
          BY <1>0, <4>1 DEF RqLike, LinkLike
        <4>3. QED
          BY <2>1, <4>1, <4>2 DEF Heeded
      <3>4. CASE link.st = "ready" /\ ~CanRequestState
        <4>1. link' = link
          BY <2>2, <3>4 DEF SendState
        <4>2. QED
          BY <2>1, <3>1, <4>1 DEF Heeded
      <3>5. QED
        BY <3>2, <3>3, <3>4
    <2>3. CASE StateResult
      <3>1. link' = [link EXCEPT !.state = "none"] /\ link.state \in {"done", "failed"}
        BY <2>3 DEF StateResult
      <3>2. link'.state = "none" /\ link'.st = link.st
        BY <1>0, <3>1 DEF LinkLike
      <3>3. QED
        BY <2>1, <3>1, <3>2 DEF Heeded
    <2>4. CASE NoState
      BY <1>1, <2>1, <2>4 DEF NoState
    <2>5. QED
      BY <1>8, <2>2, <2>3, <2>4 DEF ServiceStates
  <1>9. CASE Grant
    <2>1. link' = link \/ link' = [link EXCEPT !.frame = TRUE]
      BY <1>9 DEF Grant
    <2>2. link'.st = link.st /\ link'.state = link.state
      BY <1>0, <2>1 DEF LinkLike
    <2>3. QED
      BY <1>9, <2>2 DEF Grant, Heeded
  <1>10. CASE Shutdown
    BY <1>2, <1>10 DEF Shutdown
  <1>11. CASE SaveSlot \/ LoadSlot \/ Confirm
    <2>1. UNCHANGED <<link, wire>> /\ (rq' = rq \/ rq.at = "none")
      BY <1>11 DEF SaveSlot, LoadSlot, Confirm, NotBusy
    <2>2. QED
      BY <1>1, <2>1
  <1>12. ASSUME NEW p \in {"resume", "states", "replays", "close"}, Rail(p) PROVE Heeded'
    <2>1. UNCHANGED <<wire, rq>>
      BY <1>12 DEF Rail
    <2>2. link' = link \/ link' = [link EXCEPT !.st = "ended", !.frame = FALSE]
      BY <1>12 DEF Rail
    <2>3. link'.state = link.state /\ link'.st \in {link.st, "ended"}
      BY <1>0, <2>2 DEF LinkLike
    <2>4. QED
      BY <2>1, <2>3 DEF Heeded
  <1>13. Player => UNCHANGED <<link, wire, rq>> \/ SaveSlot \/ LoadSlot \/ Confirm
                   \/ \E p \in {"resume", "states", "replays", "close"} : Rail(p)
    BY DEF Player, KeyMenu, KeyTab, KeyStates, KeyRecord, KeyTurbo, FocusLost, PadMenu, PadTurbo,
           PickSlot, DeleteSlot, PickMovie, PlayMovie, DeleteMovie, RecordNew, Back
  <1>14. CASE RunnerUp \/ RunnerFrame \/ RunnerReplay \/ RunnerEnds
    <2>1. UNCHANGED <<link, rq>>
      BY <1>14 DEF RunnerUp, RunnerFrame, RunnerReplay, RunnerEnds
    <2>2. wire' \cap {"state", "refused"} = wire \cap {"state", "refused"}
      BY <1>14 DEF RunnerUp, RunnerFrame, RunnerReplay, RunnerEnds, Says
    <2>3. QED
      BY <2>1, <2>2 DEF Heeded
  <1>15. ASSUME NEW ok \in BOOLEAN, RunnerState(ok) PROVE Heeded'
    BY <1>15 DEF RunnerState, Heeded
  <1>16. CASE Find \/ WorkerDone \/ UNCHANGED plVars
    BY <1>1, <1>16 DEF Find, WorkerDone, plVars
  <1>17. QED
    BY <1>1, <1>3, <1>4, <1>5, <1>6, <1>7, <1>8, <1>9, <1>10, <1>11, <1>12, <1>13, <1>14, <1>15,
       <1>16
    DEF PlayNext, Loop, Runner, RunnerAnswers

(* The cards are those of the files there are, and a preview is of a       *)
(* recording that was stopped.                                             *)
Dealt(cards) == DOMAIN cards = 1 .. Len(cards) /\ Len(cards) \in Nat
Deck ==
    /\ IsFiniteSet(reel.files) /\ Dealt(reel.cards) /\ reel.view \in 0 .. Len(reel.cards)
    /\ reel.sealed \subseteq reel.files /\ reel.previews \subseteq reel.sealed

LEMMA ListedIs ==
  ASSUME IsFiniteSet(reel.files)
  PROVE  Dealt(Listed) /\ Len(Listed) = Cardinality(reel.files)
  <1> DEFINE n == Cardinality(reel.files)
             Card(i) == CHOOSE f \in reel.files : Cardinality(Newer(f)) = i - 1
             S == {Card(i) : i \in 1 .. n}
  <1>1. n \in Nat
    BY FS_CardinalityType
  <1>2. Listed = [i \in 1 .. n |-> Card(i)]
    BY DEF Listed
  <1> HIDE DEF n, Card
  <1>3. Listed \in [1 .. n -> S]
    BY <1>2
  <1> HIDE DEF S
  <1>4. Listed \in Seq(S) /\ Len(Listed) = n
    BY <1>1, <1>3
  <1>5. DOMAIN Listed = 1 .. n
    BY <1>3
  <1>6. QED
    BY <1>1, <1>4, <1>5 DEF Dealt, n

LEMMA PreviewedIs ==
  ASSUME NEW r, ReelLike(r), r.previews \subseteq r.sealed
  PROVE  /\ ReelLike(Previewed(r)) /\ Previewed(r).cards = r.cards /\ Previewed(r).view = r.view
         /\ Previewed(r).files = r.files /\ Previewed(r).sealed = r.sealed
         /\ Previewed(r).previews \subseteq r.sealed
  BY DEF Previewed, ReelLike

(* What a look at the reel makes of it.                                    *)
LEMMA DeckNoticed ==
  ASSUME ReelLike(reel), Deck
  PROVE  /\ ReelLike(Noticed) /\ Dealt(Noticed.cards) /\ Noticed.view \in 0 .. Len(Noticed.cards)
         /\ Noticed.files = reel.files /\ Noticed.sealed = reel.sealed
         /\ Noticed.previews \subseteq reel.sealed
  <1>0. /\ reel.view \in Nat /\ Cardinality(reel.files) \in Nat
        /\ Dealt(Listed) /\ Len(Listed) = Cardinality(reel.files)
    BY ListedIs, FS_CardinalityType DEF Deck
  <1> DEFINE Good(r) == /\ ReelLike(r) /\ Dealt(r.cards) /\ r.view \in 0 .. Len(r.cards)
                        /\ r.files = reel.files /\ r.sealed = reel.sealed
                        /\ r.previews \subseteq reel.sealed
  <1>1. ASSUME NEW r, Good(r) PROVE Good(Refreshed(r))
    <2>1. r.view \in Nat
      BY <1>1 DEF Dealt
    <2> DEFINE v == IF r.view > Cardinality(reel.files) THEN 0 ELSE r.view
    <2>2. v \in 0 .. Cardinality(reel.files)
      BY <1>0, <2>1
    <2>3. Refreshed(r) = [r EXCEPT !.cards = Listed, !.refresh = FALSE, !.view = v]
      BY DEF Refreshed
    <2> HIDE DEF v
    <2>4. QED
      BY <1>0, <1>1, <2>2, <2>3 DEF ReelLike
  <1>2. ASSUME NEW r, Good(r) PROVE Good(Previewed(r))
    BY <1>2, PreviewedIs
  <1>3. ASSUME NEW r, Good(r) PROVE Good([r EXCEPT !.seen = link.replay])
    BY <1>3 DEF ReelLike
  <1>4. Good(reel)
    BY DEF Deck
  <1> HIDE DEF Good
  <1> DEFINE r == IF reel.refresh THEN Refreshed(reel) ELSE reel
             s == [r EXCEPT !.seen = link.replay]
  <1>5. Good(r)
    BY <1>1, <1>4
  <1> HIDE DEF r
  <1>6. Good(s)
    BY <1>3, <1>5
  <1> HIDE DEF s
  <1>7. Good(Refreshed(Previewed(s)))
    BY <1>1, <1>2, <1>6
  <1>8. Noticed \in {r, s, Refreshed(Previewed(s))}
    BY DEF Noticed, r, s
  <1>9. Good(Noticed)
    BY <1>5, <1>6, <1>7, <1>8
  <1>10. QED
    BY <1>9 DEF Good

LEMMA DeckStep == AskedInv /\ Deck /\ [PlayNext]_plVars => Deck'
  <1> SUFFICES ASSUME AskedInv, Deck, [PlayNext]_plVars PROVE Deck'
    OBVIOUS
  <1>0. ReelLike(reel)
    BY DEF AskedInv, Shapes
  <1>1. CASE reel' = reel
    BY <1>1 DEF Deck
  <1>2. ASSUME NEW r, ReelLike(r), Dealt(r.cards), r.view \in 0 .. Len(r.cards),
               r.files = reel.files, r.sealed = reel.sealed, r.previews \subseteq reel.sealed,
               reel'.cards = r.cards, reel'.view = r.view, reel'.files = r.files,
               reel'.sealed = r.sealed, reel'.previews = r.previews
        PROVE  Deck'
    BY <1>2 DEF Deck
  <1>3. ASSUME \/ reel' = [Noticed EXCEPT !.want = "none"]
               \/ reel' = [Noticed EXCEPT !.want = "none", !.preview = reel.made + 1]
               \/ reel' = [Noticed EXCEPT !.play = 0]
               \/ reel' = [Noticed EXCEPT !.play = 0, !.seen = "idle"]
               \/ reel' = Noticed
        PROVE  Deck'
    <2>1. /\ reel'.cards = Noticed.cards /\ reel'.view = Noticed.view
          /\ reel'.files = Noticed.files /\ reel'.sealed = Noticed.sealed
          /\ reel'.previews = Noticed.previews
      BY <1>0, <1>3, DeckNoticed DEF ReelLike
    <2>2. QED
      BY <1>0, <1>2, <2>1, DeckNoticed
  <1>4. CASE ServiceReplays
    <2>1. Recording \/ Restart \/ NoReplay
      BY <1>4 DEF ServiceReplays
    <2>2. QED
      BY <1>3, <2>1 DEF Recording, Restart, NoReplay
  <1>5. CASE ToggleRecording
    <2>1. PICK w : reel' = reel \/ reel' = [reel EXCEPT !.want = w]
      BY <1>5 DEF ToggleRecording
    <2>2. QED
      BY <1>0, <2>1 DEF ReelLike, Deck
  <1>6. CASE OpenReplays
    <2>1. reel' = [reel EXCEPT !.view = 0, !.ask = 0, !.cards = Listed]
      BY <1>6 DEF OpenReplays
    <2>2. /\ reel'.cards = Listed /\ reel'.view = 0 /\ reel'.files = reel.files
          /\ reel'.sealed = reel.sealed /\ reel'.previews = reel.previews
      BY <1>0, <2>1 DEF ReelLike
    <2>3. QED
      BY <2>2, ListedIs DEF Deck, Dealt
  <1>7. CASE Shutdown
    <2>2. /\ ReelLike(Previewed(reel)) /\ Previewed(reel).files = reel.files
          /\ Previewed(reel).sealed = reel.sealed /\ Previewed(reel).previews \subseteq reel.sealed
      BY <1>0, PreviewedIs DEF Deck
    <2> DEFINE r == Previewed(reel)
    <2>3. reel' = [r EXCEPT !.cards = <<>>, !.view = 0, !.ask = 0, !.want = "none",
                            !.play = 0, !.seen = "idle", !.refresh = FALSE, !.preview = 0]
      BY <1>7 DEF Shutdown
    <2> HIDE DEF r
    <2>4. /\ reel'.cards = <<>> /\ reel'.view = 0 /\ reel'.files = r.files
          /\ reel'.sealed = r.sealed /\ reel'.previews = r.previews
      BY <2>2, <2>3 DEF ReelLike, r
    <2>5. Dealt(<<>>) /\ Len(<<>>) = 0
      BY DEF Dealt
    <2>6. QED
      BY <2>2, <2>4, <2>5 DEF Deck, r
  <1>8. ASSUME NEW i \in 1 .. MaxMovies, PickMovie(i) PROVE Deck'
    <2>1. reel' = [reel EXCEPT !.view = i, !.ask = 0] /\ i \in DOMAIN reel.cards
      BY <1>8 DEF PickMovie
    <2>2. /\ reel'.cards = reel.cards /\ reel'.view = i /\ reel'.files = reel.files
          /\ reel'.sealed = reel.sealed /\ reel'.previews = reel.previews
      BY <1>0, <2>1 DEF ReelLike
    <2>3. i \in 0 .. Len(reel.cards)
      BY <2>1 DEF Deck, Dealt
    <2>4. QED
      BY <2>2, <2>3 DEF Deck
  <1>9. CASE PlayMovie
    <2>1. reel' = [reel EXCEPT !.play = Movie]
      BY <1>9 DEF PlayMovie
    <2>2. QED
      BY <1>0, <2>1 DEF ReelLike, Deck
  <1>10. CASE DeleteMovie
    <2>1. CASE reel' = [reel EXCEPT !.ask = Movie]
      BY <1>0, <2>1 DEF ReelLike, Deck
    <2>2. CASE reel' = [reel EXCEPT !.files = @ \ {Movie}, !.sealed = @ \ {Movie},
                                 !.previews = @ \ {Movie}, !.ask = 0, !.view = 0,
                                 !.refresh = TRUE]
      <3>1. /\ reel'.cards = reel.cards /\ reel'.view = 0 /\ reel'.files = reel.files \ {Movie}
            /\ reel'.sealed = reel.sealed \ {Movie} /\ reel'.previews = reel.previews \ {Movie}
        BY <1>0, <2>2 DEF ReelLike
      <3>2. IsFiniteSet(reel.files \ {Movie})
        BY FS_Difference DEF Deck
      <3>3. QED
        BY <3>1, <3>2 DEF Deck, Dealt
    <2>3. QED
      BY <1>10, <2>1, <2>2 DEF DeleteMovie
  <1>11. CASE Back
    <2>1. CASE reel' = [reel EXCEPT !.view = 0, !.ask = 0]
      <3>1. /\ reel'.cards = reel.cards /\ reel'.view = 0 /\ reel'.files = reel.files
            /\ reel'.sealed = reel.sealed /\ reel'.previews = reel.previews
        BY <1>0, <2>1 DEF ReelLike
      <3>2. QED
        BY <3>1 DEF Deck, Dealt
    <2>2. QED
      BY <1>1, <1>11, <2>1 DEF Back
  <1>12. CASE RunnerReplay
    <2>1. CASE reel' = [reel EXCEPT !.files = @ \union {reel.made + 1}, !.made = @ + 1]
      <3>1. /\ reel'.cards = reel.cards /\ reel'.view = reel.view
            /\ reel'.files = reel.files \union {reel.made + 1}
            /\ reel'.sealed = reel.sealed /\ reel'.previews = reel.previews
        BY <1>0, <2>1 DEF ReelLike
      <3>2. IsFiniteSet(reel.files \union {reel.made + 1})
        BY FS_AddElement DEF Deck
      <3>3. QED
        BY <3>1, <3>2 DEF Deck
    <2>2. CASE reel' = [reel EXCEPT !.sealed = @ \union ({reel.made} \intersect reel.files)]
      <3>1. /\ reel'.cards = reel.cards /\ reel'.view = reel.view /\ reel'.files = reel.files
            /\ reel'.sealed = reel.sealed \union ({reel.made} \intersect reel.files)
            /\ reel'.previews = reel.previews
        BY <1>0, <2>2 DEF ReelLike
      <3>2. QED
        BY <3>1 DEF Deck
    <2>3. QED
      BY <1>12, <2>1, <2>2 DEF RunnerReplay
  <1>13. Loop => reel' = reel \/ ServiceReplays \/ Shutdown
    BY DEF Loop, EventsDone, StartPending, Pump, NothingPlays, Turbo, ServiceStates, Grant,
           AskLaunch, Look, Decide, Drawn
  <1>14. KeyTab \/ KeyRecord \/ RecordNew \/ (\E p \in {"resume", "states", "replays", "close"} : Rail(p))
           => reel' = reel \/ OpenReplays \/ ToggleRecording
    BY DEF KeyTab, KeyRecord, RecordNew, Rail
  <1>15. Player => \/ reel' = reel \/ KeyTab \/ KeyRecord \/ RecordNew \/ PlayMovie
                   \/ DeleteMovie \/ Back \/ (\E i \in 1 .. MaxMovies : PickMovie(i))
                   \/ \E p \in {"resume", "states", "replays", "close"} : Rail(p)
    BY DEF Player, KeyMenu, KeyStates, KeyTurbo, FocusLost, PadMenu, PadTurbo, PickSlot, SaveSlot,
           LoadSlot, DeleteSlot, Confirm
  <1>16. Runner \/ Find \/ WorkerDone \/ UNCHANGED plVars => reel' = reel \/ RunnerReplay
    BY DEF Runner, RunnerAnswers, RunnerUp, RunnerFrame, RunnerState, RunnerEnds, Find,
           WorkerDone, plVars
  <1>17. QED
    BY <1>1, <1>4, <1>5, <1>6, <1>7, <1>8, <1>9, <1>10, <1>11, <1>12, <1>13, <1>14, <1>15, <1>16
    DEF PlayNext

(* After turbo was worked out, vsync is off only for a game that runs, or  *)
(* when a replay's process has just taken the runner's place.              *)
TurboLike(x) == x = [key |-> x.key, pad |-> x.pad, on |-> x.on, held |-> x.held, vsync |-> x.vsync]
Late == {"replays", "states", "grant", "ask", "look", "decide", "draw"}
Synced ==
    /\ TurboLike(turbo) /\ (~play.on => turbo.vsync)
    /\ turn \in Late /\ ~turbo.vsync => link.st = "ready" \/ link = Replaying

LEMMA SyncedStep == AskedInv /\ Heeded /\ Synced /\ [PlayNext]_plVars => Synced'
  <1> SUFFICES ASSUME AskedInv, Heeded, Synced, [PlayNext]_plVars PROVE Synced'
    OBVIOUS
  <1>0. PlayLike(play) /\ LinkLike(link) /\ TurboLike(turbo)
    BY DEF AskedInv, Shapes, Synced
  <1>1. ASSUME TurboLike(turbo'), turbo'.vsync = turbo.vsync, play'.on = play.on,
               (turn' = turn /\ link' = link) \/ turn' \notin Late
        PROVE  Synced'
    BY <1>1 DEF Synced
  <1>2. CASE KeyTurbo \/ FocusLost \/ PadTurbo
    <2>1. TurboLike(turbo') /\ turbo'.vsync = turbo.vsync
      BY <1>0, <1>2 DEF KeyTurbo, FocusLost, PadTurbo, TurboLike
    <2>2. UNCHANGED <<play, turn, link>>
      BY <1>2 DEF KeyTurbo, FocusLost, PadTurbo
    <2>3. QED
      BY <1>1, <2>1, <2>2
  <1>3. ASSUME UNCHANGED <<turbo, play>>, (turn' = turn /\ link' = link) \/ turn' \notin Late
        PROVE  Synced'
    BY <1>0, <1>1, <1>3
  <1>4. CASE EventsDone \/ Pump \/ Drawn
    BY <1>3, <1>4 DEF EventsDone, Pump, Drawn, Late
  <1>5. CASE StartPending
    <2>1. turn' \notin Late /\ turbo' = turbo /\ (play' = play \/ ~play.on)
      BY <1>5 DEF StartPending, Late
    <2>2. QED
      BY <2>1 DEF Synced
  <1>6. CASE NothingPlays
    BY <1>6 DEF NothingPlays, Synced
  <1>7. CASE Turbo
    <2>1. turbo' = [turbo EXCEPT !.on = TurboWanted, !.vsync = ~TurboWanted]
          /\ UNCHANGED <<play, link>>
      BY <1>7 DEF Turbo, SetTurbo
    <2>2. TurboLike(turbo') /\ (turbo'.vsync <=> ~TurboWanted)
      BY <1>0, <2>1 DEF TurboLike
    <2>3. TurboWanted => play.on /\ link.st = "ready"
      BY DEF TurboWanted, Ready
    <2>4. QED
      BY <2>1, <2>2, <2>3 DEF Synced
  <1>8. ASSUME UNCHANGED <<turbo, play>>, turn \in Late,
               link' = Replaying \/ (link'.st = link.st /\ (link = Replaying => link' = link))
        PROVE  Synced'
    BY <1>8 DEF Synced
  <1>9. CASE ServiceReplays
    <2>1. UNCHANGED <<turbo, play>> /\ turn \in Late /\ (Recording \/ Restart \/ NoReplay)
      BY <1>9 DEF ServiceReplays, Late
    <2>2. CASE Recording
      <3>1. link' = [link EXCEPT !.asked = reel.want] /\ link.st = "ready"
        BY <2>2 DEF Recording, CanGrant
      <3>2. link'.st = link.st /\ link # Replaying
        BY <1>0, <3>1, LinksStart DEF LinkLike
      <3>3. QED
        BY <1>8, <2>1, <3>2
    <2>3. CASE Restart \/ NoReplay
      <3>1. link' = Replaying \/ link' = link
        BY <2>3 DEF Restart, NoReplay
      <3>2. QED
        BY <1>8, <2>1, <3>1
    <2>4. QED
      BY <2>1, <2>2, <2>3
  <1>10. CASE ServiceStates
    <2>1. UNCHANGED <<turbo, play>> /\ turn \in Late /\ (SendState \/ StateResult \/ NoState)
      BY <1>10 DEF ServiceStates, Late
    <2>2. \/ link' = link
          \/ link' = [link EXCEPT !.state = rq.kind] /\ link.st = "ready"
          \/ link' = [link EXCEPT !.state = "none"] /\ link.state # "none"
      BY <2>1 DEF SendState, StateResult, NoState
    <2>3. link'.st = link.st /\ (link = Replaying => link' = link)
      BY <1>0, <2>2, LinksStart DEF LinkLike
    <2>4. QED
      BY <1>8, <2>1, <2>3
  <1>11. CASE Grant
    <2>1. UNCHANGED <<turbo, play>> /\ turn \in Late
      BY <1>11 DEF Grant, Late
    <2>2. link' = link \/ (link' = [link EXCEPT !.frame = TRUE] /\ link.st = "ready")
      BY <1>11 DEF Grant, Granted, CanGrant
    <2>3. link'.st = link.st /\ (link = Replaying => link' = link)
      BY <1>0, <2>2, LinksStart DEF LinkLike
    <2>4. QED
      BY <1>8, <2>1, <2>3
  <1>12. CASE AskLaunch \/ Look \/ Decide
    <2>1. UNCHANGED <<turbo, play, link>> /\ turn \in Late
      BY <1>12 DEF AskLaunch, Look, Decide, Late
    <2>2. QED
      BY <1>8, <2>1
  <1>13. CASE Shutdown
    <2>1. turbo' = [NoTurbo EXCEPT !.held = turbo.held] /\ turn' = "events"
      BY <1>13 DEF Shutdown
    <2>2. TurboLike(turbo') /\ turbo'.vsync
      BY <2>1 DEF NoTurbo, TurboLike
    <2>3. QED
      BY <2>1, <2>2 DEF Synced, Late
  <1>14. CASE Player
    <2>1. CASE KeyTurbo \/ FocusLost \/ PadTurbo
      BY <1>2, <2>1
    <2>2. CASE KeyMenu \/ KeyTab \/ KeyStates \/ KeyRecord \/ PadMenu
      <3>1. UNCHANGED <<turbo, play, turn, link>>
        BY <2>2 DEF KeyMenu, KeyTab, KeyStates, KeyRecord, PadMenu
      <3>2. QED
        BY <1>3, <3>1
    <2>3. CASE \E p \in {"resume", "states", "replays", "close"} : Rail(p)
      <3>1. turbo' = turbo /\ turn' = "events" /\ (play' = play \/ play' = [play EXCEPT !.quit = TRUE])
        BY <2>3 DEF Rail, InMenu
      <3>2. play'.on = play.on /\ turn' \notin Late
        BY <1>0, <3>1 DEF PlayLike, Late
      <3>3. QED
        BY <1>0, <1>1, <3>1, <3>2
    <2>4. CASE \/ SaveSlot \/ LoadSlot \/ DeleteSlot \/ Confirm \/ PlayMovie \/ DeleteMovie
               \/ RecordNew \/ Back \/ (\E s \in Slots : PickSlot(s))
               \/ \E i \in 1 .. MaxMovies : PickMovie(i)
      <3>1. UNCHANGED <<turbo, play>> /\ turn' = "events"
        BY <2>4
        DEF SaveSlot, LoadSlot, DeleteSlot, Confirm, PlayMovie, DeleteMovie, RecordNew, Back,
            PickSlot, PickMovie, OnPage, InMenu
      <3>2. QED
        BY <1>3, <3>1 DEF Late
    <2>5. QED
      BY <1>14, <2>1, <2>2, <2>3, <2>4 DEF Player
  <1>15. CASE Runner \/ Find \/ WorkerDone \/ UNCHANGED plVars
    <2>1. UNCHANGED <<turbo, play, turn, link>>
      BY <1>15
      DEF Runner, RunnerAnswers, RunnerUp, RunnerFrame, RunnerState, RunnerReplay, RunnerEnds,
          Find, WorkerDone, plVars
    <2>2. QED
      BY <1>3, <2>1
  <1>16. QED
    BY <1>4, <1>5, <1>6, <1>7, <1>9, <1>10, <1>11, <1>12, <1>13, <1>14, <1>15 DEF PlayNext, Loop

PlayInv ==
    AskedInv /\ turn \in Turns /\ menu.view \in AnySlot /\ RqTyped /\ Heeded /\ Deck /\ Synced

LEMMA PlayInvInit == PlayInit => PlayInv
  <1> SUFFICES ASSUME PlayInit PROVE PlayInv
    OBVIOUS
  <1>1. turn \in Turns /\ menu.view \in AnySlot
    BY StartsLike DEF PlayInit, Turns, AnySlot
  <1>2. RqTyped
    BY DEF PlayInit, RqTyped, NoRequest, AnySlot
  <1>3. Heeded
    <2>1. link = NoLink \/ link = Fresh
      BY DEF PlayInit
    <2>2. wire = {}
      BY DEF PlayInit
    <2>3. QED
      BY <2>1, <2>2, LinksStart DEF Heeded
  <1>4. Deck
    <2>1. IsFiniteSet({1})
      BY FS_Singleton
    <2>2. reel.files = {1} /\ reel.cards = <<>> /\ reel.view = 0 /\ reel.sealed = {1} /\ reel.previews = {}
      BY DEF PlayInit, NoReel
    <2>3. QED
      BY <2>1, <2>2 DEF Deck, Dealt
  <1>5. Synced
    BY DEF PlayInit, Synced, NoTurbo, TurboLike, Late
  <1>6. QED
    BY <1>1, <1>2, <1>3, <1>4, <1>5, AskedInit DEF PlayInv

LEMMA PlayInvStep == PlayInv /\ [PlayNext]_plVars => PlayInv'
  <1> SUFFICES ASSUME PlayInv, [PlayNext]_plVars PROVE PlayInv'
    OBVIOUS
  <1>1. AskedInv' /\ turn' \in Turns
    BY AskedStep, TurnStep DEF PlayInv
  <1>2. menu'.view \in AnySlot /\ RqTyped'
    BY ViewStep, RqStep DEF PlayInv
  <1>3. Heeded' /\ Deck' /\ Synced'
    BY HeededStep, DeckStep, SyncedStep DEF PlayInv
  <1>4. QED
    BY <1>1, <1>2, <1>3 DEF PlayInv, Turns, AnySlot

LEMMA PlayInvOK == PlayInv => PlayTypeOK
  BY DEF PlayInv, Turns, AnySlot, RqTyped, Heeded, Deck, Synced, Late, PlayTypeOK

(* However long a session lasts, whatever is pressed and however its       *)
(* runner ends: the runner works for the browser's own request, the card   *)
(* in view is there, every preview is of a sealed replay, and vsync is off *)
(* only while turbo runs (hub_play.cpp:442, 618, 693 and 745).             *)
THEOREM PlayTyped == PlaySpec => []PlayTypeOK
  BY PlayInvInit, PlayInvStep, PlayInvOK, PTL DEF PlaySpec
-----------------------------------------------------------------------------
(* The four together.                                                      *)

PlaysInv ==
    /\ PlayInv /\ ChoicesTyped /\ ModsInv /\ Allowed
    /\ CoreSettingsInv /\ Counted /\ shell \in BOOLEAN

LEMMA PlaysInitInv == PlaysInit => PlaysInv
  <1> SUFFICES ASSUME PlaysInit PROVE PlaysInv
    OBVIOUS
  <1>1. PlayInit /\ ChoicesInit /\ ModsInit /\ CoreSettingsInit
    BY DEF PlaysInit
  <1>2. Counted /\ shell \in BOOLEAN
    BY <1>1, ShownValues, CoreSettingsAssumption DEF CoreSettingsInit, Counted
  <1>3. QED
    BY <1>1, <1>2, PlayInvInit, ChoicesTypedInit, ModsInitInv, AllowedInit, CoreSettingsInitInv
    DEF PlaysInv

(* A step of one is a step, or none, of each.                              *)
LEMMA PlaysParts ==
  ASSUME [PlaysNext]_playVars
  PROVE  [PlayNext]_plVars /\ [ChoicesNext]_tcVars /\ [ModsNext]_moVars /\ [CoreSettingsNext]_csVars
  <1>1. CASE UNCHANGED playVars
    BY <1>1 DEF playVars
  <1>2. CASE PlaysNext
    BY <1>2 DEF PlaysNext
  <1>3. QED
    BY <1>1, <1>2

LEMMA PlaysStep == PlaysInv /\ [PlaysNext]_playVars => PlaysInv'
  <1> SUFFICES ASSUME PlaysInv, [PlaysNext]_playVars PROVE PlaysInv'
    OBVIOUS
  <1>1. PlayInv' /\ ChoicesTyped' /\ ModsInv' /\ Allowed'
    BY PlaysParts, PlayInvStep, ChoicesTypedStep, ModsStep, AllowedStep DEF PlaysInv
  <1>2. CoreSettingsInv' /\ Counted' /\ (shell \in BOOLEAN)'
    BY PlaysParts, CoreSettingsStep, CountedStep, ShellStays DEF PlaysInv
  <1>3. QED
    BY <1>1, <1>2 DEF PlaysInv

(* The game in the window, the launch, the mods and the settings keep      *)
(* their types, and what those say of one another (hub_play.cpp:442, 618   *)
(* and 745; mods.cpp:1088; hub_main.cpp:11273).                            *)
THEOREM PlaysTyped == PlaysSpec => []PlaysTypeOK
  <1>1. PlaysInv => PlaysTypeOK
    BY PlayInvOK, ChoicesTypedOK, ModsTypedOK, SettingsTypedOK
    DEF PlaysInv, PlaysTypeOK, SettingsTyped, CoreSettingsInv
  <1>2. QED
    BY <1>1, PlaysInitInv, PlaysStep, PTL DEF PlaysSpec
=============================================================================
