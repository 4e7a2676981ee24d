----------------------------- MODULE User_proofs -----------------------------
(***************************************************************************)
(* Proofs about what is the user's own: the saves of a title, for any      *)
(* number of games, jobs and syncs.                                        *)
(***************************************************************************)
EXTENDS SaveSync, TLAPS

(* The saves of a title.                                                   *)

Saves == {None} \cup [v : Int, t : Nat]
Folders == [Names -> Saves]
Slots == [is : {"none", "link", "hard", "file"}, to : Names \cup {NoName}, file : Saves]
Syncs == [at : {"idle", "saves"}, local : Folders, listed : Folders, todo : SUBSET Names]
SavesTyped ==
    /\ now \in Nat /\ plays \in Nat /\ last \in Nat
    /\ lib \in Folders /\ remote \in Folders /\ slot \in Slots
    /\ preserved \in Saves /\ sync \in Syncs
    /\ alias \in Names \cup {NoName} /\ pref \in Names \cup {NoName}
    /\ \A n \in Names : remote[n] # None => remote[n].t <= now

(* With links, a slot is empty, a link, or the file an update put back.     *)
Linked(s) ==
    /\ s.is \in {"none", "link", "file"}
    /\ s.is = "link" => s.to \in Names
    /\ s.is = "file" => s.file # None
LeadsTo(s, n) == s.is = "link" /\ s.to = n

(* The title's choice is a save, and the alias is in nobody's place.        *)
ChoiceStands(c, l, a) ==
    /\ c # NoName => l[c] # None
    /\ a # NoName => l[Slot] = None

(* A game that runs writes the chosen save, and nothing else is under way.  *)
Playing ==
    open # NoName =>
        /\ installed /\ sync.at = "idle" /\ pref # NoName
        /\ LeadsTo(slot, pref) /\ open \in {"install", pref}
(* A sync is of an installed title; nothing leaves RomM while it runs.      *)
SyncStands ==
    /\ ~installed => slot.is = "none"
    /\ sync.at = "saves" =>
           installed /\ \A n \in Names : sync.listed[n] # None => remote[n] # None

(* No upload of other content is later than the save.                       *)
Ahead(f, r) == r = None \/ r.v = f.v \/ r.t <= f.t
Newest(f) == Holds(f, last)
ChoiceIsNewest == pref # NoName /\ Newest(lib[pref])
(* What may yet be promoted over the chosen save holds the same.            *)
SlotFollows ==
    /\ slot.is = "file" => Newest(slot.file)
    /\ slot.is = "link" => \/ slot.to = pref
                           \/ sync.at = "idle" /\ ~Taken(lib, alias, slot.to)
    /\ LeadsTo(slot, Slot) => alias = NoName
    /\ preserved = None \/ Newest(preserved) \/ LeadsTo(slot, pref)
RemoteFollows ==
    /\ Ahead(lib[pref], remote[pref])
    /\ sync.at = "saves" => /\ sync.local[pref] = lib[pref]
                            /\ Ahead(lib[pref], sync.listed[pref])
Kept == last # 0 => ChoiceIsNewest /\ SlotFollows /\ RemoteFollows

QuietInv ==
    /\ SavesTyped /\ flat = None /\ Linked(slot) /\ ChoiceStands(pref, lib, alias)
    /\ SyncStands /\ Playing /\ Kept
SavesInv == noise \in Nat /\ (noise = 0 => QuietInv)
-----------------------------------------------------------------------------
LEMMA NamesAre ==
  /\ Names = {"rom", "title", "slot", "rom-2", "title-2", "rom-3", "title-3"}
  /\ NoName \notin Names
  BY DEF Names, Stems, Slot, Second, Third, NoName

LEMMA FileIs ==
  ASSUME NEW v \in Int, NEW t \in Nat
  PROVE  File(v, t) \in Saves /\ File(v, t) # None /\ File(v, t).v = v /\ File(v, t).t = t
  <1>1. File(v, t) \in [v : Int, t : Nat] /\ File(v, t).v = v /\ File(v, t).t = t
    BY DEF File
  <1>2. File(v, t) # None
    <2>1. DOMAIN File(v, t) = {"v", "t"}
      BY DEF File
    <2>2. DOMAIN None = {}
      BY DEF None
    <2>3. QED
      BY <2>1, <2>2
  <1>3. QED
    BY <1>1, <1>2 DEF Saves

LEMMA SaveIs ==
  ASSUME NEW f \in Saves, f # None
  PROVE  f.v \in Int /\ f.t \in Nat
  BY DEF Saves

(* A folder with one save more or less.                                     *)
LEMMA FolderWith ==
  ASSUME NEW l \in Folders, NEW n \in Names, NEW f \in Saves
  PROVE  /\ [l EXCEPT ![n] = f] \in Folders
         /\ [l EXCEPT ![n] = f][n] = f
         /\ \A k \in Names : k # n => [l EXCEPT ![n] = f][k] = l[k]
  BY DEF Folders

LEMMA NoSlotIs == NoSlot \in Slots /\ NoSlot.is = "none"
  BY DEF NoSlot, Slots, Saves

(* Where a save goes that is promoted under a stem: never to the slot's     *)
(* name, and over another save only under the stem.                         *)
LEMMA TargetIs ==
  ASSUME NEW l \in Folders, NEW n \in Stems, NEW src
  PROVE  /\ n \in Names /\ FreeName(l, n) \in Names /\ FreeName(l, n) # Slot /\ n # Slot
         /\ Target(l, n, src) \in {n, FreeName(l, n)}
  BY NamesAre DEF Target, FreeName, Stems, Slot, Second, Third

LEMMA FirstOf ==
  ASSUME NEW x, NEW y, NEW c \in {<<x, TRUE>>, <<y, FALSE>>}
  PROVE  c[1] \in {x, y}
  <1>1. CASE c = <<x, TRUE>>
    BY <1>1
  <1>2. CASE c = <<y, FALSE>>
    BY <1>2
  <1>3. QED
    BY <1>1, <1>2

LEMMA CopiedIs ==
  ASSUME NEW l \in Folders, NEW n \in Stems, NEW src \in Saves, src # None, now \in Nat,
         NEW c \in Copied(l, n, src)
  PROVE  /\ c[1] \in Folders /\ c[1][Slot] = l[Slot]
         /\ \A k \in Names : l[k] # None => c[1][k] # None
         /\ \A k \in Names : l[k] # None /\ l[k].v = src.v => c[1][k] = l[k]
  <1>1. CASE l[n] # None /\ l[n].v = src.v
    <2>1. c = <<l, TRUE>>
      BY <1>1 DEF Copied
    <2>2. QED
      BY <2>1
  <1>2. CASE ~ (l[n] # None /\ l[n].v = src.v)
    <2> DEFINE d == Target(l, n, src)
    <2>1. d \in {n, FreeName(l, n)} /\ d \in Names /\ d # Slot /\ Slot \in Names /\ n \in Names
      BY TargetIs, NamesAre DEF Slot
    <2>2. d = n \/ Room(l, n)
      BY <1>2 DEF Copied
    <2>3. l[d] = None \/ d = n
      BY <2>1, <2>2 DEF Room
    <2>4. PICK f \in Saves : f # None /\ c[1] = [l EXCEPT ![d] = f]
      <3>1. File(src.v, now) \in Saves /\ File(src.v, now) # None
        BY FileIs, SaveIs
      <3>2. File(Cut, now) \in Saves /\ File(Cut, now) # None
        BY FileIs DEF Cut
      <3>3. c \in {<<[l EXCEPT ![d] = File(src.v, now)], TRUE>>,
                   <<[l EXCEPT ![d] = File(Cut, now)], FALSE>>}
        BY <1>2, <2>2 DEF Copied
      <3>4. c[1] \in {[l EXCEPT ![d] = File(src.v, now)], [l EXCEPT ![d] = File(Cut, now)]}
        BY <3>3, FirstOf
      <3>5. QED
        BY <3>1, <3>2, <3>4
    <2> HIDE DEF d
    <2>5. QED
      BY <1>2, <2>1, <2>3, <2>4, FolderWith
  <1>3. QED
    BY <1>1, <1>2

(* A promotion takes nothing away from the library, writes over no save     *)
(* that holds what the slot holds, and drops a link that leads nowhere.     *)
LEMMA PromotedIs ==
  ASSUME NEW stem \in Stems, NEW s \in Slots, Linked(s), lib \in Folders, now \in Nat,
         flat = None, NEW p \in PromotedFrom(stem, s)
  PROVE  /\ p.lib \in Folders /\ p.lib[Slot] = lib[Slot] /\ p.flat = None
         /\ \A k \in Names : lib[k] # None => p.lib[k] # None
         /\ s.is # "file" => p.lib = lib
         /\ s.is = "file" => \A k \in Names : Holds(lib[k], s.file.v) => p.lib[k] = lib[k]
         /\ p.slot \in {s, NoSlot}
         /\ s.is = "link" => p.slot = IF Taken(lib, alias, s.to) THEN s ELSE NoSlot
  <1>1. Migrated(lib) = {<<lib, None>>}
    BY DEF Migrated
  <1>2. CASE s.is = "file"
    <2>1. PICK c \in Copied(lib, stem, s.file) :
            p = [lib |-> c[1], flat |-> None, slot |-> IF c[2] THEN NoSlot ELSE s]
      BY <1>1, <1>2 DEF PromotedFrom
    <2>2. s.file \in Saves /\ s.file # None
      BY <1>2 DEF Slots, Linked
    <2>3. /\ c[1] \in Folders /\ c[1][Slot] = lib[Slot]
          /\ \A k \in Names : lib[k] # None => c[1][k] # None
          /\ \A k \in Names : lib[k] # None /\ lib[k].v = s.file.v => c[1][k] = lib[k]
      BY <2>2, CopiedIs
    <2>4. p.lib = c[1] /\ p.flat = None /\ p.slot \in {s, NoSlot}
      BY <2>1
    <2>5. QED
      BY <1>2, <2>3, <2>4 DEF Holds
  <1>3. CASE s.is # "file"
    <2>1. s.is \notin {"hard", "file"}
      BY <1>3 DEF Linked
    <2>2. p = [lib |-> lib, flat |-> None,
               slot |-> IF s.is = "link" /\ ~Taken(lib, alias, s.to) THEN NoSlot ELSE s]
      BY <1>1, <2>1 DEF PromotedFrom
    <2>3. /\ p.lib = lib /\ p.flat = None
          /\ p.slot = IF s.is = "link" /\ ~Taken(lib, alias, s.to) THEN NoSlot ELSE s
      BY <2>2
    <2>4. QED
      BY <1>3, <2>3
  <1>4. QED
    BY <1>2, <1>3

(* A choice that is there is the one a launch takes; else it takes or makes *)
(* one and chooses it.                                                      *)
LEMMA EnsuredIs ==
  ASSUME NEW l \in Folders, NEW a \in Names \cup {NoName}, now \in Nat,
         pref \in Names \cup {NoName}, ChoiceStands(pref, l, a), NEW e \in Ensured(l, a)
  PROVE  /\ e[1] \in Names /\ e[3] = e[1] /\ e[2] \in Folders /\ e[2][e[1]] # None
         /\ pref # NoName => e[1] = pref /\ e[2] = l
         /\ e[2][Slot] = l[Slot]
         /\ \A k \in Names : l[k] # None => e[2][k] # None
  <1>1. CASE pref # NoName
    <2>1. Taken(l, a, pref)
      BY <1>1 DEF Taken, Reads, ChoiceStands
    <2>2. e = <<pref, l, pref>>
      BY <1>1, <2>1 DEF Ensured
    <2>3. e[1] = pref /\ e[2] = l /\ e[3] = pref
      BY <2>2
    <2>4. QED
      BY <1>1, <2>3 DEF ChoiceStands
  <1>2. CASE pref = NoName
    <2> DEFINE named == {n \in Names \ {Slot} : Managed(l, n)}
               named1 == IF Managed(l, "rom") THEN {"rom"} ELSE named
    <2>1. "rom" \in Names \ {Slot}
      BY NamesAre DEF Slot
    <2>2. CASE named # {}
      <3>1. PICK n \in named1 : e = <<n, l, n>>
        BY <1>2, <2>2 DEF Ensured
      <3>2. e[1] = n /\ e[2] = l /\ e[3] = n
        BY <3>1
      <3>3. n \in Names /\ l[n] # None
        BY <2>1 DEF Managed
      <3>4. QED
        BY <1>2, <3>2, <3>3
    <2>3. CASE named = {}
      <3>1. e = <<"rom", [l EXCEPT !["rom"] = File(0, now)], "rom">>
        BY <1>2, <2>3 DEF Ensured
      <3>2. e[1] = "rom" /\ e[2] = [l EXCEPT !["rom"] = File(0, now)] /\ e[3] = "rom"
        BY <3>1
      <3>3. File(0, now) \in Saves /\ File(0, now) # None
        BY FileIs
      <3>4. Slot \in Names
        BY NamesAre DEF Slot
      <3>5. QED
        BY <1>2, <2>1, <3>2, <3>3, <3>4, FolderWith
    <2>4. QED
      BY <2>2, <2>3
  <1>3. QED
    BY <1>1, <1>2

(* With links, what is bound is what the slot then leads to, and only the   *)
(* alias takes the place of a file.                                         *)
LEMMA BindIs ==
  ASSUME Bridges \subseteq {"link"}, NEW n \in Names, NEW l \in Folders,
         NEW a \in Names \cup {NoName}, NEW s \in Slots, Linked(s),
         a # NoName => l[Slot] = None, Bind(n, l, a, s)
  PROVE  /\ slot' \in Slots /\ LeadsTo(slot', n)
         /\ lib' \in Folders /\ lib'[n] = l[n]
         /\ \A k \in Names : k # Slot => lib'[k] = l[k]
         /\ alias' \in Names \cup {NoName} /\ (alias' # NoName => lib'[Slot] = None)
         /\ n = Slot => alias' = a
  <1>1. /\ slot' = Activated(s, n, l, a, "link")
        /\ lib' = Aliased(l, a, n, "link")[1] /\ alias' = Aliased(l, a, n, "link")[2]
    BY DEF Bind
  <1>2. slot' \in Slots /\ LeadsTo(slot', n)
    <2>1. CASE s.is \in {"link", "hard"} /\ s.to = n
      BY <1>1, <2>1 DEF Activated, LeadsTo, Linked
    <2>2. CASE ~ (s.is \in {"link", "hard"} /\ s.to = n)
      <3>1. slot' = [is |-> "link", to |-> n, file |-> None]
        BY <1>1, <2>2 DEF Activated, Bridged
      <3>2. QED
        BY <3>1 DEF Slots, Saves, LeadsTo
    <2>3. QED
      BY <2>1, <2>2
  <1>3. Slot \in Names /\ None \in Saves /\ Slot # NoName
    BY NamesAre DEF Slot, Saves
  <1>4. CASE n = Slot \/ a = n
    <2>1. lib' = l /\ alias' = a
      BY <1>1, <1>4 DEF Aliased
    <2>2. QED
      BY <1>2, <2>1
  <1>5. CASE ~ (n = Slot \/ a = n)
    <2>1. lib' = [l EXCEPT ![Slot] = None] /\ alias' = n
      BY <1>1, <1>5 DEF Aliased
    <2>2. /\ lib' \in Folders /\ lib'[Slot] = None
          /\ \A k \in Names : k # Slot => lib'[k] = l[k]
      <3> DEFINE with == [l EXCEPT ![Slot] = None]
      <3>1. with \in Folders /\ with[Slot] = None /\ \A k \in Names : k # Slot => with[k] = l[k]
        BY <1>3, FolderWith
      <3> HIDE DEF with
      <3>2. lib' = with
        BY <2>1 DEF with
      <3>3. QED
        BY <3>1, <3>2
    <2>3. n # Slot /\ lib'[n] = l[n]
      BY <1>5, <2>2
    <2>4. alias' \in Names \cup {NoName}
      BY <2>1
    <2>5. alias' # NoName => lib'[Slot] = None
      BY <2>2
    <2>6. n = Slot => alias' = a
      BY <2>3
    <2>7. QED
      BY <1>2, <2>2, <2>3, <2>4, <2>5, <2>6
  <1>6. QED
    BY <1>4, <1>5
-----------------------------------------------------------------------------
LEMMA SavesInit == SaveSyncInit => SavesInv
  <1> SUFFICES ASSUME SaveSyncInit PROVE SavesInv
    OBVIOUS
  <1>1. None \in Saves /\ NoName \in Names \cup {NoName}
    BY DEF Saves
  <1>2. [n \in Names |-> None] \in Folders
    BY <1>1 DEF Folders
  <1>3. NoSync \in Syncs /\ NoSync.at = "idle"
    BY <1>2 DEF NoSync, Syncs
  <1>4. NoSlot \in Slots /\ NoSlot.is = "none"
    BY NoSlotIs
  <1>5. SavesTyped
    BY <1>1, <1>2, <1>3, <1>4 DEF SaveSyncInit, SavesTyped
  <1>6. Linked(slot)
    BY <1>4 DEF SaveSyncInit, Linked
  <1>7. QuietInv
    BY <1>3, <1>5, <1>6
       DEF SaveSyncInit, QuietInv, ChoiceStands, SyncStands, Playing, Kept
  <1>8. QED
    BY <1>7 DEF SaveSyncInit, SavesInv

(* What is not the saves may change: the clock goes on, a game ends.        *)
LEMMA ElsewhereStep ==
  ASSUME QuietInv, now' \in Nat, now' >= now, open' \in {open, NoName},
         UNCHANGED <<lib, alias, slot, preserved, flat, remote, pref, installed, sync, plays, last>>
  PROVE  QuietInv'
  <1>1. SavesTyped'
    BY DEF QuietInv, SavesTyped, Folders, Saves
  <1>2. Playing'
    BY DEF QuietInv, Playing
  <1>3. Kept'
    BY DEF QuietInv, Kept, ChoiceIsNewest, Newest, SlotFollows, RemoteFollows, Taken, Reads
  <1>4. QED
    BY <1>1, <1>2, <1>3 DEF QuietInv, Linked, ChoiceStands, SyncStands

LEMMA RefreshStep == QuietInv /\ RefreshRows => QuietInv'
  <1> SUFFICES ASSUME QuietInv, RefreshRows PROVE QuietInv'
    OBVIOUS
  <1>1. PICK n \in Names : lib[n] # None /\ pref' = n
    BY DEF RefreshRows, Managed
  <1>2. pref = NoName /\ last = 0 /\ open = NoName
    BY DEF RefreshRows, QuietInv, Kept, ChoiceIsNewest, Playing
  <1>3. SavesTyped'
    BY <1>1 DEF RefreshRows, QuietInv, SavesTyped
  <1>4. QED
    BY <1>1, <1>2, <1>3
       DEF RefreshRows, QuietInv, Linked, ChoiceStands, SyncStands, Playing, Kept

(* What a promotion leaves of a quiet history.                              *)
LEMMA PromotedKeeps ==
  ASSUME QuietInv, NEW stem \in Stems, NEW s \in Slots, Linked(s),
         NEW p \in PromotedFrom(stem, s),
         last # 0 /\ s.is = "file" => Newest(s.file)
  PROVE  /\ p.lib \in Folders /\ p.flat = None /\ ChoiceStands(pref, p.lib, alias)
         /\ last # 0 => p.lib[pref] = lib[pref]
         /\ p.slot \in Slots /\ Linked(p.slot) /\ p.slot \in {s, NoSlot}
         /\ \A n \in Names : LeadsTo(s, n) => p.lib = lib
         /\ pref # NoName /\ LeadsTo(s, pref) => p.slot = s
         /\ p.slot.is = "link" => Taken(lib, alias, p.slot.to)
  <1>1. lib \in Folders /\ now \in Nat /\ flat = None /\ ChoiceStands(pref, lib, alias)
        /\ pref \in Names \cup {NoName}
    BY DEF QuietInv, SavesTyped
  <1>2. /\ p.lib \in Folders /\ p.lib[Slot] = lib[Slot] /\ p.flat = None
        /\ \A k \in Names : lib[k] # None => p.lib[k] # None
        /\ s.is # "file" => p.lib = lib
        /\ s.is = "file" => \A k \in Names : Holds(lib[k], s.file.v) => p.lib[k] = lib[k]
        /\ p.slot \in {s, NoSlot}
        /\ s.is = "link" => p.slot = IF Taken(lib, alias, s.to) THEN s ELSE NoSlot
    BY <1>1, PromotedIs
  <1>3. ChoiceStands(pref, p.lib, alias)
    BY <1>1, <1>2 DEF ChoiceStands
  <1>4. ASSUME last # 0 PROVE p.lib[pref] = lib[pref]
    <2>1. pref \in Names /\ Holds(lib[pref], last)
      BY <1>1, <1>4 DEF QuietInv, Kept, ChoiceIsNewest, Newest
    <2>2. CASE s.is = "file"
      <3>1. s.file.v = last
        BY <1>4, <2>2 DEF Newest, Holds
      <3>2. QED
        BY <1>2, <2>1, <2>2, <3>1
    <2>3. QED
      BY <1>2, <2>2
  <1>5. p.slot \in Slots /\ Linked(p.slot)
    BY <1>2, NoSlotIs DEF Linked
  <1>6. pref # NoName /\ LeadsTo(s, pref) => p.slot = s
    BY <1>1, <1>2 DEF LeadsTo, ChoiceStands, Taken, Reads
  <1>7. p.slot.is = "link" => Taken(lib, alias, p.slot.to)
    BY <1>2, NoSlotIs
  <1>8. \A n \in Names : LeadsTo(s, n) => p.lib = lib
    BY <1>2 DEF LeadsTo
  <1>9. QED
    BY <1>2, <1>3, <1>4, <1>5, <1>6, <1>7, <1>8

LEMMA ScanStep == QuietInv /\ ScanSaves => QuietInv'
  <1> SUFFICES ASSUME QuietInv, ScanSaves PROVE QuietInv'
    OBVIOUS
  <1>1. PICK p \in PromotedFrom("rom", slot) : lib' = p.lib /\ slot' = p.slot /\ flat' = p.flat
    BY DEF ScanSaves, Promoted
  <1>2. sync.at = "idle" /\ UNCHANGED <<now, alias, preserved, remote, pref, installed, open,
                                        sync, plays, last>>
    BY DEF ScanSaves
  <1>3. slot \in Slots /\ Linked(slot) /\ "rom" \in Stems
        /\ (last # 0 /\ slot.is = "file" => Newest(slot.file))
    BY DEF QuietInv, SavesTyped, Kept, SlotFollows, Stems
  <1>4. /\ lib' \in Folders /\ flat' = None /\ ChoiceStands(pref, lib', alias)
        /\ last # 0 => lib'[pref] = lib[pref]
        /\ slot' \in Slots /\ Linked(slot') /\ slot' \in {slot, NoSlot}
        /\ pref # NoName /\ LeadsTo(slot, pref) => slot' = slot
        /\ slot'.is = "link" => Taken(lib, alias, slot'.to)
    BY <1>1, <1>3, PromotedKeeps
  <1>5. SavesTyped'
    BY <1>2, <1>4 DEF QuietInv, SavesTyped
  <1>6. NoSlot.is = "none"
    BY NoSlotIs
  <1>7. SyncStands' /\ Playing'
    BY <1>2, <1>4, <1>6 DEF QuietInv, SyncStands, Playing, LeadsTo
  <1>8. ASSUME last' # 0 PROVE ChoiceIsNewest' /\ SlotFollows' /\ RemoteFollows'
    <2>1. last # 0 /\ ChoiceIsNewest /\ SlotFollows /\ RemoteFollows
      BY <1>2, <1>8 DEF QuietInv, Kept
    <2>2. ChoiceIsNewest' /\ RemoteFollows'
      BY <1>2, <1>4, <2>1 DEF ChoiceIsNewest, RemoteFollows, Newest
    <2>3. slot'.is = "file" => Newest(slot'.file)
      BY <1>4, <1>6, <2>1 DEF SlotFollows
    <2>4. slot'.is = "link" => slot'.to = pref
      BY <1>4, <1>6, <2>1 DEF SlotFollows
    <2>5. LeadsTo(slot', Slot) => alias = NoName
      BY <1>4, <1>6, <2>1 DEF SlotFollows, LeadsTo
    <2>6. preserved = None \/ Newest(preserved) \/ LeadsTo(slot', pref)
      BY <1>4, <2>1 DEF SlotFollows, ChoiceIsNewest
    <2>7. QED
      BY <1>2, <2>2, <2>3, <2>4, <2>5, <2>6 DEF SlotFollows, Newest
  <1>9. QED
    BY <1>2, <1>4, <1>5, <1>7, <1>8 DEF QuietInv, ChoiceStands, Kept

(* A launch or the end of a sync: the slot leads to the choice.             *)
LEMMA BoundIs ==
  ASSUME QuietInv, Bridges \subseteq {"link"}, NEW n \in Names, NEW l \in Folders,
         NEW s \in Slots, Linked(s), Bind(n, l, alias, s), pref' \in {pref, n},
         alias # NoName => l[Slot] = None,
         pref' # NoName => l[pref'] # None /\ n = pref',
         last # 0 => l[pref] = lib[pref],
         last # 0 => pref' = pref,
         sync'.at = "idle", sync' \in Syncs,
         UNCHANGED <<now, preserved, remote, plays, last>>
  PROVE  /\ SavesTyped' /\ Linked(slot') /\ ChoiceStands(pref', lib', alias') /\ Kept'
         /\ LeadsTo(slot', n)
  <1>1. /\ slot' \in Slots /\ LeadsTo(slot', n)
        /\ lib' \in Folders /\ lib'[n] = l[n]
        /\ \A k \in Names : k # Slot => lib'[k] = l[k]
        /\ alias' \in Names \cup {NoName} /\ (alias' # NoName => lib'[Slot] = None)
        /\ n = Slot => alias' = alias
    BY BindIs DEF QuietInv, SavesTyped
  <1>2. SavesTyped'
    BY <1>1 DEF QuietInv, SavesTyped
  <1>3. Linked(slot') /\ ChoiceStands(pref', lib', alias')
    BY <1>1 DEF Linked, LeadsTo, ChoiceStands
  <1>4. ASSUME last' # 0 PROVE ChoiceIsNewest' /\ SlotFollows' /\ RemoteFollows'
    <2>1. last # 0 /\ ChoiceIsNewest /\ RemoteFollows
      BY <1>4 DEF QuietInv, Kept
    <2>2. pref' = pref /\ n = pref /\ lib'[pref] = lib[pref] /\ lib[pref] # None
      BY <1>1, <2>1 DEF ChoiceIsNewest, Newest, Holds
    <2>3. ChoiceIsNewest'
      BY <2>1, <2>2 DEF ChoiceIsNewest, Newest
    <2>4. RemoteFollows'
      BY <2>1, <2>2 DEF RemoteFollows
    <2>5. LeadsTo(slot', pref') /\ (slot'.to = Slot => alias' = NoName)
      BY <1>1, <2>2 DEF LeadsTo
    <2>6. SlotFollows'
      BY <2>5 DEF SlotFollows, LeadsTo
    <2>7. QED
      BY <2>3, <2>4, <2>6
  <1>5. QED
    BY <1>1, <1>2, <1>3, <1>4 DEF Kept

LEMMA LaunchStep ==
  ASSUME QuietInv, Bridges \subseteq {"link"}, Launch, noise \in Nat, noise' = noise
  PROVE  QuietInv'
  <1>1. PICK p \in PromotedFrom("rom", slot) : \E e \in Ensured(p.lib, alias) :
          /\ pref' = e[3] /\ flat' = p.flat /\ Bind(e[1], e[2], alias, p.slot)
          /\ open' \in {"install", e[1]}
    BY DEF Launch, Promoted
  <1>2. PICK e \in Ensured(p.lib, alias) :
          /\ pref' = e[3] /\ flat' = p.flat /\ Bind(e[1], e[2], alias, p.slot)
          /\ open' \in {"install", e[1]}
    BY <1>1
  <1>3. installed /\ UNCHANGED <<now, preserved, remote, installed, sync, plays, last>>
    BY DEF Launch
  <1>4. sync.at = "idle"
    BY DEF Launch, Apart, Noisy
  <1>5. slot \in Slots /\ Linked(slot) /\ "rom" \in Stems
        /\ (last # 0 /\ slot.is = "file" => Newest(slot.file))
    BY DEF QuietInv, SavesTyped, Kept, SlotFollows, Stems
  <1>6. /\ p.lib \in Folders /\ p.flat = None /\ ChoiceStands(pref, p.lib, alias)
        /\ last # 0 => p.lib[pref] = lib[pref]
        /\ p.slot \in Slots /\ Linked(p.slot)
    BY <1>5, PromotedKeeps
  <1>7. /\ e[1] \in Names /\ e[3] = e[1] /\ e[2] \in Folders /\ e[2][e[1]] # None
        /\ pref # NoName => e[1] = pref /\ e[2] = p.lib
        /\ e[2][Slot] = p.lib[Slot]
    BY <1>6, EnsuredIs DEF QuietInv, SavesTyped
  <1>8. alias # NoName => e[2][Slot] = None
    BY <1>6, <1>7 DEF ChoiceStands
  <1>9. last # 0 => pref # NoName
    BY DEF QuietInv, Kept, ChoiceIsNewest
  <1>10. /\ SavesTyped' /\ Linked(slot') /\ ChoiceStands(pref', lib', alias') /\ Kept'
         /\ LeadsTo(slot', e[1])
    <2>1. sync'.at = "idle" /\ sync' \in Syncs
      BY <1>3, <1>4 DEF QuietInv, SavesTyped
    <2>2. pref' \in {pref, e[1]} /\ (pref' # NoName => e[2][pref'] # None /\ e[1] = pref')
      BY <1>2, <1>7
    <2>3. (last # 0 => e[2][pref] = lib[pref]) /\ (last # 0 => pref' = pref)
      BY <1>2, <1>6, <1>7, <1>9
    <2>4. QED
      BY <1>2, <1>3, <1>6, <1>7, <1>8, <2>1, <2>2, <2>3, BoundIs
  <1>11. SyncStands' /\ Playing'
    BY <1>2, <1>3, <1>4, <1>7, <1>10, NamesAre DEF SyncStands, Playing
  <1>12. QED
    BY <1>2, <1>6, <1>10, <1>11 DEF QuietInv, ChoiceStands, Linked

LEMMA GameSavesStep ==
  ASSUME QuietInv, GameSaves, noise \in Nat, noise' = noise
  PROVE  QuietInv'
  <1>1. /\ open # NoName /\ now' = now + 1 /\ plays' = plays + 1 /\ last' = plays'
        /\ UNCHANGED <<alias, preserved, flat, remote, pref, installed, open, sync>>
    BY DEF GameSaves
  <1>2. /\ installed /\ sync.at = "idle" /\ pref # NoName /\ pref \in Names
        /\ slot.is = "link" /\ slot.to = pref /\ open \in {"install", pref}
        /\ lib \in Folders /\ now \in Nat /\ plays \in Nat
        /\ pref = Slot => alias = NoName
    BY <1>1 DEF QuietInv, SavesTyped, Playing, LeadsTo, ChoiceStands
  <1>3. PICK f \in Saves : f = File(plays', now') /\ f # None /\ f.v = plays' /\ f.t = now'
    BY <1>1, <1>2, FileIs
  <1>4. lib' = [lib EXCEPT ![pref] = f] /\ slot' = slot
    <2> DEFINE k == CASE open = "install" -> slot.to
                      [] open = Slot /\ alias # NoName -> alias
                      [] OTHER -> open
               with == [lib EXCEPT ![k] = f]
               filed == [slot EXCEPT !.file = f]
               written == [slot EXCEPT !.is = "file", !.file = f]
    <2>1. /\ lib' = IF open # "install" \/ slot.is \in {"link", "hard"} THEN with ELSE lib
          /\ slot' = IF slot.is = "hard" /\ slot.to = k THEN filed
                     ELSE IF open = "install" /\ slot.is \in {"none", "file"} THEN written
                     ELSE slot
      BY <1>3, Zenon DEF GameSaves
    <2>2. k = pref
      <3>1. pref # "install"
        BY <1>2, NamesAre
      <3>2. CASE open = "install"
        <4>1. ~ (open = Slot /\ alias # NoName)
          BY <3>2 DEF Slot
        <4>2. QED
          BY <1>2, <3>2, <4>1
      <3>3. CASE open = pref
        <4>1. ~ (open = Slot /\ alias # NoName) /\ open # "install"
          BY <1>2, <3>1, <3>3
        <4>2. QED
          BY <3>3, <4>1
      <3>4. QED
        BY <1>2, <3>2, <3>3
    <2> HIDE DEF filed, written, k
    <2>3. slot' = slot
      BY <1>2, <2>1
    <2>4. lib' = with
      BY <1>2, <2>1
    <2>5. QED
      BY <2>2, <2>3, <2>4
  <1>5. lib' \in Folders /\ lib'[pref] = f /\ \A k \in Names : k # pref => lib'[k] = lib[k]
    BY <1>2, <1>4 DEF Folders
  <1>6. SavesTyped'
    <2>1. \A n \in Names : remote[n] # None => remote[n].t \in Nat /\ remote[n].t <= now
      BY SaveIs DEF QuietInv, SavesTyped, Folders
    <2>2. now' \in Nat /\ plays' \in Nat /\ last' \in Nat
      BY <1>1, <1>2
    <2>3. \A n \in Names : remote'[n] # None => remote'[n].t <= now'
      BY <1>1, <1>2, <2>1
    <2>4. QED
      BY <1>1, <1>4, <1>5, <2>2, <2>3 DEF QuietInv, SavesTyped
  <1>7. ChoiceStands(pref', lib', alias')
    BY <1>1, <1>2, <1>3, <1>5, NamesAre DEF QuietInv, ChoiceStands, Slot
  <1>8. SyncStands' /\ Playing'
    BY <1>1, <1>2, <1>4 DEF QuietInv, SyncStands, Playing
  <1>9. ChoiceIsNewest' /\ SlotFollows'
    BY <1>1, <1>2, <1>3, <1>4, <1>5
       DEF ChoiceIsNewest, SlotFollows, Newest, Holds, LeadsTo
  <1>10. RemoteFollows'
    <2>1. remote[pref] # None => remote[pref].t \in Nat /\ remote[pref].t <= now
      BY <1>2, SaveIs DEF QuietInv, SavesTyped, Folders
    <2>2. Ahead(f, remote[pref])
      BY <1>1, <1>2, <1>3, <2>1 DEF Ahead
    <2>3. QED
      BY <1>1, <1>2, <1>5, <2>2 DEF RemoteFollows
  <1>11. QED
    BY <1>1, <1>4, <1>6, <1>7, <1>8, <1>9, <1>10 DEF QuietInv, Linked, Kept

LEMMA DeleteStep ==
  ASSUME QuietInv, NEW n \in Names, DeleteSave(n), noise \in Nat, noise' = noise
  PROVE  QuietInv'
  <1>1. /\ open = NoName /\ lib[n] # None /\ lib' = [lib EXCEPT ![n] = None]
        /\ pref' = IF pref = n THEN NoName ELSE pref
        /\ last' = IF Given(lib[n]) THEN 0 ELSE last
        /\ UNCHANGED <<now, alias, preserved, flat, remote, installed, open, sync, plays>>
    BY DEF DeleteSave, Managed
  <1>2. sync.at = "idle"
    BY DEF DeleteSave, Apart, Noisy
  <1>3. slot' = slot
    BY DEF DeleteSave, Unlinked, QuietInv, Linked
  <1>4. lib \in Folders /\ None \in Saves /\ slot \in Slots
    BY DEF QuietInv, SavesTyped, Saves
  <1>5. lib' \in Folders /\ lib'[n] = None /\ \A k \in Names : k # n => lib'[k] = lib[k]
    BY <1>1, <1>4 DEF Folders
  <1>6. SavesTyped'
    BY <1>1, <1>3, <1>5 DEF QuietInv, SavesTyped
  <1>7. ChoiceStands(pref', lib', alias')
    BY <1>1, <1>5, NamesAre DEF QuietInv, SavesTyped, ChoiceStands, Slot
  <1>8. ASSUME last' # 0 PROVE ChoiceIsNewest' /\ SlotFollows' /\ RemoteFollows'
    <2>1. last' = last /\ last # 0 /\ ~ Given(lib[n])
      BY <1>1, <1>8
    <2>2. ChoiceIsNewest /\ SlotFollows /\ RemoteFollows
      BY <2>1 DEF QuietInv, Kept
    <2>3. pref # n /\ pref' = pref /\ pref \in Names /\ lib'[pref] = lib[pref]
      BY <1>1, <1>5, <2>1, <2>2
         DEF ChoiceIsNewest, Newest, Holds, Given, QuietInv, SavesTyped
    <2>4. ChoiceIsNewest' /\ RemoteFollows'
      BY <1>1, <2>1, <2>2, <2>3 DEF ChoiceIsNewest, RemoteFollows, Newest
    <2>5. \A k \in Names : Taken(lib', alias, k) => Taken(lib, alias, k)
      BY <1>5, NamesAre DEF Taken, Reads, Slot, QuietInv, SavesTyped
    <2>6. slot.is = "link" => slot.to \in Names
      BY DEF QuietInv, Linked
    <2>7. slot'.is = "link" =>
            \/ slot'.to = pref'
            \/ sync'.at = "idle" /\ ~Taken(lib', alias', slot'.to)
      BY <1>1, <1>2, <1>3, <2>2, <2>3, <2>5, <2>6 DEF SlotFollows
    <2>8. SlotFollows'
      BY <1>1, <1>3, <2>1, <2>2, <2>3, <2>7 DEF SlotFollows, Newest
    <2>9. QED
      BY <2>4, <2>8
  <1>9. QED
    BY <1>1, <1>2, <1>3, <1>6, <1>7, <1>8
       DEF QuietInv, Linked, SyncStands, Playing, Kept

LEMMA RenameStep ==
  ASSUME QuietInv, NEW n \in Names, NEW m \in Names, RenameSave(n, m),
         noise \in Nat, noise' = noise
  PROVE  QuietInv'
  <1>1. /\ open = NoName /\ lib[n] # None /\ ~Taken(lib, alias, m)
        /\ lib' = [lib EXCEPT ![n] = None, ![m] = lib[n]]
        /\ pref' = IF pref = n THEN m ELSE pref
        /\ UNCHANGED <<now, alias, preserved, flat, remote, installed, open, sync, plays, last>>
    BY DEF RenameSave, Managed
  <1>2. m # Slot /\ ~ LeftBehind(m) /\ sync.at = "idle"
    BY DEF RenameSave, Apart, Noisy
  <1>3. slot' = slot
    BY DEF RenameSave, Unlinked, QuietInv, Linked
  <1>4. lib \in Folders /\ slot \in Slots /\ m # n /\ lib[m] = None
    BY <1>1, <1>2 DEF QuietInv, SavesTyped, Taken, Reads
  <1>5. /\ lib' \in Folders /\ lib'[m] = lib[n] /\ lib'[n] = None
        /\ \A k \in Names : k \notin {n, m} => lib'[k] = lib[k]
    <2>1. None \in Saves /\ lib[n] \in Saves
      BY <1>4 DEF Folders, Saves
    <2>2. QED
      BY <1>1, <1>4, <2>1 DEF Folders
  <1>6. SavesTyped'
    BY <1>1, <1>3, <1>5 DEF QuietInv, SavesTyped
  <1>7. ChoiceStands(pref', lib', alias')
    BY <1>1, <1>2, <1>4, <1>5, NamesAre DEF QuietInv, SavesTyped, ChoiceStands, Slot
  <1>8. ASSUME last' # 0 PROVE ChoiceIsNewest' /\ SlotFollows' /\ RemoteFollows'
    <2>1. ChoiceIsNewest /\ SlotFollows /\ RemoteFollows /\ pref \in Names
      BY <1>1, <1>8 DEF QuietInv, Kept, ChoiceIsNewest, SavesTyped
    <2>2. lib'[pref'] = lib[pref] /\ pref' # NoName
      BY <1>1, <1>4, <1>5, <2>1, NamesAre DEF ChoiceIsNewest, Newest, Holds
    <2>3. ChoiceIsNewest'
      BY <1>1, <2>1, <2>2 DEF ChoiceIsNewest, Newest
    <2>4. RemoteFollows'
      BY <1>1, <1>2, <2>1, <2>2 DEF RemoteFollows, LeftBehind, Ahead
    <2>5. slot'.is = "link" =>
            \/ slot'.to = pref'
            \/ sync'.at = "idle" /\ ~Taken(lib', alias', slot'.to)
      <3> SUFFICES ASSUME slot.is = "link", slot.to # pref'
                   PROVE  ~Taken(lib', alias, slot.to)
        BY <1>1, <1>2, <1>3
      <3>1. slot.to # m
        BY <1>2 DEF LeftBehind
      <3>2. slot.to = Slot => alias = NoName
        BY <2>1 DEF SlotFollows, LeadsTo
      <3>3. Taken(lib', alias, slot.to) <=> lib'[slot.to] # None
        BY <3>2 DEF Taken, Reads
      <3>4. Taken(lib, alias, slot.to) <=> lib[slot.to] # None
        BY <3>2 DEF Taken, Reads
      <3>5. CASE slot.to = n
        BY <1>5, <3>3, <3>5
      <3>6. CASE slot.to # n
        <4>1. slot.to # pref
          BY <1>1, <3>6
        <4>2. lib[slot.to] = None
          BY <2>1, <3>4, <4>1 DEF SlotFollows
        <4>3. lib'[slot.to] = lib[slot.to]
          <5>1. slot.to \in Names
            BY DEF QuietInv, Linked
          <5>2. QED
            BY <1>5, <3>1, <3>6, <5>1
        <4>4. QED
          BY <3>3, <4>2, <4>3
      <3>7. QED
        BY <3>5, <3>6
    <2>6. SlotFollows'
      <3>1. preserved' = None
        BY <1>1, <1>2 DEF LeftBehind
      <3>2. QED
        BY <1>1, <1>3, <2>1, <2>5, <3>1 DEF SlotFollows, Newest, LeadsTo
    <2>7. QED
      BY <2>3, <2>4, <2>6
  <1>9. QED
    BY <1>1, <1>2, <1>3, <1>6, <1>7, <1>8
       DEF QuietInv, Linked, SyncStands, Playing, Kept

(* What is put aside, and put back: what the chosen save holds.             *)
LEMMA StashedIs ==
  ASSUME QuietInv
  PROVE  /\ Stashed \in Saves /\ SlotReads \in Saves
         /\ last # 0 => (SlotReads # None => Newest(Stashed) /\ Stashed # None)
         /\ last # 0 => (SlotReads = None => preserved = None \/ Newest(preserved))
         /\ last # 0 => Stashed = None \/ Newest(Stashed)
         /\ SlotReads = None => Stashed = preserved
  <1>1. /\ slot \in Slots /\ lib \in Folders /\ preserved \in Saves /\ now \in Nat
        /\ alias \in Names \cup {NoName} /\ Linked(slot)
    BY DEF QuietInv, SavesTyped
  <1>2. SlotReads \in Saves
    <2>1. CASE slot.is = "none"
      BY <2>1 DEF SlotReads, Saves
    <2>2. CASE slot.is = "link"
      <3>1. slot.to \in Names
        BY <1>1, <2>2 DEF Linked
      <3>2. Reads(lib, alias, slot.to) \in Saves
        BY <1>1, <3>1 DEF Reads, Folders, ChoiceStands, QuietInv
      <3>3. QED
        BY <2>2, <3>2 DEF SlotReads
    <2>3. CASE slot.is = "file"
      BY <1>1, <2>3 DEF SlotReads, Slots
    <2>4. QED
      BY <1>1, <2>1, <2>2, <2>3 DEF Linked
  <1>3. ASSUME SlotReads # None
        PROVE  /\ Stashed = File(SlotReads.v, now) /\ Stashed \in Saves
               /\ Stashed # None /\ Stashed.v = SlotReads.v
    <2>1. Stashed = File(SlotReads.v, now)
      BY <1>3 DEF Stashed
    <2>2. QED
      BY <1>1, <1>2, <1>3, <2>1, SaveIs, FileIs
  <1>4. SlotReads = None => Stashed = preserved
    BY DEF Stashed
  <1>5. ASSUME last # 0, SlotReads # None PROVE SlotReads.v = last
    <2>1. ChoiceIsNewest /\ SlotFollows
      BY <1>5 DEF QuietInv, Kept
    <2>2. CASE slot.is = "file"
      BY <2>1, <2>2 DEF SlotReads, SlotFollows, Newest, Holds
    <2>3. CASE slot.is = "link"
      <3>1. SlotReads = Reads(lib, alias, slot.to)
        BY <2>3 DEF SlotReads
      <3>2. slot.to = pref
        BY <1>5, <2>1, <2>3, <3>1 DEF SlotFollows, Taken
      <3>3. Reads(lib, alias, slot.to) = lib[pref]
        BY <2>1, <2>3, <3>2 DEF Reads, SlotFollows, LeadsTo
      <3>4. QED
        BY <2>1, <3>1, <3>3 DEF ChoiceIsNewest, Newest, Holds
    <2>4. CASE slot.is = "none"
      BY <1>5, <2>4 DEF SlotReads
    <2>5. QED
      BY <1>1, <2>2, <2>3, <2>4 DEF Linked
  <1>6. ASSUME last # 0, SlotReads = None PROVE preserved = None \/ Newest(preserved)
    <2>1. ChoiceIsNewest /\ SlotFollows
      BY <1>6 DEF QuietInv, Kept
    <2>2. ~ LeadsTo(slot, pref)
      <3> SUFFICES ASSUME LeadsTo(slot, pref) PROVE FALSE
        OBVIOUS
      <3>1. slot.is = "link" /\ slot.to = pref
        BY DEF LeadsTo
      <3>2. SlotReads = Reads(lib, alias, pref)
        BY <3>1 DEF SlotReads
      <3>3. Reads(lib, alias, pref) = lib[pref]
        BY <2>1, <3>1 DEF Reads, SlotFollows, LeadsTo
      <3>4. QED
        BY <1>6, <2>1, <3>2, <3>3 DEF ChoiceIsNewest, Newest, Holds
    <2>3. QED
      BY <2>1, <2>2 DEF SlotFollows
  <1>7. QED
    BY <1>1, <1>2, <1>3, <1>4, <1>5, <1>6 DEF Newest, Holds

LEMMA RestoredIs ==
  ASSUME NEW p \in Saves, now \in Nat
  PROVE  /\ Restored(p) \in Slots /\ Linked(Restored(p)) /\ Restored(p).is \in {"none", "file"}
         /\ Restored(p).is = "file" => p # None /\ Holds(Restored(p).file, p.v)
  <1>1. CASE p = None
    BY <1>1, NoSlotIs DEF Restored, Linked
  <1>2. CASE p # None
    <2>1. PICK f \in Saves : f = File(p.v, now) /\ f # None /\ f.v = p.v
      BY <1>2, SaveIs, FileIs
    <2>2. Restored(p) = [is |-> "file", to |-> NoName, file |-> f]
      BY <1>2, <2>1 DEF Restored
    <2>3. QED
      BY <1>2, <2>1, <2>2 DEF Slots, Linked, Holds
  <1>3. QED
    BY <1>1, <1>2

LEMMA UpdateStep == QuietInv /\ Update => QuietInv'
  <1> SUFFICES ASSUME QuietInv, Update PROVE QuietInv'
    OBVIOUS
  <1>1. /\ open = NoName /\ sync.at = "idle" /\ installed
        /\ preserved' = Stashed /\ slot' = Restored(Stashed)
        /\ UNCHANGED <<now, lib, alias, flat, remote, pref, installed, open, sync, plays, last>>
    BY DEF Update
  <1>2. Stashed \in Saves /\ (last # 0 => Stashed = None \/ Newest(Stashed))
    BY StashedIs
  <1>3. /\ slot' \in Slots /\ Linked(slot') /\ slot'.is \in {"none", "file"}
        /\ slot'.is = "file" => Stashed # None /\ Holds(slot'.file, Stashed.v)
    BY <1>1, <1>2, RestoredIs DEF QuietInv, SavesTyped
  <1>4. SavesTyped'
    BY <1>1, <1>2, <1>3 DEF QuietInv, SavesTyped
  <1>5. ASSUME last' # 0 PROVE ChoiceIsNewest' /\ SlotFollows' /\ RemoteFollows'
    <2>1. last # 0 /\ ChoiceIsNewest /\ RemoteFollows
      BY <1>1, <1>5 DEF QuietInv, Kept
    <2>2. ChoiceIsNewest' /\ RemoteFollows'
      BY <1>1, <2>1 DEF ChoiceIsNewest, RemoteFollows, Newest
    <2>3. SlotFollows'
      BY <1>1, <1>2, <1>3, <2>1 DEF SlotFollows, LeadsTo, Newest, Holds
    <2>4. QED
      BY <2>2, <2>3
  <1>6. QED
    BY <1>1, <1>3, <1>4, <1>5
       DEF QuietInv, Kept, ChoiceStands, SyncStands, Playing

LEMMA UninstallStep == QuietInv /\ Uninstall => QuietInv'
  <1> SUFFICES ASSUME QuietInv, Uninstall PROVE QuietInv'
    OBVIOUS
  <1>1. /\ open = NoName /\ sync.at = "idle"
        /\ preserved' = (IF SlotReads = None THEN None ELSE Stashed)
        /\ slot' = NoSlot /\ installed' = FALSE
        /\ UNCHANGED <<now, lib, alias, flat, remote, pref, open, sync, plays, last>>
    BY DEF Uninstall
  <1>2. /\ preserved' \in Saves
        /\ last # 0 => preserved' = None \/ Newest(preserved')
    BY <1>1, StashedIs DEF Saves
  <1>3. slot' \in Slots /\ slot'.is = "none" /\ Linked(slot')
    BY <1>1, NoSlotIs DEF Linked
  <1>4. SavesTyped'
    BY <1>1, <1>2, <1>3 DEF QuietInv, SavesTyped
  <1>5. ASSUME last' # 0 PROVE ChoiceIsNewest' /\ SlotFollows' /\ RemoteFollows'
    <2>1. last # 0 /\ ChoiceIsNewest /\ RemoteFollows
      BY <1>1, <1>5 DEF QuietInv, Kept
    <2>2. ChoiceIsNewest' /\ RemoteFollows'
      BY <1>1, <2>1 DEF ChoiceIsNewest, RemoteFollows, Newest
    <2>3. SlotFollows'
      BY <1>1, <1>2, <1>3, <2>1 DEF SlotFollows, LeadsTo, Newest, Holds
    <2>4. QED
      BY <2>2, <2>3
  <1>6. QED
    BY <1>1, <1>3, <1>4, <1>5
       DEF QuietInv, Kept, ChoiceStands, SyncStands, Playing

LEMMA InstallStep == QuietInv /\ Install => QuietInv'
  <1> SUFFICES ASSUME QuietInv, Install PROVE QuietInv'
    OBVIOUS
  <1>1. PICK p \in PromotedFrom("rom", Restored(preserved)) : \E e \in Ensured(p.lib, alias) :
          lib' = e[2] /\ pref' = e[3] /\ slot' = p.slot /\ flat' = p.flat
    BY DEF Install
  <1>2. PICK e \in Ensured(p.lib, alias) :
          lib' = e[2] /\ pref' = e[3] /\ slot' = p.slot /\ flat' = p.flat
    BY <1>1
  <1>3. /\ ~ installed /\ installed' = TRUE /\ sync.at = "idle"
        /\ UNCHANGED <<now, alias, preserved, remote, open, sync, plays, last>>
    BY DEF Install
  <1>4. open = NoName /\ slot.is = "none"
    BY <1>3 DEF QuietInv, Playing, SyncStands
  <1>5. now \in Nat /\ preserved \in Saves /\ "rom" \in Stems
    BY DEF QuietInv, SavesTyped, Stems
  <1>6. last # 0 => preserved = None \/ Newest(preserved)
    BY <1>4 DEF QuietInv, Kept, SlotFollows, LeadsTo
  <1>7. PICK s \in Slots : /\ s = Restored(preserved) /\ Linked(s) /\ s.is \in {"none", "file"}
                           /\ s.is = "file" => preserved # None /\ Holds(s.file, preserved.v)
    BY <1>5, RestoredIs
  <1>8. last # 0 /\ s.is = "file" => Newest(s.file)
    BY <1>6, <1>7 DEF Newest, Holds
  <1>9. /\ p.lib \in Folders /\ p.flat = None /\ ChoiceStands(pref, p.lib, alias)
        /\ last # 0 => p.lib[pref] = lib[pref]
        /\ p.slot \in Slots /\ Linked(p.slot) /\ p.slot \in {s, NoSlot}
    BY <1>5, <1>7, <1>8, PromotedKeeps
  <1>10. /\ e[1] \in Names /\ e[3] = e[1] /\ e[2] \in Folders /\ e[2][e[1]] # None
         /\ pref # NoName => e[1] = pref /\ e[2] = p.lib
         /\ e[2][Slot] = p.lib[Slot]
    BY <1>9, EnsuredIs DEF QuietInv, SavesTyped
  <1>11. slot' \in Slots /\ Linked(slot') /\ slot'.is \in {"none", "file"}
         /\ (slot'.is = "file" => slot' = s)
    BY <1>2, <1>7, <1>9, NoSlotIs
  <1>12. SavesTyped'
    BY <1>2, <1>3, <1>10, <1>11 DEF QuietInv, SavesTyped
  <1>13. ChoiceStands(pref', lib', alias')
    BY <1>2, <1>3, <1>9, <1>10 DEF ChoiceStands
  <1>14. ASSUME last' # 0 PROVE ChoiceIsNewest' /\ SlotFollows' /\ RemoteFollows'
    <2>1. last # 0 /\ ChoiceIsNewest /\ RemoteFollows
      BY <1>3, <1>14 DEF QuietInv, Kept
    <2>2. pref' = pref /\ lib'[pref] = lib[pref]
      BY <1>2, <1>9, <1>10, <2>1 DEF ChoiceIsNewest
    <2>3. ChoiceIsNewest' /\ RemoteFollows'
      BY <1>3, <2>1, <2>2 DEF ChoiceIsNewest, RemoteFollows, Newest
    <2>4. slot'.is = "file" => Newest(slot'.file)
      BY <1>8, <1>11, <2>1
    <2>5. SlotFollows'
      BY <1>3, <1>6, <1>11, <2>1, <2>4 DEF SlotFollows, LeadsTo, Newest
    <2>6. QED
      BY <2>3, <2>5
  <1>15. QED
    BY <1>2, <1>3, <1>4, <1>9, <1>11, <1>12, <1>13, <1>14
       DEF QuietInv, Kept, SyncStands, Playing

LEMMA SyncBeginsStep ==
  ASSUME QuietInv, SyncBegins, noise \in Nat, noise' = noise
  PROVE  QuietInv'
  <1> DEFINE here(l) == [n \in Names |-> Reads(l, alias, n)]
  <1>1. PICK p \in PromotedFrom("title", slot) :
          /\ lib' = p.lib /\ slot' = p.slot /\ flat' = p.flat
          /\ sync' = [at |-> "saves", local |-> here(p.lib), listed |-> remote,
                      todo |-> {n \in Names : here(p.lib)[n] # None \/ remote[n] # None}]
    BY DEF SyncBegins, Promoted
  <1>2. /\ installed /\ sync.at = "idle" /\ open = NoName
        /\ UNCHANGED <<now, alias, preserved, remote, pref, installed, open, plays, last>>
    BY DEF SyncBegins, Noisy
  <1>3. slot \in Slots /\ Linked(slot) /\ "title" \in Stems
        /\ (last # 0 /\ slot.is = "file" => Newest(slot.file))
    BY DEF QuietInv, SavesTyped, Kept, SlotFollows, Stems
  <1>4. /\ lib' \in Folders /\ flat' = None /\ ChoiceStands(pref, lib', alias)
        /\ last # 0 => lib'[pref] = lib[pref]
        /\ slot' \in Slots /\ Linked(slot') /\ slot' \in {slot, NoSlot}
        /\ pref # NoName /\ LeadsTo(slot, pref) => slot' = slot
        /\ slot'.is = "link" => Taken(lib, alias, slot'.to)
    BY <1>1, <1>3, PromotedKeeps
  <1>5. here(p.lib) \in Folders
    BY <1>1, <1>4, NamesAre DEF Reads, Folders, QuietInv, SavesTyped
  <1>6. /\ sync' \in Syncs /\ sync'.at = "saves" /\ sync'.listed = remote
        /\ \A n \in Names : sync'.local[n] = Reads(lib', alias, n)
    <2>1. {n \in Names : here(p.lib)[n] # None \/ remote[n] # None} \in SUBSET Names
      OBVIOUS
    <2>2. remote \in Folders
      BY DEF QuietInv, SavesTyped
    <2>3. \A n \in Names : here(p.lib)[n] = Reads(p.lib, alias, n)
      OBVIOUS
    <2> HIDE DEF here
    <2>4. QED
      BY <1>1, <1>5, <2>1, <2>2, <2>3 DEF Syncs
  <1>7. SavesTyped'
    BY <1>2, <1>4, <1>6 DEF QuietInv, SavesTyped
  <1>8. NoSlot.is = "none"
    BY NoSlotIs
  <1>9. ASSUME last' # 0 PROVE ChoiceIsNewest' /\ SlotFollows' /\ RemoteFollows'
    <2>1. last # 0 /\ ChoiceIsNewest /\ SlotFollows /\ RemoteFollows
      BY <1>2, <1>9 DEF QuietInv, Kept
    <2>2. ChoiceIsNewest'
      BY <1>2, <1>4, <2>1 DEF ChoiceIsNewest, Newest
    <2>3. pref \in Names /\ (pref = Slot => alias = NoName)
      BY <2>1 DEF ChoiceIsNewest, Newest, Holds, QuietInv, ChoiceStands, SavesTyped
    <2>4. sync'.local[pref] = lib'[pref]
      BY <1>6, <2>3 DEF Reads
    <2>5. RemoteFollows'
      BY <1>2, <1>4, <1>6, <2>1, <2>4 DEF RemoteFollows
    <2>6. slot'.is = "file" => Newest(slot'.file)
      BY <1>4, <1>8, <2>1 DEF SlotFollows
    <2>7. slot'.is = "link" => slot'.to = pref
      BY <1>4, <1>8, <2>1 DEF SlotFollows
    <2>8. LeadsTo(slot', Slot) => alias = NoName
      BY <1>4, <1>8, <2>1 DEF SlotFollows, LeadsTo
    <2>9. preserved = None \/ Newest(preserved) \/ LeadsTo(slot', pref)
      BY <1>4, <2>1 DEF SlotFollows, ChoiceIsNewest
    <2>10. SlotFollows'
      BY <1>2, <2>6, <2>7, <2>8, <2>9 DEF SlotFollows, Newest
    <2>11. QED
      BY <2>2, <2>5, <2>10
  <1>10. QED
    BY <1>2, <1>4, <1>6, <1>7, <1>9
       DEF QuietInv, Kept, SyncStands, Playing

LEMMA DoneIs ==
  ASSUME sync \in Syncs, NEW n, Done(n)
  PROVE  /\ sync' \in Syncs /\ sync'.at = sync.at /\ sync'.local = sync.local
         /\ sync'.listed = sync.listed
  BY DEF Done, Syncs

LEMMA SkipStep ==
  ASSUME QuietInv, NEW n \in Names, Skip(n),
         UNCHANGED <<now, preserved, flat, installed, open, plays, last>>
  PROVE  QuietInv'
  <1>1. UNCHANGED <<lib, alias, slot, remote, pref>>
    BY DEF Skip
  <1>2. /\ sync' \in Syncs /\ sync'.at = sync.at /\ sync'.local = sync.local
        /\ sync'.listed = sync.listed
    BY DoneIs DEF Skip, QuietInv, SavesTyped
  <1>3. SavesTyped'
    BY <1>1, <1>2 DEF QuietInv, SavesTyped
  <1>4. Kept'
    BY <1>1, <1>2
       DEF QuietInv, Kept, ChoiceIsNewest, Newest, SlotFollows, RemoteFollows, Taken, Reads
  <1>5. QED
    BY <1>1, <1>2, <1>3, <1>4 DEF QuietInv, ChoiceStands, SyncStands, Playing, Linked

LEMMA UploadStep ==
  ASSUME QuietInv, NEW n \in Names, Upload(n),
         UNCHANGED <<now, preserved, flat, installed, open, plays, last>>
  PROVE  QuietInv'
  <1>1. /\ Taken(lib, alias, n) /\ UNCHANGED <<lib, alias, slot, pref>>
        /\ remote' = [remote EXCEPT ![n] = File(Reads(lib, alias, n).v, now)]
    BY DEF Upload
  <1>2. /\ sync' \in Syncs /\ sync'.at = sync.at /\ sync'.local = sync.local
        /\ sync'.listed = sync.listed
    BY DoneIs DEF Upload, QuietInv, SavesTyped
  <1>3. lib \in Folders /\ remote \in Folders /\ now \in Nat
    BY DEF QuietInv, SavesTyped
  <1>4. Reads(lib, alias, n) \in Saves /\ Reads(lib, alias, n) # None
    <2>1. alias # NoName => alias \in Names
      BY DEF QuietInv, SavesTyped
    <2>2. QED
      BY <1>1, <1>3, <2>1 DEF Taken, Reads, Folders
  <1>5. PICK f \in Saves : /\ f = File(Reads(lib, alias, n).v, now) /\ f # None
                           /\ f.v = Reads(lib, alias, n).v /\ f.t = now
    BY <1>3, <1>4, SaveIs, FileIs
  <1>6. remote' \in Folders /\ remote'[n] = f /\ \A k \in Names : k # n => remote'[k] = remote[k]
    BY <1>1, <1>3, <1>5 DEF Folders
  <1>7. \A k \in Names : remote'[k] # None => remote'[k].t <= now
    BY <1>3, <1>5, <1>6 DEF QuietInv, SavesTyped
  <1>8. SavesTyped'
    BY <1>1, <1>2, <1>6, <1>7 DEF QuietInv, SavesTyped
  <1>9. ASSUME last' # 0 PROVE ChoiceIsNewest' /\ SlotFollows' /\ RemoteFollows'
    <2>1. last # 0 /\ ChoiceIsNewest /\ SlotFollows /\ RemoteFollows
      BY <1>9 DEF QuietInv, Kept
    <2>2. ChoiceIsNewest' /\ SlotFollows'
      BY <1>1, <1>2, <2>1 DEF ChoiceIsNewest, SlotFollows, Newest, Taken, Reads
    <2>3. pref \in Names /\ (pref = Slot => alias = NoName)
      BY <2>1 DEF ChoiceIsNewest, Newest, Holds, QuietInv, ChoiceStands, SavesTyped
    <2>4. Ahead(lib[pref], remote'[pref])
      BY <1>5, <1>6, <2>1, <2>3 DEF Ahead, RemoteFollows, Reads
    <2>5. RemoteFollows'
      BY <1>1, <1>2, <2>1, <2>4 DEF RemoteFollows
    <2>6. QED
      BY <2>2, <2>5
  <1>10. SyncStands'
    BY <1>1, <1>2, <1>5, <1>6 DEF QuietInv, SyncStands
  <1>11. QED
    BY <1>1, <1>2, <1>8, <1>9, <1>10
       DEF QuietInv, Kept, ChoiceStands, Playing, Linked

(* A download never takes the chosen save for older than what RomM had of   *)
(* it when the sync began.                                                  *)
LEMMA DownloadIs ==
  ASSUME QuietInv, NEW n \in Names, Download(n), sync.at = "saves", last # 0
  PROVE  n # pref
  <1> SUFFICES ASSUME n = pref PROVE FALSE
    OBVIOUS
  <1>1. /\ sync.local[n] = lib[n] /\ lib[n] # None /\ lib[n] \in Saves
        /\ Ahead(lib[n], sync.listed[n]) /\ sync.listed[n] \in Saves
    BY DEF QuietInv, Kept, ChoiceIsNewest, Newest, Holds, RemoteFollows, SavesTyped, Folders,
           Syncs
  <1>2. ~ Same(n) /\ ~ KeepsLocal(n)
    BY DEF Download
  <1>3. lib[n].t \in Nat /\ (sync.listed[n] # None => sync.listed[n].t \in Nat)
    BY <1>1, SaveIs
  <1>4. CASE sync.listed[n] = None
    BY <1>1, <1>2, <1>3, <1>4 DEF KeepsLocal, Time
  <1>5. CASE sync.listed[n] # None
    <2>1. sync.listed[n].v # lib[n].v
      BY <1>1, <1>2, <1>5 DEF Same
    <2>2. sync.listed[n].t <= lib[n].t
      BY <1>1, <1>5, <2>1 DEF Ahead
    <2>3. QED
      BY <1>1, <1>2, <1>3, <1>5, <2>2 DEF KeepsLocal, Time
  <1>6. QED
    BY <1>4, <1>5

LEMMA DownloadStep ==
  ASSUME QuietInv, NEW n \in Names, Download(n), sync.at = "saves", remote[n] # None,
         UNCHANGED <<now, preserved, flat, installed, open, plays, last>>
  PROVE  QuietInv'
  <1>1. /\ lib' = [lib EXCEPT ![n] = File(remote[n].v, now)]
        /\ alias' = (IF n = Slot THEN NoName ELSE alias)
        /\ pref' = (IF pref = NoName THEN n ELSE pref)
        /\ remote' = remote
    BY DEF Download
  <1>2. slot' = slot
    BY DEF Download, Unlinked, QuietInv, Linked
  <1>3. /\ sync' \in Syncs /\ sync'.at = sync.at /\ sync'.local = sync.local
        /\ sync'.listed = sync.listed
    BY DoneIs DEF Download, QuietInv, SavesTyped
  <1>4. lib \in Folders /\ remote[n] \in Saves /\ now \in Nat
    BY DEF QuietInv, SavesTyped, Folders
  <1>5. PICK f \in Saves : f = File(remote[n].v, now) /\ f # None
    BY <1>4, SaveIs, FileIs
  <1>6. lib' \in Folders /\ lib'[n] = f /\ \A k \in Names : k # n => lib'[k] = lib[k]
    BY <1>1, <1>4, <1>5 DEF Folders
  <1>7. SavesTyped'
    BY <1>1, <1>2, <1>3, <1>6 DEF QuietInv, SavesTyped
  <1>8. ChoiceStands(pref', lib', alias')
    BY <1>1, <1>5, <1>6, NamesAre DEF QuietInv, ChoiceStands, SavesTyped, Slot
  <1>9. ASSUME last' # 0 PROVE ChoiceIsNewest' /\ SlotFollows' /\ RemoteFollows'
    <2>1. last # 0 /\ ChoiceIsNewest /\ SlotFollows /\ RemoteFollows
      BY <1>9 DEF QuietInv, Kept
    <2>2. pref' = pref /\ pref \in Names /\ lib'[pref] = lib[pref]
      BY <1>1, <1>6, <2>1, DownloadIs DEF ChoiceIsNewest, QuietInv, SavesTyped
    <2>3. ChoiceIsNewest' /\ RemoteFollows'
      BY <1>1, <1>3, <2>1, <2>2 DEF ChoiceIsNewest, RemoteFollows, Newest
    <2>4. SlotFollows'
      BY <1>1, <1>2, <2>1, <2>2 DEF SlotFollows, LeadsTo, Newest
    <2>5. QED
      BY <2>3, <2>4
  <1>10. open = NoName
    BY DEF QuietInv, Playing
  <1>11. QED
    BY <1>1, <1>2, <1>3, <1>7, <1>8, <1>9, <1>10
       DEF QuietInv, Kept, SyncStands, Playing, Linked

LEMMA SyncFailsStep == QuietInv /\ SyncFails => QuietInv'
  <1> SUFFICES ASSUME QuietInv, SyncFails PROVE QuietInv'
    OBVIOUS
  <1>1. /\ sync.at = "saves" /\ sync' = NoSync
        /\ UNCHANGED <<now, lib, alias, slot, preserved, flat, remote, pref, installed, open,
                       plays, last>>
    BY DEF SyncFails
  <1>2. NoSync \in Syncs /\ NoSync.at = "idle"
    BY DEF NoSync, Syncs, Folders, Saves
  <1>3. SavesTyped'
    BY <1>1, <1>2 DEF QuietInv, SavesTyped
  <1>4. Kept'
    BY <1>1, <1>2
       DEF QuietInv, Kept, ChoiceIsNewest, Newest, SlotFollows, RemoteFollows, Taken, Reads
  <1>5. QED
    BY <1>1, <1>2, <1>3, <1>4 DEF QuietInv, ChoiceStands, SyncStands, Playing, Linked

LEMMA SyncEndsStep == Bridges \subseteq {"link"} /\ QuietInv /\ SyncEnds => QuietInv'
  <1> SUFFICES ASSUME Bridges \subseteq {"link"}, QuietInv, SyncEnds PROVE QuietInv'
    OBVIOUS
  <1>1. /\ sync.at = "saves" /\ sync' = NoSync
        /\ UNCHANGED <<now, preserved, flat, remote, pref, installed, open, plays, last>>
    BY DEF SyncEnds
  <1>2. NoSync \in Syncs /\ NoSync.at = "idle"
    BY DEF NoSync, Syncs, Folders, Saves
  <1>3. open = NoName /\ installed
    BY <1>1 DEF QuietInv, Playing, SyncStands
  <1>4. lib \in Folders /\ slot \in Slots /\ pref \in Names \cup {NoName}
    BY DEF QuietInv, SavesTyped
  <1> DEFINE there == {n \in Names : Taken(lib, alias, n)}
             of == IF pref \in there THEN {pref} ELSE there
  <1>5. pref # NoName => pref \in there
    BY <1>4 DEF QuietInv, ChoiceStands, Taken, Reads
  <1>6. CASE of = {}
    <2>1. UNCHANGED <<lib, alias, slot>>
      BY <1>6 DEF SyncEnds
    <2>2. pref = NoName
      BY <1>5, <1>6
    <2>3. last = 0
      BY <2>2 DEF QuietInv, Kept, ChoiceIsNewest
    <2>4. SavesTyped'
      BY <1>1, <1>2, <2>1 DEF QuietInv, SavesTyped
    <2>5. QED
      BY <1>1, <1>2, <1>3, <2>1, <2>3, <2>4
         DEF QuietInv, ChoiceStands, SyncStands, Playing, Linked, Kept
  <1>7. CASE of # {}
    <2>1. PICK n \in of : Bind(n, lib, alias, slot)
      BY <1>7 DEF SyncEnds
    <2>2. n \in Names /\ (pref # NoName => n = pref)
      BY <1>5
    <2>3. /\ SavesTyped' /\ Linked(slot') /\ ChoiceStands(pref', lib', alias') /\ Kept'
          /\ LeadsTo(slot', n)
      <3>1. Linked(slot) /\ ChoiceStands(pref, lib, alias)
        BY DEF QuietInv
      <3>2. sync'.at = "idle" /\ sync' \in Syncs
        BY <1>1, <1>2
      <3>3. pref' \in {pref, n} /\ (pref' # NoName => lib[pref'] # None /\ n = pref')
        BY <1>1, <2>2, <3>1 DEF ChoiceStands
      <3>4. alias # NoName => lib[Slot] = None
        BY <3>1 DEF ChoiceStands
      <3>5. QED
        BY <1>1, <1>4, <2>1, <2>2, <3>1, <3>2, <3>3, <3>4, BoundIs
    <2>4. QED
      BY <1>1, <1>2, <1>3, <2>3 DEF QuietInv, SyncStands, Playing
  <1>8. QED
    BY <1>6, <1>7

LEMMA SyncOneStep ==
  ASSUME QuietInv, NEW n \in Names, SyncOne(n)
  PROVE  QuietInv'
  <1>1. /\ sync.at = "saves" /\ UNCHANGED <<now, preserved, flat, installed, open, plays, last>>
        /\ Skip(n) \/ Upload(n) \/ Download(n)
    BY DEF SyncOne
  <1>2. CASE Skip(n)
    BY <1>1, <1>2, SkipStep
  <1>3. CASE Upload(n)
    BY <1>1, <1>3, UploadStep
  <1>4. CASE Download(n)
    <2>1. ~ KeepsLocal(n)
      BY <1>4 DEF Download
    <2>2. sync.local[n] \in Saves
      BY DEF QuietInv, SavesTyped, Syncs, Folders
    <2>3. Time(sync.local[n]) \in Nat
      BY <2>2, SaveIs DEF Time
    <2>4. sync.listed[n] # None
      BY <2>1, <2>3 DEF KeepsLocal, Time
    <2>5. remote[n] # None
      BY <1>1, <2>4 DEF QuietInv, SyncStands
    <2>6. QED
      BY <1>1, <1>4, <2>5, DownloadStep
  <1>5. QED
    BY <1>1, <1>2, <1>3, <1>4

(* A quiet step is one of these.                                            *)
LEMMA NoiseStep ==
  ASSUME noise \in Nat, [SaveSyncNext]_ssVars
  PROVE  /\ noise' \in Nat /\ noise' \in {noise, noise + 1}
         /\ noise' = noise =>
              \/ UNCHANGED ssVars
              \/ Tick \/ Launch \/ GameSaves \/ GameEnds \/ RefreshRows \/ Update
              \/ Uninstall \/ Install \/ ScanSaves \/ SyncBegins \/ SyncFails \/ SyncEnds
              \/ \E n \in Names : DeleteSave(n) \/ SyncOne(n)
              \/ \E n, m \in Names : RenameSave(n, m)
  <1>1. CASE Tick \/ GameEnds \/ RefreshRows \/ Update \/ Uninstall \/ Install \/ ScanSaves
             \/ SyncFails \/ SyncEnds \/ \E n \in Names : SyncOne(n)
    <2>1. noise' = noise
      BY <1>1 DEF Quiet, Tick, GameEnds, RefreshRows, Update, Uninstall, Install, ScanSaves,
                  SyncFails, SyncEnds, SyncOne
    <2>2. QED
      BY <1>1, <2>1
  <1>2. CASE Launch \/ GameSaves \/ SyncBegins
    <2>1. noise' \in {noise, noise + 1}
      BY <1>2 DEF Quiet, Noisy, Apart, Launch, GameSaves, SyncBegins
    <2>2. QED
      BY <1>2, <2>1
  <1>3. CASE \E n \in Names : DeleteSave(n)
    <2>1. noise' \in {noise, noise + 1}
      BY <1>3 DEF Quiet, Noisy, Apart, DeleteSave
    <2>2. QED
      BY <1>3, <2>1
  <1>4. CASE \E n, m \in Names : RenameSave(n, m)
    <2>1. noise' \in {noise, noise + 1}
      BY <1>4 DEF Quiet, Noisy, Apart, RenameSave
    <2>2. QED
      BY <1>4, <2>1
  <1>5. CASE PlayedElsewhere \/ CreateSave
             \/ \E n \in Names : Select(n) \/ ImportSave(n) \/ OtherUploads(n)
    BY <1>5 DEF Noisy, PlayedElsewhere, CreateSave, Select, ImportSave, OtherUploads
  <1>6. CASE UNCHANGED ssVars
    BY <1>6 DEF ssVars
  <1>7. QED
    BY <1>1, <1>2, <1>3, <1>4, <1>5, <1>6 DEF SaveSyncNext

LEMMA SavesStep ==
  ASSUME Bridges \subseteq {"link"}, SavesInv, [SaveSyncNext]_ssVars
  PROVE  SavesInv'
  <1>1. noise \in Nat /\ noise' \in Nat /\ noise' \in {noise, noise + 1}
    BY NoiseStep DEF SavesInv
  <1>2. SUFFICES ASSUME noise' = 0 PROVE QuietInv'
    BY <1>1 DEF SavesInv
  <1>3. noise = 0 /\ noise' = noise /\ QuietInv
    BY <1>1, <1>2 DEF SavesInv
  <1>4. CASE UNCHANGED ssVars \/ Tick \/ GameEnds
    <2>1. now \in Nat
      BY <1>3 DEF QuietInv, SavesTyped
    <2>2. /\ now' \in Nat /\ now' >= now /\ open' \in {open, NoName}
          /\ UNCHANGED <<lib, alias, slot, preserved, flat, remote, pref, installed, sync,
                         plays, last>>
      BY <1>4, <2>1 DEF ssVars, Tick, GameEnds
    <2>3. QED
      BY <1>3, <2>2, ElsewhereStep
  <1>5. CASE Launch \/ GameSaves \/ SyncBegins
    BY <1>1, <1>3, <1>5, LaunchStep, GameSavesStep, SyncBeginsStep
  <1>6. CASE RefreshRows \/ Update \/ Uninstall \/ Install \/ ScanSaves \/ SyncFails \/ SyncEnds
    BY <1>3, <1>6, RefreshStep, UpdateStep, UninstallStep, InstallStep, ScanStep,
       SyncFailsStep, SyncEndsStep
  <1>7. CASE \E n \in Names : DeleteSave(n) \/ SyncOne(n)
    BY <1>1, <1>3, <1>7, DeleteStep, SyncOneStep
  <1>8. CASE \E n, m \in Names : RenameSave(n, m)
    BY <1>1, <1>3, <1>8, RenameStep
  <1>9. QED
    BY <1>1, <1>3, <1>4, <1>5, <1>6, <1>7, <1>8, NoiseStep

(* The newest progress is in the save the title uses, for any number of     *)
(* games, updates, reinstalls, scans and syncs, with copies that fail, on a *)
(* system with symbolic links (romm_saves.cpp:1038-1097, 871-920, 631-690). *)
THEOREM ProgressKeptThroughout ==
  Bridges \subseteq {"link"} => (SaveSyncSpec => []ProgressKept)
  <1> SUFFICES ASSUME Bridges \subseteq {"link"} PROVE SaveSyncSpec => []ProgressKept
    OBVIOUS
  <1>1. SaveSyncInit => SavesInv
    BY SavesInit
  <1>2. SavesInv /\ [SaveSyncNext]_ssVars => SavesInv'
    BY SavesStep
  <1>3. SavesInv => ProgressKept
    BY DEF SavesInv, QuietInv, Kept, ChoiceIsNewest, Newest, ProgressKept
  <1>4. QED
    BY <1>1, <1>2, <1>3, PTL DEF SaveSyncSpec
=============================================================================
