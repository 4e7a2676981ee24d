----------------------------- MODULE MCLibrary -----------------------------
(***************************************************************************)
(* What the hub keeps of the user's own files: the index of the dumps it   *)
(* found, a title's saves, and the builds made from them.  A behaviour      *)
(* runs one of them.                                                       *)
(***************************************************************************)
EXTENDS LibraryIndex, SaveSync, BuildPipeline

VARIABLE part
libraryVars == <<part, liVars, ssVars, bpVars>>

MCTitlePlatform(t) == IF t = 3 THEN "psx" ELSE "snes"
MCFolderPlatform(p) == IF p = "c" THEN "psx" ELSE "snes"
MCIdentity(t) == IF t = 3 THEN {"y"} ELSE {"x"}
MCNeedsCue(t) == t = 3
(* The second title's releases: the first has the slot of the first        *)
(* title's second release, with another engine commit of the same key; the *)
(* second moves to the commit the first title starts from.                 *)
MCEngineOf == [t \in Ports |-> [n \in 1 .. MaxTag |-> IF t = 1 THEN n ELSE IF n = 1 THEN 3 ELSE 1]]
MCKeyOf == [r \in 1 .. 3 |-> IF r = 3 THEN 2 ELSE r]
MCSlotOf == [t \in Ports |-> [n \in 1 .. MaxTag |-> n + t - 1]]
MCCatalogs == {{1, 3}, {1, 2, 3}}

LibraryInit ==
    /\ part \in {"index", "saves", "build"}
    /\ LibraryIndexInit /\ SaveSyncInit /\ BuildInit
    /\ part # "index" => catalog = Titles
LibraryNext ==
    \/ part = "index" /\ LibraryIndexNext /\ UNCHANGED <<part, ssVars, bpVars>>
    \/ part = "saves" /\ SaveSyncNext /\ UNCHANGED <<part, liVars, bpVars>>
    \/ part = "build" /\ BuildNext /\ UNCHANGED <<part, liVars, ssVars>>
LibrarySpec == LibraryInit /\ [][LibraryNext]_libraryVars

(* The state of each keeps its types.                                      *)
LibraryTypeOK == LibraryIndexTypeOK /\ SaveSyncTypeOK /\ BuildTypeOK
=============================================================================
