--------------------------- MODULE MCTitleInstall ---------------------------
(***************************************************************************)
(* A title's folder: the jobs inside one folder, step by step, and the     *)
(* folders of the title under two install roots.  A behaviour is of one    *)
(* scope.  Inside, two releases, one of them built here, so updates        *)
(* between the two, rebuilds and reinstalls of either, "played" with a     *)
(* player who saves and no accident, or "hurt" by accidents and no player; *)
(* in a hurt folder a look of the UI thread is written before another job  *)
(* begins, a bound: in a played one it may be written jobs later.          *)
(***************************************************************************)
EXTENDS TitleInstall, InstallRoots

VARIABLE scope
folderVars == <<scope, vars, irVars>>

(* the second root is the default *)
MCRootList == <<"home", "ssd">>

FoldersInit ==
    /\ scope \in {"played", "hurt", "roots"}
    /\ Init /\ InstallRootsInit
    /\ rootList = IF scope = "roots" THEN MCRootList ELSE <<>>
    /\ scope = "roots" => rootDefault = "ssd"
FoldersNext ==
    \/ scope = "played" /\ Next /\ faults' = 0 /\ UNCHANGED <<scope, irVars>>
    \/ /\ scope = "hurt" /\ Next /\ wrote' = 0 /\ UNCHANGED <<scope, irVars>>
       /\ pc = "idle" /\ pc' # "idle" => ui = NoRecord
    \/ scope = "roots" /\ InstallRootsNext /\ UNCHANGED <<scope, vars>>
FoldersSpec == FoldersInit /\ [][FoldersNext]_folderVars
=============================================================================
