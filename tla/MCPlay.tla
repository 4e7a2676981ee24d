------------------------------- MODULE MCPlay -------------------------------
(***************************************************************************)
(* Playing a title: the game in the hub's window, the launch that stages   *)
(* what the player chose, the mods it finds, and the settings it reads.  A *)
(* behaviour runs one of them.  Only the first has fairness to state.      *)
(***************************************************************************)
EXTENDS PlaySession, TitleChoices, Mods, CoreSettings

CONSTANT MaxAskedClicks  \* bound: clicks in a game the command line asked for

VARIABLE stage
playVars == <<stage, plVars, tcVars, moVars, csVars>>

PlaysInit ==
    /\ stage \in {"game", "launch", "mods", "settings"}
    /\ PlayInit /\ ChoicesInit /\ ModsInit /\ CoreSettingsInit
    /\ stage # "game" => ~cli.asked /\ ~play.net
    /\ stage # "launch" => kind = "disc"
    /\ stage # "mods" => layout = "n64"
    /\ stage # "settings" => shell
PlaysNext ==
    \/ /\ stage = "game" /\ PlayNext /\ (cli.asked => clicks' <= MaxAskedClicks)
       /\ UNCHANGED <<stage, tcVars, moVars, csVars>>
    \/ stage = "launch" /\ ChoicesNext /\ UNCHANGED <<stage, plVars, moVars, csVars>>
    \/ stage = "mods" /\ ModsNext /\ UNCHANGED <<stage, plVars, tcVars, csVars>>
    \/ stage = "settings" /\ CoreSettingsNext /\ UNCHANGED <<stage, plVars, tcVars, moVars>>
PlaysFair ==
    /\ WF_plVars(stage = "game" /\ Loop) /\ WF_plVars(stage = "game" /\ RunnerAnswers)
    /\ WF_plVars(stage = "game" /\ Find) /\ WF_plVars(stage = "game" /\ WorkerDone)
PlaysSpec == PlaysInit /\ [][PlaysNext]_playVars /\ PlaysFair

(* The state of each keeps its types.                                      *)
PlaysTypeOK == PlayTypeOK /\ ChoicesTypeOK /\ ModsTypeOK /\ CoreSettingsTypeOK
=============================================================================
