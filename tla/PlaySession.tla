---------------------------- MODULE PlaySession ----------------------------
(***************************************************************************)
(* A core title played in the hub's window (hub_play.cpp, hub_states.cpp,  *)
(* hub_replay_info.cpp and the loop of hub_main.cpp).  The main thread     *)
(* goes round its loop; the runner is another process, whose messages the  *)
(* hub reads when it pumps the link; the launch worker is another thread.  *)
(***************************************************************************)
EXTENDS Integers, FiniteSets, SequencesExt

CONSTANTS Slots,      \* slots of the save-state browser
          MaxClicks,  \* bound: what the player presses
          MaxMovies   \* bound: recorded replays

VARIABLES turn,    \* where the main thread is in its loop
          play,    \* the session: is there one, a match, closed by the player
          link,    \* what the hub knows of the runner
          wire,    \* what the runner did since the link was last pumped
          menu,    \* the quick menu: page, slot in view, question asked
          rq,      \* the browser's request
          states,  \* the slots' files, 0 for none
          agreed,  \* slots the player agreed to lose
          turbo,   \* key and pad as the hub sees them, the key itself, vsync
          reel,    \* replays: files, the cards shown, requests
          cli,     \* --play: what was asked, seen and reported
          worker,  \* the launch worker, and what it left in pending_play
          clicks

plVars == <<turn, play, link, wire, menu, rq, states, agreed, turbo, reel, cli, worker, clicks>>

NoLink == [st |-> "idle", frame |-> FALSE, state |-> "none", ok |-> FALSE,
           replay |-> "idle", asked |-> "none"]
Fresh == [NoLink EXCEPT !.st = "starting"]
Replaying == [Fresh EXCEPT !.replay = "playing"]
NoMenu == [open |-> FALSE, page |-> "main", view |-> 0, confirm |-> 0, delete |-> FALSE]
NoRequest == [kind |-> "none", slot |-> 0, at |-> "none"]
NoTurbo == [key |-> FALSE, pad |-> FALSE, on |-> FALSE, held |-> FALSE, vsync |-> TRUE]
NoReel == [cards |-> <<>>, view |-> 0, ask |-> 0, want |-> "none", play |-> 0,
           seen |-> "idle", refresh |-> FALSE, files |-> {1}, sealed |-> {1},
           preview |-> 0, previews |-> {}, made |-> 1]

PlayInit ==
    /\ turn = "events" /\ wire = {} /\ menu = NoMenu /\ rq = NoRequest
    /\ states = [s \in Slots |-> IF s = 1 THEN 1 ELSE 0] /\ agreed = {}
    /\ turbo = NoTurbo /\ reel = NoReel /\ clicks = 0
    /\ cli \in {[asked |-> a, requested |-> FALSE, seen |-> FALSE, pending |-> FALSE,
                 over |-> FALSE, code |-> 0] : a \in BOOLEAN}
    /\ worker = [running |-> FALSE, at |-> "idle", pending |-> FALSE, failed |-> FALSE]
    /\ link = (IF cli.asked THEN NoLink ELSE Fresh)
    /\ \E n \in BOOLEAN : play = [on |-> ~cli.asked, net |-> n /\ ~cli.asked, quit |-> FALSE]

-----------------------------------------------------------------------------
Ready == play.on /\ link.st = "ready"
Paused == menu.open /\ ~play.net
CanGrant == link.st = "ready" /\ ~link.frame /\ link.state = "none" /\ link.asked = "none"
CanRequestState == CanGrant
Click == ~cli.over /\ clicks < MaxClicks /\ clicks' = clicks + 1

Opened == IF menu.open THEN menu ELSE [NoMenu EXCEPT !.open = TRUE]
Closed == [menu EXCEPT !.open = FALSE]
SetPaused(p) == menu' = IF p THEN Opened ELSE Closed

(* the browser opens on all its slots, and not in a match                  *)
OpenStates ==
    menu' = IF play.net THEN menu
            ELSE [Opened EXCEPT !.page = "states", !.view = 0, !.confirm = 0]
(* newest first *)
Newer(f) == {g \in reel.files : g > f}
Listed == [i \in 1 .. Cardinality(reel.files) |->
             CHOOSE f \in reel.files : Cardinality(Newer(f)) = i - 1]
OpenReplays ==
    /\ menu' = [Opened EXCEPT !.page = "replays"]
    /\ reel' = [reel EXCEPT !.view = 0, !.ask = 0, !.cards = Listed]
ToggleRecording ==
    reel' = IF play.net \/ link.asked # "none" \/ reel.want # "none" \/ link.replay = "playing"
            THEN reel
            ELSE [reel EXCEPT !.want = IF link.replay = "recording" THEN "stop" ELSE "start"]
StatesShortcut ==
    IF menu.open /\ menu.page # "main" THEN SetPaused(FALSE) ELSE OpenStates

-----------------------------------------------------------------------------
(* Events, then what the loop does before the session's own step.          *)

InEvents == turn = "events" /\ ~cli.over
KeyMenu ==
    /\ InEvents /\ Ready /\ Click /\ SetPaused(~menu.open)
    /\ UNCHANGED <<turn, play, link, wire, rq, states, agreed, turbo, reel, cli, worker>>
KeyTab ==
    /\ InEvents /\ Ready /\ menu.open /\ menu.page # "main" /\ Click
    /\ IF menu.page = "states" THEN OpenReplays ELSE OpenStates /\ UNCHANGED reel
    /\ UNCHANGED <<turn, play, link, wire, rq, states, agreed, turbo, cli, worker>>
KeyStates ==
    /\ InEvents /\ Ready /\ Click /\ StatesShortcut
    /\ UNCHANGED <<turn, play, link, wire, rq, states, agreed, turbo, reel, cli, worker>>
KeyRecord ==
    /\ InEvents /\ Ready /\ ToggleRecording
    /\ UNCHANGED <<turn, play, link, wire, menu, rq, states, agreed, turbo, cli, worker, clicks>>
(* the turbo key: a menu takes it, its release too                         *)
KeyTurbo ==
    /\ InEvents /\ play.on /\ Click
    /\ turbo' = [turbo EXCEPT !.held = ~@,
                              !.key = IF Ready /\ ~menu.open THEN ~turbo.held ELSE @]
    /\ UNCHANGED <<turn, play, link, wire, menu, rq, states, agreed, reel, cli, worker>>
FocusLost ==
    /\ InEvents /\ play.on /\ turbo.held /\ Click
    /\ turbo' = [turbo EXCEPT !.held = FALSE, !.key = FALSE, !.on = FALSE]
    /\ UNCHANGED <<turn, play, link, wire, menu, rq, states, agreed, reel, cli, worker>>
EventsDone ==
    /\ InEvents /\ turn' = "start"
    /\ UNCHANGED <<play, link, wire, menu, rq, states, agreed, turbo, reel, cli, worker, clicks>>

(* a requested title starts once nothing plays; its runner may not         *)
StartPending ==
    /\ turn = "start" /\ turn' = "tick"
    /\ IF play.on \/ ~worker.pending THEN UNCHANGED <<play, link, worker>>
       ELSE \E ok \in BOOLEAN :
              /\ worker' = [worker EXCEPT !.pending = FALSE, !.failed = ~ok]
              /\ play' = [on |-> ok, net |-> FALSE, quit |-> FALSE]
              /\ link' = (IF ok THEN Fresh ELSE NoLink)
    /\ UNCHANGED <<wire, menu, rq, states, agreed, turbo, reel, cli, clicks>>

-----------------------------------------------------------------------------
(* The session's step.                                                     *)

Died == "end" \in wire
Heard ==
    [link EXCEPT
        !.st = IF Died THEN "ended" ELSE IF "up" \in wire THEN "ready" ELSE @,
        !.frame = @ /\ "frame" \notin wire /\ ~Died,
        !.state = IF "state" \in wire THEN "done" ELSE IF "refused" \in wire THEN "failed" ELSE @,
        !.replay = IF "replay" \notin wire THEN @
                   ELSE CASE link.asked = "start" -> "recording" [] link.asked = "stop" -> "saved",
        !.asked = IF "replay" \in wire THEN "none" ELSE @]
Pump ==
    /\ turn = "tick" /\ play.on /\ link' = Heard /\ wire' = {} /\ turn' = "pads"
    /\ UNCHANGED <<play, menu, rq, states, agreed, turbo, reel, cli, worker, clicks>>
NothingPlays ==
    /\ turn = "tick" /\ ~play.on /\ turn' = "ask"
    /\ UNCHANGED <<play, link, wire, menu, rq, states, agreed, turbo, reel, cli, worker, clicks>>

(* the controller's shortcuts: the menu, and turbo, which it toggles       *)
PadMenu ==
    /\ turn = "pads" /\ Ready /\ Click /\ SetPaused(~menu.open)
    /\ UNCHANGED <<turn, play, link, wire, rq, states, agreed, turbo, reel, cli, worker>>
PadTurbo ==
    /\ turn = "pads" /\ Ready /\ ~menu.open /\ Click
    /\ turbo' = [turbo EXCEPT !.pad = ~@]
    /\ UNCHANGED <<turn, play, link, wire, menu, rq, states, agreed, reel, cli, worker>>

(* turbo gets its vsync back before the end of the game is noticed         *)
TurboWanted == (turbo.key \/ turbo.pad) /\ Ready /\ ~Paused /\ ~play.net
Finish == rq' = NoRequest /\ agreed' = {}
GiveUpNever == UNCHANGED <<rq, agreed>>
GiveUp == Finish
SetTurboWhileReady(on) ==
    turbo' = IF link.st = "ready" THEN [turbo EXCEPT !.on = on, !.vsync = ~on] ELSE turbo
SetTurbo(on) == turbo' = [turbo EXCEPT !.on = on, !.vsync = ~on]
Turbo ==
    /\ turn = "pads" /\ SetTurbo(TurboWanted)
    /\ IF link.st = "ended" THEN GiveUp ELSE UNCHANGED <<rq, agreed>>
    /\ turn' = CASE link.st = "ended" -> "ask" [] link.st = "ready" -> "replays" [] OTHER -> "grant"
    /\ UNCHANGED <<play, link, wire, menu, states, reel, cli, worker, clicks>>
(* a recording that was saved gets its preview, and the cards are made anew *)
Refreshed(r) == [r EXCEPT !.cards = Listed, !.refresh = FALSE,
                          !.view = IF @ > Cardinality(reel.files) THEN 0 ELSE @]
Previewed(r) ==
    IF r.preview \in r.sealed
    THEN [r EXCEPT !.previews = @ \union {r.preview}, !.preview = 0] ELSE r
Noticed ==
    LET r == IF reel.refresh THEN Refreshed(reel) ELSE reel
    IN  IF link.replay = r.seen THEN r
        ELSE LET n == [r EXCEPT !.seen = link.replay]
             IN  IF link.replay = "saved" THEN Refreshed(Previewed(n)) ELSE n

Recording ==
    /\ reel.want # "none" /\ CanGrant
    /\ link' = [link EXCEPT !.asked = reel.want]
    /\ reel' = IF reel.want = "stop" THEN [Noticed EXCEPT !.want = "none"]
               ELSE [Noticed EXCEPT !.want = "none", !.preview = reel.made + 1]
    /\ UNCHANGED menu
(* a replay plays in a fresh process, which takes the place of the runner  *)
Restart ==
    /\ reel.want = "none" /\ reel.play # 0 /\ CanGrant
    /\ IF link.replay = "recording"
       THEN reel' = [Noticed EXCEPT !.play = 0] /\ UNCHANGED <<link, menu, wire>>
       ELSE /\ reel' = [Noticed EXCEPT !.play = 0, !.seen = "idle"]
            /\ link' = Replaying /\ wire' = {}
            /\ SetPaused(FALSE)
NoReplay ==
    /\ (reel.want = "none" /\ reel.play = 0) \/ ~CanGrant
    /\ reel' = Noticed /\ UNCHANGED <<link, menu, wire>>
ServiceReplays ==
    /\ turn = "replays" /\ turn' = "states"
    /\ (Recording /\ UNCHANGED wire) \/ Restart \/ NoReplay
    /\ UNCHANGED <<play, rq, states, agreed, turbo, cli, worker, clicks>>

(* a state is taken between frames; one whose game stopped is given up      *)
SendState ==
    /\ rq.at \in {"asked", "waiting"}
    /\ IF link.st # "ready" THEN Finish /\ UNCHANGED link
       ELSE IF CanRequestState
       THEN rq' = [rq EXCEPT !.at = "sent"] /\ link' = [link EXCEPT !.state = rq.kind] /\ UNCHANGED agreed
       ELSE rq' = [rq EXCEPT !.at = "waiting"] /\ UNCHANGED <<link, agreed>>
    /\ UNCHANGED menu
StateResult ==
    /\ rq.at = "sent" /\ link.state \in {"done", "failed"}
    /\ link' = [link EXCEPT !.state = "none"] /\ Finish
    /\ IF link.state = "done" /\ rq.kind = "load" THEN SetPaused(FALSE) ELSE UNCHANGED menu
NoState ==
    /\ rq.at = "none" \/ (rq.at = "sent" /\ link.state \notin {"done", "failed"})
    /\ UNCHANGED <<rq, agreed, link, menu>>
ServiceStates ==
    /\ turn = "states" /\ turn' = "grant"
    /\ SendState \/ StateResult \/ NoState
    /\ UNCHANGED <<play, wire, states, turbo, reel, cli, worker, clicks>>

(* in a match the game runs on behind the menu                             *)
GrantedUnlessMenu == ~menu.open /\ CanGrant
Granted == ~Paused /\ CanGrant
Grant ==
    /\ turn = "grant" /\ turn' = "ask"
    /\ link' = IF Granted THEN [link EXCEPT !.frame = TRUE] ELSE link
    /\ UNCHANGED <<play, wire, menu, rq, states, agreed, turbo, reel, cli, worker, clicks>>

-----------------------------------------------------------------------------
(* --play: asked of the launch worker, which is looked after every frame.   *)

AskLaunch ==
    /\ turn = "ask"
    /\ IF cli.asked /\ ~cli.requested
       THEN /\ cli' = [cli EXCEPT !.requested = TRUE]
            /\ worker' = [worker EXCEPT !.running = TRUE, !.at = "finding"]
       ELSE UNCHANGED <<cli, worker>>
    /\ turn' = IF cli.asked THEN "look" ELSE "draw"
    /\ UNCHANGED <<play, link, wire, menu, rq, states, agreed, turbo, reel, clicks>>
Look ==
    /\ turn = "look" /\ turn' = "decide"
    /\ cli' = [cli EXCEPT !.seen = @ \/ play.on, !.pending = worker.pending]
    /\ UNCHANGED <<play, link, wire, menu, rq, states, agreed, turbo, reel, worker, clicks>>
Gone == cli.requested /\ ~play.on /\ ~cli.pending /\ ~worker.running
Decide ==
    /\ turn = "decide" /\ turn' = "draw"
    /\ cli' = IF Gone THEN [cli EXCEPT !.over = TRUE, !.code = IF cli.seen THEN 0 ELSE 1] ELSE cli
    /\ UNCHANGED <<play, link, wire, menu, rq, states, agreed, turbo, reel, worker, clicks>>

(* the worker leaves a title with a core to the window, then is done        *)
Find ==
    /\ worker.at = "finding"
    /\ \E ok \in BOOLEAN : worker' = [worker EXCEPT !.at = "done", !.pending = ok, !.failed = ~ok]
    /\ UNCHANGED <<turn, play, link, wire, menu, rq, states, agreed, turbo, reel, cli, clicks>>
WorkerDone ==
    /\ worker.at = "done" /\ worker' = [worker EXCEPT !.at = "idle", !.running = FALSE]
    /\ UNCHANGED <<turn, play, link, wire, menu, rq, states, agreed, turbo, reel, cli, clicks>>

-----------------------------------------------------------------------------
(* The menu as it is drawn: at most one press a frame.                     *)

InMenu == turn = "draw" /\ Ready /\ menu.open /\ Click /\ turn' = "events"
OnPage(p) == InMenu /\ menu.page = p
NotBusy == rq.at = "none"
Rail(p) ==
    /\ InMenu
    /\ \/ p = "resume" /\ SetPaused(FALSE) /\ UNCHANGED <<reel, play, link>>
       \/ p = "states" /\ ~play.net /\ OpenStates /\ UNCHANGED <<reel, play, link>>
       \/ p = "replays" /\ ~play.net /\ OpenReplays /\ UNCHANGED <<play, link>>
       \/ /\ p = "close" /\ play' = [play EXCEPT !.quit = TRUE]
          /\ link' = [link EXCEPT !.st = "ended", !.frame = FALSE] /\ UNCHANGED <<menu, reel>>
    /\ UNCHANGED <<wire, rq, states, agreed, turbo, cli, worker>>

PickSlot(s) ==
    /\ OnPage("states") /\ menu.view = 0 /\ NotBusy
    /\ menu' = [menu EXCEPT !.view = s, !.confirm = 0]
    /\ UNCHANGED <<play, link, wire, rq, states, agreed, turbo, reel, cli, worker>>
Ask(kind) == rq' = [kind |-> kind, slot |-> menu.view, at |-> "asked"]
(* a slot that holds something is asked about first                         *)
SaveSlot ==
    /\ OnPage("states") /\ menu.view # 0 /\ menu.confirm # menu.view /\ NotBusy
    /\ IF states[menu.view] # 0
       THEN menu' = [menu EXCEPT !.confirm = menu.view, !.delete = FALSE] /\ UNCHANGED rq
       ELSE Ask("save") /\ UNCHANGED menu
    /\ UNCHANGED <<play, link, wire, states, agreed, turbo, reel, cli, worker>>
LoadSlot ==
    /\ OnPage("states") /\ menu.view # 0 /\ menu.confirm # menu.view /\ NotBusy
    /\ states[menu.view] # 0 /\ Ask("load")
    /\ UNCHANGED <<play, link, wire, menu, states, agreed, turbo, reel, cli, worker>>
DeleteSlot ==
    /\ OnPage("states") /\ menu.view # 0 /\ menu.confirm # menu.view /\ NotBusy
    /\ states[menu.view] # 0
    /\ menu' = [menu EXCEPT !.confirm = menu.view, !.delete = TRUE]
    /\ UNCHANGED <<play, link, wire, rq, states, agreed, turbo, reel, cli, worker>>
Confirm ==
    /\ OnPage("states") /\ menu.view # 0 /\ menu.confirm = menu.view
    /\ agreed' = {menu.view}
    /\ IF menu.delete
       THEN /\ states' = [states EXCEPT ![menu.view] = IF NotBusy THEN 0 ELSE @]
            /\ menu' = [menu EXCEPT !.view = 0, !.confirm = 0] /\ UNCHANGED rq
       ELSE /\ IF NotBusy THEN Ask("save") ELSE UNCHANGED rq
            /\ menu' = [menu EXCEPT !.confirm = 0] /\ UNCHANGED states
    /\ UNCHANGED <<play, link, wire, turbo, reel, cli, worker>>

Movie == reel.cards[reel.view]
PickMovie(i) ==
    /\ OnPage("replays") /\ reel.view = 0 /\ i \in DOMAIN reel.cards
    /\ reel' = [reel EXCEPT !.view = i, !.ask = 0]
    /\ UNCHANGED <<play, link, wire, menu, rq, states, agreed, turbo, cli, worker>>
PlayMovie ==
    /\ OnPage("replays") /\ reel.view # 0 /\ link.replay # "recording" /\ Movie \in reel.sealed
    /\ reel' = [reel EXCEPT !.play = Movie]
    /\ UNCHANGED <<play, link, wire, menu, rq, states, agreed, turbo, cli, worker>>
AskedAboutAny == reel.ask # 0
AskedAbout == reel.ask = Movie
DeleteMovie ==
    /\ OnPage("replays") /\ reel.view # 0
    /\ reel' = IF AskedAbout
               THEN [reel EXCEPT !.files = @ \ {Movie}, !.sealed = @ \ {Movie},
                                 !.previews = @ \ {Movie}, !.ask = 0, !.view = 0,
                                 !.refresh = TRUE]
               ELSE [reel EXCEPT !.ask = Movie]
    /\ UNCHANGED <<play, link, wire, menu, rq, states, agreed, turbo, cli, worker>>
RecordNew ==
    /\ OnPage("replays") /\ reel.view = 0 /\ link.replay # "recording"
    /\ ToggleRecording /\ SetPaused(FALSE)
    /\ UNCHANGED <<play, link, wire, rq, states, agreed, turbo, cli, worker>>
Back ==
    /\ InMenu
    /\ IF menu.page = "states" /\ menu.view # 0
       THEN menu' = [menu EXCEPT !.view = 0, !.confirm = 0] /\ UNCHANGED reel
       ELSE IF menu.page = "replays" /\ reel.view # 0
       THEN reel' = [reel EXCEPT !.view = 0, !.ask = 0] /\ UNCHANGED menu
       ELSE /\ menu' = IF menu.page # "main" THEN [menu EXCEPT !.page = "main"] ELSE Closed
            /\ UNCHANGED reel
    /\ UNCHANGED <<play, link, wire, rq, states, agreed, turbo, cli, worker>>

(* the end of the game is drawn until it is closed, unless the player did   *)
Drawn ==
    /\ turn = "draw" /\ ~cli.over /\ turn' = "events"
    /\ ~(play.on /\ link.st = "ended" /\ play.quit)
    /\ UNCHANGED <<play, link, wire, menu, rq, states, agreed, turbo, reel, cli, worker, clicks>>
(* the session is shut down, and everything it held goes with it            *)
Shutdown ==
    /\ turn = "draw" /\ play.on /\ link.st = "ended" /\ ~cli.over /\ turn' = "events"
    /\ \/ play.quit /\ UNCHANGED clicks
       \/ ~play.quit /\ Click
    /\ play' = [on |-> FALSE, net |-> FALSE, quit |-> FALSE]
    /\ link' = NoLink /\ wire' = {} /\ menu' = NoMenu /\ rq' = NoRequest /\ agreed' = {}
    /\ turbo' = [NoTurbo EXCEPT !.held = turbo.held]
    /\ reel' = [Previewed(reel) EXCEPT !.cards = <<>>, !.view = 0, !.ask = 0, !.want = "none",
                                       !.play = 0, !.seen = "idle", !.refresh = FALSE,
                                       !.preview = 0]
    /\ UNCHANGED <<states, cli, worker>>

-----------------------------------------------------------------------------
(* The runner: what it does is on the wire until the hub pumps.             *)

Alive == play.on /\ link.st \in {"starting", "ready"} /\ ~Died
Says(m) == Alive /\ m \notin wire /\ wire' = wire \union {m}
RunnerUp ==
    /\ link.st = "starting" /\ Says("up")
    /\ UNCHANGED <<turn, play, link, menu, rq, states, agreed, turbo, reel, cli, worker, clicks>>
RunnerFrame ==
    /\ link.frame /\ Says("frame")
    /\ UNCHANGED <<turn, play, link, menu, rq, states, agreed, turbo, reel, cli, worker, clicks>>
RunnerState(ok) ==
    /\ link.state \in {"save", "load"} /\ wire \intersect {"state", "refused"} = {}
    /\ Says(IF ok THEN "state" ELSE "refused")
    /\ states' = IF ok /\ link.state = "save" THEN [states EXCEPT ![rq.slot] = IF @ = 1 THEN 2 ELSE 1] ELSE states
    /\ UNCHANGED <<turn, play, link, menu, rq, agreed, turbo, reel, cli, worker, clicks>>
(* a recording has its file at once, and its seal when it is stopped        *)
RunnerReplay ==
    /\ link.asked # "none" /\ Says("replay")
    /\ reel' = IF link.asked = "start"
               THEN [reel EXCEPT !.files = @ \union {reel.made + 1}, !.made = @ + 1]
               ELSE [reel EXCEPT !.sealed = @ \union ({reel.made} \intersect reel.files)]
    /\ UNCHANGED <<turn, play, link, menu, rq, states, agreed, turbo, cli, worker, clicks>>
RunnerEnds ==
    /\ Says("end")
    /\ UNCHANGED <<turn, play, link, menu, rq, states, agreed, turbo, reel, cli, worker, clicks>>

-----------------------------------------------------------------------------
Loop ==
    \/ EventsDone \/ StartPending \/ Pump \/ NothingPlays \/ Turbo \/ ServiceReplays
    \/ ServiceStates \/ Grant \/ AskLaunch \/ Look \/ Decide \/ Drawn \/ Shutdown
Player ==
    \/ KeyMenu \/ KeyTab \/ KeyStates \/ (KeyRecord /\ (link.replay = "recording" \/ reel.made < MaxMovies)) \/ KeyTurbo
    \/ FocusLost \/ PadMenu \/ PadTurbo
    \/ \E p \in {"resume", "states", "replays", "close"} : Rail(p)
    \/ \E s \in Slots : PickSlot(s)
    \/ SaveSlot \/ LoadSlot \/ DeleteSlot \/ Confirm
    \/ \E i \in 1 .. MaxMovies : PickMovie(i)
    \/ PlayMovie \/ DeleteMovie \/ (RecordNew /\ reel.made < MaxMovies) \/ Back
RunnerAnswers ==
    \/ RunnerUp \/ RunnerFrame \/ \E ok \in BOOLEAN : RunnerState(ok) \/ RunnerReplay
Runner == RunnerAnswers \/ RunnerEnds
PlayNext == Loop \/ Player \/ Runner \/ Find \/ WorkerDone
PlayFair ==
    /\ WF_plVars(Loop) /\ WF_plVars(RunnerAnswers) /\ WF_plVars(Find) /\ WF_plVars(WorkerDone)
PlaySpec == PlayInit /\ [][PlayNext]_plVars /\ PlayFair

-----------------------------------------------------------------------------
(* The types, and: turbo holds vsync off only while it runs, whatever ends  *)
(* it, and in the one frame in which a replay's process takes its runner's  *)
(* place; and a request the runner has was asked by the browser             *)
(* (hub_play.cpp:442, 618 and 745).                                         *)
PlayTypeOK ==
    /\ turn \in {"events", "start", "tick", "pads", "replays", "states", "grant", "ask",
                 "look", "decide", "draw"}
    /\ link.st \in {"idle", "starting", "ready", "ended"}
    /\ link.st = "ready" /\ link.state # "none" => rq.at = "sent"
    /\ rq.at \in {"none", "asked", "waiting", "sent"} /\ rq.slot \in Slots \union {0}
    /\ menu.view \in Slots \union {0} /\ reel.view \in 0 .. Len(reel.cards)
    /\ reel.sealed \subseteq reel.files /\ reel.previews \subseteq reel.sealed
    /\ turn = "draw" /\ ~turbo.vsync => link.st = "ready" \/ link = Replaying

(* A save or a load that was asked comes to an end, whatever becomes of the  *)
(* runner: the browser is busy until then (hub_play.cpp:361 and 624).        *)
RequestSettles == rq.at # "none" ~> rq.at = "none"

(* A state or a replay is lost only after the player was asked about that    *)
(* one: not about the one whose card was there before the cards were made    *)
(* anew (hub_play.cpp:906 and 976).                                          *)
AskedFirst ==
    [][/\ \A f \in reel.files \ reel'.files : reel.ask = f
       /\ \A s \in Slots : states[s] # 0 /\ states'[s] # states[s] => s \in agreed']_plVars

(* A match is not paused: with the menu open its frames are still granted    *)
(* (hub_play.cpp:403 and 501).                                               *)
MatchRunsOn == (play.net /\ Ready /\ ~link.frame) ~> (link.frame \/ ~Ready)
=============================================================================
