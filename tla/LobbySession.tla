---------------------------- MODULE LobbySession ----------------------------
(***************************************************************************)
(* One hub on the lobby server: the Netplay page (hub_netplay.cpp), the    *)
(* lobby client's worker thread (netplay_client.cpp) and the sign-in       *)
(* thread (hub_netplay.cpp Account).  The page works on a copy of the      *)
(* worker's snapshot, taken when a frame begins.  The server is modelled   *)
(* from how the client reads it.                                           *)
(***************************************************************************)
EXTENDS Naturals, Sequences, SequencesExt

CONSTANTS Rooms,      \* rooms of the server; each is of a game of its own
          Handoff,    \* those whose game takes a match from the hub
          MaxClicks,  \* bound: what the user does
          MaxConns    \* bound: connections

NoRoom == 0
ASSUME LobbySessionAssumption ==
    /\ NoRoom \notin Rooms /\ Handoff \subseteq Rooms
    /\ MaxConns \in Nat \ {0} /\ MaxClicks \in Nat

VARIABLES conn,     \* the client: "off", "connecting", "on" or "ended"
          epoch,    \* which connection it is
          out,      \* commands queued for the worker
          inbox,    \* messages the server sent on this connection
          room,     \* the worker's snapshot: the room, and whether it may launch
          launch,
          seat,     \* the server: the room this hub has a seat in
          page,     \* "idle" between frames, "read" inside one
          shown,    \* the page's copy of room
          called,   \* and of launch
          wasIn,    \* the page's was_in_room
          lib,      \* the game prepared: of which room
          identity, \* and its query: "none", "asking" or "known"
          pending,  \* the room waiting for it,
          heldIn,   \* since which connection
          all,      \* the page shows every game's rooms
          dirty,    \* a room has narrowed the connection to its game
          account,  \* "guest", "waiting" or "signed"
          signed,   \* the connection carried a session
          clicks

clientVars == <<conn, epoch, out, inbox, room, launch, seat>>
pageVars == <<page, shown, called, wasIn>>
libVars == <<lib, identity, pending, heldIn>>
scopeVars == <<all, dirty, signed>>
lsVars == <<clientVars, pageVars, libVars, scopeVars, account, clicks>>

LobbySessionInit ==
    /\ conn = "off" /\ epoch = 0 /\ out = <<>> /\ inbox = <<>>
    /\ room = NoRoom /\ launch = FALSE /\ seat = NoRoom
    /\ page = "idle" /\ shown = NoRoom /\ called = FALSE /\ wasIn = FALSE
    /\ lib = NoRoom /\ identity = "none" /\ pending = NoRoom
    /\ heldIn = 0 /\ all = TRUE /\ dirty = FALSE
    /\ account = "guest" /\ signed = FALSE /\ clicks = 0

(* A command remembers the connection of the click that asked for it.      *)
Cmd(op, r, e) == [op |-> op, room |-> r, asked |-> e]
Queue(op, r, e) == out' = Append(out, Cmd(op, r, e))

(***************************************************************************)
(* The lobby client                                                        *)
(***************************************************************************)
(* start(): the old worker is joined, and leaves its room on the way out;  *)
(* what it did not send is forgotten.                                      *)
Start ==
    /\ epoch < MaxConns /\ epoch' = epoch + 1
    /\ conn' = "connecting" /\ out' = <<>> /\ inbox' = <<>>
    /\ room' = NoRoom /\ launch' = FALSE /\ seat' = NoRoom
Connect == Start /\ signed' = (account' = "signed") /\ dirty' = FALSE

Connected(ok) ==
    /\ conn = "connecting"
    /\ conn' = IF ok THEN "on" ELSE "ended"
    /\ UNCHANGED <<epoch, out, inbox, room, launch, seat, pageVars, libVars,
                   scopeVars, account, clicks>>

(* The server seats a player who has no seat, and answers a leave.         *)
Reply(c) ==
    CASE c.op = "join" /\ seat = NoRoom -> [seat |-> c.room, msg |-> "joined"]
      [] c.op = "leave" /\ seat # NoRoom -> [seat |-> NoRoom, msg |-> "closed"]
      [] OTHER -> [seat |-> seat, msg |-> "error"]
Send ==
    /\ conn = "on" /\ out # <<>>
    /\ LET r == Reply(Head(out)) IN
       /\ seat' = r.seat
       /\ inbox' = Append(inbox, [op |-> r.msg, room |-> r.seat])
    /\ out' = Tail(out)
    /\ UNCHANGED <<conn, epoch, room, launch, pageVars, libVars, scopeVars,
                   account, clicks>>

(* The host of the room starts the match, or closes the room.              *)
HostActs(op) ==
    /\ conn = "on" /\ seat # NoRoom
    /\ \A i \in DOMAIN inbox : inbox[i].op # "launch"
    /\ seat' = IF op = "closed" THEN NoRoom ELSE seat
    /\ inbox' = Append(inbox, [op |-> op, room |-> seat])
    /\ UNCHANGED <<conn, epoch, out, room, launch, pageVars, libVars, scopeVars,
                   account>>

Handled(m) ==
    CASE m.op = "joined" -> [room |-> m.room, launch |-> FALSE]
      [] m.op = "closed" -> [room |-> NoRoom, launch |-> FALSE]
      [] m.op = "launch" -> [room |-> room, launch |-> TRUE]
      [] OTHER -> [room |-> room, launch |-> launch]
Receive ==
    /\ conn = "on" /\ inbox # <<>>
    /\ room' = Handled(Head(inbox)).room
    /\ launch' = Handled(Head(inbox)).launch
    /\ inbox' = Tail(inbox)
    /\ UNCHANGED <<conn, epoch, out, seat, pageVars, libVars, scopeVars, account,
                   clicks>>

(* The connection is lost: the worker ends, the server drops the seat.     *)
Lost ==
    /\ conn = "on"
    /\ conn' = "ended" /\ room' = NoRoom /\ launch' = FALSE
    /\ seat' = NoRoom /\ inbox' = <<>>
    /\ UNCHANGED <<epoch, out, pageVars, libVars, scopeVars, account>>

(***************************************************************************)
(* The sign-in thread                                                      *)
(***************************************************************************)
SignIn ==
    /\ account = "guest"
    /\ account' = "waiting"
    /\ UNCHANGED <<clientVars, pageVars, libVars, scopeVars>>
SignInEnds(ok) ==
    /\ account = "waiting"
    /\ account' = IF ok THEN "signed" ELSE "guest"
    /\ UNCHANGED <<clientVars, pageVars, libVars, scopeVars, clicks>>

(***************************************************************************)
(* The page: the buttons that connect again, pressed out of a room         *)
(***************************************************************************)
Browsing == page = "idle" /\ ~wasIn
EnterOnline ==
    /\ conn = "off" \/ signed # (account = "signed")
    /\ UNCHANGED <<account, all>> /\ Connect
SignOut ==
    /\ account = "signed" /\ account' = "guest"
    /\ UNCHANGED all
    /\ IF conn = "off" THEN UNCHANGED <<clientVars, signed, dirty>> ELSE Connect
(* Retry and Reconnect also sign in again with a stored key; Refresh does  *)
(* not.                                                                    *)
Retry ==
    /\ conn \in {"connecting", "ended"}
    /\ account' \in {account, "waiting"}
    /\ UNCHANGED all /\ Connect
SaveUrl == account' \in {"guest", "waiting"} /\ UNCHANGED all /\ Connect
(* A connection can be narrowed to a game, never widened again.            *)
SetFilter ==
    /\ conn # "off" /\ all' = ~all
    /\ UNCHANGED account
    /\ IF all' THEN Connect ELSE UNCHANGED <<clientVars, signed, dirty>>
Reconnect ==
    /\ Browsing
    /\ EnterOnline \/ SignOut \/ Retry \/ SaveUrl \/ SetFilter
    /\ UNCHANGED <<pageVars, libVars>>

(***************************************************************************)
(* The page: a frame                                                       *)
(***************************************************************************)
(* The snapshot is copied ...                                              *)
Snapshot ==
    /\ page = "idle"
    /\ page' = "read" /\ shown' = room /\ called' = launch
    /\ UNCHANGED <<clientVars, wasIn, libVars, scopeVars, account, clicks>>

(* ... a seat whose game has said how it joins is asked for, on whatever   *)
(* connection there is; a launch starts the game prepared ...              *)
Answered == identity = "known" /\ pending # NoRoom
Held == IF Answered THEN <<NoRoom, 0>> ELSE <<pending, heldIn>>
SendPending ==
    IF Answered
    THEN Queue("join", pending, heldIn) /\ dirty' = (dirty \/ all)
    ELSE UNCHANGED <<out, dirty>>
AckLaunch == launch' = FALSE

(* ... a connection made as a guest is made again, out of a room, and so   *)
(* is one a room had narrowed, once it is left.                            *)
SignsIn == ~signed /\ account = "signed" /\ conn # "off" /\ shown = NoRoom
Widens == wasIn /\ shown = NoRoom /\ all /\ (dirty \/ Answered)
FrameEnds ==
    /\ page = "read" /\ page' = "idle" /\ wasIn' = (shown # NoRoom)
    /\ UNCHANGED <<shown, called, lib, identity, all, account, clicks>>
    /\ pending' = Held[1] /\ heldIn' = Held[2]
    /\ IF (SignsIn \/ Widens) /\ epoch < MaxConns
       THEN Connect
       ELSE /\ SendPending
            /\ IF called THEN AckLaunch ELSE UNCHANGED launch
            /\ UNCHANGED <<conn, epoch, inbox, room, seat, signed>>

(***************************************************************************)
(* The page: seats                                                         *)
(***************************************************************************)
(* A click on Join, on a page that shows no room (begin_seat).             *)
(* Mutant of Join: the answer awaited is not forgotten with its game. *)
JoinKeepsQuestion(r) ==
    /\ Browsing /\ conn \in {"connecting", "on"}
    /\ lib' = r
    /\ IF r \in Handoff
       THEN /\ pending' = r /\ heldIn' = epoch /\ identity' = "asking"
            /\ UNCHANGED <<out, dirty>>
       ELSE /\ Queue("join", r, epoch) /\ dirty' = (dirty \/ all)
            /\ UNCHANGED <<pending, heldIn, identity>>
    /\ UNCHANGED <<conn, epoch, inbox, room, launch, seat, pageVars, all, signed,
                   account>>
Join(r) ==
    /\ Browsing /\ conn \in {"connecting", "on"}
    /\ lib' = r
    /\ IF r \in Handoff
       THEN /\ pending' = r /\ heldIn' = epoch /\ identity' = "asking"
            /\ UNCHANGED <<out, dirty>>
       ELSE /\ Queue("join", r, epoch) /\ dirty' = (dirty \/ all)
            /\ identity' = "none" /\ UNCHANGED <<pending, heldIn>>
    /\ UNCHANGED <<conn, epoch, inbox, room, launch, seat, pageVars, all, signed,
                   account>>
IdentityKnown(ok) ==
    /\ identity = "asking" /\ page = "idle"
    /\ identity' = IF ok THEN "known" ELSE "none"
    /\ IF ok THEN UNCHANGED <<pending, heldIn>> ELSE pending' = NoRoom /\ heldIn' = 0
    /\ UNCHANGED <<clientVars, pageVars, lib, scopeVars, account, clicks>>
Leave ==
    /\ page = "idle" /\ wasIn
    /\ Queue("leave", NoRoom, epoch)
    /\ UNCHANGED <<conn, epoch, inbox, room, launch, seat, pageVars, libVars,
                   scopeVars, account>>

Click ==
    /\ clicks < MaxClicks /\ clicks' = clicks + 1
    /\ \/ Reconnect \/ Leave \/ SignIn \/ Lost
       \/ \E r \in Rooms : Join(r)
       \/ \E op \in {"launch", "closed"} : HostActs(op)
LobbySessionNext ==
    \/ Click \/ Send \/ Receive \/ Snapshot \/ FrameEnds
    \/ \E ok \in BOOLEAN : Connected(ok) \/ SignInEnds(ok) \/ IdentityKnown(ok)
LobbySessionFair ==
    /\ WF_lsVars(\E ok \in BOOLEAN : Connected(ok)) /\ WF_lsVars(Send)
    /\ WF_lsVars(Receive) /\ WF_lsVars(Snapshot) /\ WF_lsVars(FrameEnds)
    /\ WF_lsVars(\E ok \in BOOLEAN : IdentityKnown(ok))
LobbySessionSpec == LobbySessionInit /\ [][LobbySessionNext]_lsVars /\ LobbySessionFair

----------------------------------------------------------------------------
LobbySessionTypeOK ==
    /\ conn \in {"off", "connecting", "on", "ended"} /\ epoch \in 0..MaxConns
    /\ {room, seat, shown, lib, pending} \subseteq Rooms \union {NoRoom}
    /\ heldIn \in 0..epoch
    /\ {launch, called, wasIn, signed, all, dirty} \subseteq BOOLEAN
    /\ page \in {"idle", "read"} /\ identity \in {"none", "asking", "known"}
    /\ account \in {"guest", "waiting", "signed"} /\ clicks \in 0..MaxClicks

(* What a click asked of one connection is not sent on the next, except    *)
(* one seat: that of a game that takes its match from the hub, asked for   *)
(* while the page connected again (netplay_client.cpp:45-60; the seat is   *)
(* held by hub_netplay.cpp:950 and sent at 2943-2945).  Proved for what    *)
(* SeatsArePrepared rests on, not a property of a run.                     *)
OldCommands == {i \in DOMAIN out : out[i].asked # epoch}
NoOldCommands ==
    \A i, j \in OldCommands :
        i = j /\ out[i].op = "join" /\ out[i].room \in Handoff

(* A seat is asked for only in a room of the game prepared at the time,    *)
(* and of a game that takes its match from the hub only after it answered: *)
(* a seat held for one game is not sent once another is clicked            *)
(* (hub_netplay.cpp:939-952, 2938-2945).                                   *)
SeatsArePrepared ==
    [][Len(out') > Len(out) /\ Last(out').op = "join"
       => /\ Last(out').room = lib'
          /\ lib' \in Handoff => identity = "known"]_lsVars

(* hub_netplay.cpp:3206: "Signed in after connecting as a guest: connect   *)
(* again as the account, but never out from under a seat."                 *)
NeverUnseats ==
    [][page = "read" /\ ~signed /\ signed' => room = NoRoom]_lsVars
=============================================================================
