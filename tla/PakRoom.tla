------------------------------- MODULE PakRoom -------------------------------
(***************************************************************************)
(* A Transfer Pak lobby (hub_netplay.cpp ingest, netplay_client.cpp): each *)
(* player's hub sends its pak through the lobby server to everyone in the  *)
(* room when the members it sees change, and a launch gives each seat the  *)
(* pak of the player in it.  The server is modelled from how the client    *)
(* reads it.                                                               *)
(***************************************************************************)
EXTENDS Naturals, Sequences, FiniteSets, FiniteSetsExt, Functions

CONSTANTS Players, Host,   \* the players; the one whose room it is
          Seats,           \* bound: seats of the room, 0..n
          MaxVer,          \* bound: saves a player brings
          MaxChanges       \* bound: joins, leaves, moves and damaged paks

ASSUME PakRoomAssumption ==
    Host \in Players /\ 0 \in Seats /\ Seats \subseteq Nat /\ MaxVer \in Nat

Nowhere == [p \in {} |-> 0]
NoPak == [seat |-> 0, ver |-> 0]

VARIABLES seated,   \* the server: players in the room and their seats
          mail,    \* what it sent each player's hub
          members,  \* the hub's snapshot: members and seats, Nowhere outside
          signals,  \* and the signals received, oldest first
          launched,   \* and the seats of a launch not handled yet
          ver,      \* the page: the save taken for this room, 0 before
          sentTo,   \* the members it was last sent to, in order of seat
          paks,     \* the paks it holds
          hurt,     \* whose last pak came to the host damaged
          match,    \* what the launch put into each seat: who, of whose, which
          changes

prVars == <<seated, mail, members, signals, launched, ver, sentTo, paks, hurt,
            match, changes>>

(* The members in the order of their seats, as the set of ordered pairs.   *)
Order(m) == {e \in (DOMAIN m) \X (DOMAIN m) : m[e[1]] <= m[e[2]]}
Tell(who, m) == [p \in Players |-> IF p \in who THEN Append(mail[p], m)
                                   ELSE mail[p]]
RoomMsg(m) == [op |-> "room", members |-> m]
PakMsg(p, s, v) == [op |-> "pak", from |-> p, seat |-> s, ver |-> v]

PakRoomInit ==
    /\ seated = [p \in {Host} |-> 0] /\ members = [p \in Players |-> IF p = Host THEN seated ELSE Nowhere]
    /\ mail = [p \in Players |-> <<>>] /\ signals = mail
    /\ launched = [p \in Players |-> Nowhere] /\ match = launched
    /\ ver = [p \in Players |-> 0] /\ sentTo = [p \in Players |-> {}]
    /\ paks = [p \in Players |-> [q \in Players |-> NoPak]]
    /\ hurt = {} /\ changes = 0

Reseat(m) ==
    /\ changes < MaxChanges /\ changes' = changes + 1
    /\ seated' = m
    /\ UNCHANGED <<members, signals, launched, ver, sentTo, paks, hurt, match>>
Free == Seats \ Range(seated)

LeaveFrameDue(p) ==
    /\ members[p] = Nowhere /\ paks[p] # [q \in Players |-> NoPak]

(* Joining takes a page that shows no room, and no seat.                   *)
JoinSeat(p) ==
    /\ p \notin DOMAIN seated /\ mail[p] = <<>>
    /\ members[p] = Nowhere /\ ~LeaveFrameDue(p)
    /\ \E s \in Free :
         /\ \A t \in Free : s <= t
         /\ LET m == [q \in DOMAIN seated \union {p} |-> IF q = p THEN s ELSE seated[q]] IN
            Reseat(m) /\ mail' = Tell(DOMAIN m, RoomMsg(m))
LeaveSeat(p) ==
    /\ p \in DOMAIN seated \ {Host} /\ members[p] # Nowhere
    /\ LET m == Restrict(seated, DOMAIN seated \ {p}) IN
       /\ Reseat(m)
       /\ mail' = [Tell(DOMAIN m, RoomMsg(m))
                      EXCEPT ![p] = Append(mail[p], RoomMsg(Nowhere))]
SeatMove(p, s) ==
    /\ p \in DOMAIN seated /\ members[p] # Nowhere /\ s \in Free
    /\ LET m == [seated EXCEPT ![p] = s] IN
       Reseat(m) /\ mail' = Tell(DOMAIN m, RoomMsg(m))

(* The worker of p takes a message from the server.                        *)
(* Mutant of KeptSignals. *)
ClearedByUpdates(p, m) ==
    CASE m.op = "pak" -> Append(signals[p], m)
      [] m.op = "room" -> <<>>
      [] OTHER -> signals[p]
KeptSignals(p, m) ==
    CASE m.op = "pak" -> Append(signals[p], m)
      [] m = RoomMsg(Nowhere) -> <<>>
      [] OTHER -> signals[p]
Handle(p) ==
    /\ mail[p] # <<>>
    /\ LET m == Head(mail[p]) IN
       /\ mail' = [mail EXCEPT ![p] = Tail(@)]
       /\ members' = IF m.op = "room" THEN [members EXCEPT ![p] = m.members]
                     ELSE members
       /\ signals' = [signals EXCEPT ![p] = KeptSignals(p, m)]
       /\ launched' = IF m.op = "launch" THEN [launched EXCEPT ![p] = m.slots]
                    ELSE IF members'[p] = Nowhere THEN [launched EXCEPT ![p] = Nowhere]
                    ELSE launched
    /\ UNCHANGED <<seated, ver, sentTo, paks, hurt, match, changes>>

(* A frame of the page of p outside the room: the exchange is forgotten.   *)
(* Mutant of ForgetRoom. *)
ForgetAllButMembers(p) ==
    /\ paks' = [paks EXCEPT ![p] = [q \in Players |-> NoPak]]
    /\ ver' = [ver EXCEPT ![p] = 0]
    /\ UNCHANGED sentTo
ForgetRoom(p) ==
    /\ paks' = [paks EXCEPT ![p] = [q \in Players |-> NoPak]]
    /\ sentTo' = [sentTo EXCEPT ![p] = {}]
    /\ ver' = [ver EXCEPT ![p] = 0]
LeaveFrame(p) ==
    /\ LeaveFrameDue(p)
    /\ ForgetRoom(p)
    /\ UNCHANGED <<seated, mail, members, signals, launched, hurt, match, changes>>

(* A frame in the room: the pak is taken once, sent when the members       *)
(* change, and what arrived is kept by player; a later arrival replaces an *)
(* earlier one.                                                            *)
Received(held, ms) ==
    [q \in Players |->
       LET of == {i \in DOMAIN ms : ms[i].from = q}
       IN IF of = {} THEN held[q] ELSE [seat |-> ms[Max(of)].seat, ver |-> ms[Max(of)].ver]]
Resends(p) == Order(members[p]) # sentTo[p]
Exchange(p, v) ==
    /\ ver' = [ver EXCEPT ![p] = v]
    /\ sentTo' = IF Resends(p) THEN [sentTo EXCEPT ![p] = Order(members[p])] ELSE sentTo
    /\ mail' = IF Resends(p) /\ p \in DOMAIN seated
                THEN Tell(DOMAIN seated \ {p}, PakMsg(p, members[p][p], v)) ELSE mail
    /\ paks' = [paks EXCEPT ![p] =
          Received(IF Resends(p)
                   THEN [@ EXCEPT ![p] = [seat |-> members[p][p], ver |-> v]]
                   ELSE @, signals[p])]
    /\ hurt' = IF Resends(p) THEN hurt \ {p} ELSE hurt
    /\ signals' = [signals EXCEPT ![p] = <<>>]
(* A pak that does not match its digest is dropped, and the page sends its *)
(* own again: the sender is not asked.                                     *)
From(ms, q) == {i \in DOMAIN ms : ms[i].op = "pak" /\ ms[i].from = q}
Damaged(p) ==
    /\ p \in DOMAIN members[p] /\ ver[p] > 0 /\ signals[p] # <<>>
    /\ changes < MaxChanges /\ changes' = changes + 1
    /\ LET q == Head(signals[p]).from IN
       hurt' = IF p = Host /\ From(Tail(signals[p]), q) \union From(mail[p], q) = {}
               THEN hurt \union {q} ELSE hurt
    /\ signals' = [signals EXCEPT ![p] = Tail(@)]
    /\ sentTo' = [sentTo EXCEPT ![p] = {}]
    /\ UNCHANGED <<seated, mail, members, launched, ver, paks, match>>
(* A launch fills the seats from the paks held, by player.                 *)
Filled(p, held) ==
    LET at(s) == {q \in Players : held[q].ver > 0 /\ held[q].seat = s}
    IN [s \in Seats |-> IF at(s) = {} THEN [who |-> Host, ver |-> 0]
                        ELSE [who |-> Max(at(s)), ver |-> held[Max(at(s))].ver]]
StartMatch(p) ==
    /\ match' = IF launched[p] = Nowhere THEN match
                ELSE [match EXCEPT ![p] = [slots |-> launched[p], filled |-> Filled(p, paks'[p])]]
    /\ launched' = [launched EXCEPT ![p] = Nowhere]
RoomFrameDue(p) ==
    /\ p \in DOMAIN members[p]
    /\ ver[p] = 0 \/ Resends(p) \/ signals[p] # <<>> \/ launched[p] # Nowhere
RoomFrame(p) ==
    /\ RoomFrameDue(p)
    /\ \E v \in IF ver[p] > 0 THEN {ver[p]} ELSE 1..MaxVer : Exchange(p, v)
    /\ StartMatch(p)
    /\ UNCHANGED <<seated, members, changes>>

(* PLAY waits until the host has a pak of every member it sees.            *)
Missing(p) == {q \in DOMAIN members[p] : paks[p][q].ver = 0}
PaksComplete(p) == Missing(p) = {}
Play ==
    /\ Cardinality(DOMAIN members[Host]) > 1 /\ PaksComplete(Host)
    /\ match = [p \in Players |-> Nowhere] /\ launched = match
    /\ \A p \in Players : \A i \in DOMAIN mail[p] : mail[p][i].op # "launch"
    /\ mail' = Tell(DOMAIN seated, [op |-> "launch", slots |-> seated])
    /\ UNCHANGED <<seated, members, signals, launched, ver, sentTo, paks, hurt, match,
                   changes>>

PakRoomNext ==
    \/ \E p \in Players : \/ JoinSeat(p) \/ LeaveSeat(p) \/ Handle(p)
                          \/ LeaveFrame(p) \/ RoomFrame(p) \/ Damaged(p)
                          \/ \E s \in Seats : SeatMove(p, s)
    \/ Play
PakRoomFair ==
    \A p \in Players : /\ WF_prVars(Handle(p))
                       /\ WF_prVars(RoomFrame(p)) /\ WF_prVars(LeaveFrame(p))
PakRoomSpec == PakRoomInit /\ [][PakRoomNext]_prVars /\ PakRoomFair

----------------------------------------------------------------------------
PakRoomTypeOK ==
    /\ DOMAIN seated \subseteq Players /\ Range(seated) \subseteq Seats
    /\ hurt \subseteq Players
    /\ \A p \in Players :
         /\ DOMAIN members[p] \subseteq Players
         /\ ver[p] \in 0..MaxVer
         /\ \A q \in Players : paks[p][q] \in [seat : Seats, ver : 0..MaxVer]

Settled == \A p \in Players :
    /\ mail[p] = <<>> /\ ~RoomFrameDue(p) /\ ~LeaveFrameDue(p)

(* When nothing is in flight the host holds the save every member took for *)
(* this room, also of one who left and came back with another              *)
(* (hub_netplay.cpp:3080-3165): what PLAY then starts is not an old save.  *)
(* A pak that came damaged is missed until its player sends it again.      *)
HostHoldsAll ==
    Settled => \A q \in DOMAIN seated \ hurt : paks[Host][q].ver = ver[q]

(* PLAY is held back for ever only by a player whose pak came damaged: the *)
(* host sends its own again, and nothing asks for the other's              *)
(* (hub_netplay.cpp:1381-1386, 3087-3126).  Once people stop coming and    *)
(* going the host has everyone else's.                                     *)
PlayOpens == <>[](Missing(Host) \subseteq hurt)
=============================================================================
