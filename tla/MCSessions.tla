----------------------------- MODULE MCSessions -----------------------------
(***************************************************************************)
(* One behaviour runs one of the protocols between the hub and others: the *)
(* lobby server, a Transfer Pak room, the host's port, the local network   *)
(* and the script that replaces the launcher.  They share no state; one    *)
(* that is not chosen is in a state in which nothing happens.              *)
(***************************************************************************)
EXTENDS SelfUpdate, PakRoom, LobbySession, HostRelay, LanBrowser

VARIABLE protocol
sessionVars == <<protocol, suVars, prVars, lsVars, hoVars, lbVars>>
Chosen(p) == protocol = p

MCAddress(r) == IF r = 4 THEN 2 ELSE 1

EmptyPakRoom ==
    /\ seated = Nowhere /\ members = [p \in Players |-> Nowhere]
    /\ mail = [p \in Players |-> <<>>] /\ signals = mail
    /\ sentTo = [p \in Players |-> {}]
    /\ launched = members /\ match = members
    /\ ver = [p \in Players |-> 0] /\ hurt = {} /\ changes = 0
    /\ paks = [p \in Players |-> [q \in Players |-> NoPak]]
NoFrames ==
    /\ conn = "off" /\ epoch = 0 /\ out = <<>> /\ inbox = <<>>
    /\ room = NoRoom /\ launch = FALSE /\ seat = NoRoom
    /\ page = "none" /\ shown = NoRoom /\ called = FALSE /\ wasIn = FALSE
    /\ lib = NoRoom /\ identity = "none" /\ pending = NoRoom
    /\ heldIn = 0 /\ all = TRUE /\ dirty = FALSE
    /\ account = "guest" /\ signed = FALSE /\ clicks = 0
SessionsInit ==
    /\ protocol \in {"update", "paks", "lobby", "relay", "lan"}
    /\ SelfUpdateInit
    /\ Chosen("update") \/ channel = "setup"
    /\ IF Chosen("paks") THEN PakRoomInit ELSE EmptyPakRoom
    /\ IF Chosen("lobby") THEN LobbySessionInit ELSE NoFrames
    /\ HostRelayInit
    /\ Chosen("relay") \/ reach = {}
    /\ LanBrowserInit
SessionsNext ==
    \/ /\ Chosen("update") /\ SelfUpdateNext
       /\ UNCHANGED <<protocol, prVars, lsVars, hoVars, lbVars>>
    \/ /\ Chosen("paks") /\ PakRoomNext
       /\ UNCHANGED <<protocol, suVars, lsVars, hoVars, lbVars>>
    \/ /\ Chosen("lobby") /\ LobbySessionNext
       /\ UNCHANGED <<protocol, suVars, prVars, hoVars, lbVars>>
    \/ /\ Chosen("relay") /\ HostRelayNext
       /\ UNCHANGED <<protocol, suVars, prVars, lsVars, lbVars>>
    \/ /\ Chosen("lan") /\ LanBrowserNext
       /\ UNCHANGED <<protocol, suVars, prVars, lsVars, hoVars>>
SessionsSpec ==
    /\ SessionsInit /\ [][SessionsNext]_sessionVars
    /\ SelfUpdateFair /\ PakRoomFair /\ LobbySessionFair /\ HostRelayFair
    /\ LanBrowserFair

(* Every protocol's state keeps its types.                                 *)
SessionsTypeOK ==
    /\ SelfUpdateTypeOK /\ PakRoomTypeOK /\ HostRelayTypeOK /\ LanBrowserTypeOK
    /\ Chosen("lobby") => LobbySessionTypeOK
=============================================================================
