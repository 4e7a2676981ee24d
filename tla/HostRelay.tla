------------------------------ MODULE HostRelay ------------------------------
(***************************************************************************)
(* Host relay lobbies (hub_netplay.cpp ingest, netplay_nat.cpp): the host  *)
(* holds a UDP port, asks its router to forward it and names its address;  *)
(* a guest probes the address and tells the server whether it answers.     *)
(* When the match starts the host's runner takes the port over.            *)
(***************************************************************************)
EXTENDS Naturals, FiniteSets

CONSTANTS HostedRooms, GuestRooms,  \* rooms this hub hosts, and joins
          Address(_),      \* the address of the host of a guest room
          Ports,           \* UDP ports 7777-7808
          MaxRooms         \* bound: rooms entered

NoLobby == 0
NoPort == 0
NoAddress == 0
Lobbies == HostedRooms \union GuestRooms
Addresses == {Address(r) : r \in GuestRooms}

VARIABLES lobby,     \* the room of the worker's snapshot
          away,      \* the page drew a frame out of a room
          open,      \* the page thinks it holds the port
          port,      \* the socket's port
          router,    \* ports the router forwards here
          mapped,    \* the one HostPort would take back
          asked,     \* HostPort's worker: "no", "asking", "done"
          named,     \* the address was sent to the server
          runner,    \* the port a match's runner has bound
          reach,     \* addresses that answer
          probed,    \* the last address probed
          probe,     \* the one being probed
          verdict,   \* what the server was told for the room: of which address
          entered

hoVars == <<lobby, away, open, port, router, mapped, asked, named, runner, reach, probed,
            probe, verdict, entered>>

HostRelayInit ==
    /\ lobby = NoLobby /\ away = TRUE /\ open = FALSE /\ port = NoPort /\ router = {}
    /\ mapped = NoPort /\ asked = "no" /\ named = FALSE /\ runner = NoPort
    /\ reach \in SUBSET Addresses
    /\ probed = NoAddress /\ probe = NoAddress
    /\ verdict = [of |-> NoAddress, ok |-> FALSE] /\ entered = 0

Enter(r) ==
    /\ lobby = NoLobby /\ away /\ entered < MaxRooms
    /\ lobby' = r /\ away' = FALSE /\ entered' = entered + 1
    /\ verdict' = [of |-> NoAddress, ok |-> FALSE]
    /\ UNCHANGED <<open, port, router, mapped, asked, named, runner, reach, probed, probe>>
LeaveRoom ==
    /\ lobby # NoLobby
    /\ lobby' = NoLobby
    /\ UNCHANGED <<away, open, port, router, mapped, asked, named, runner, reach, probed,
                   probe, verdict, entered>>

(* The host: a port is opened unless a match runs, the router is asked to  *)
(* forward it, and what came of that is named to the server.               *)
OpenPort(p) ==
    /\ lobby \in HostedRooms /\ ~open /\ runner = NoPort
    /\ open' = TRUE /\ port' = p /\ asked' = "asking" /\ named' = FALSE
    /\ UNCHANGED <<lobby, away, router, mapped, runner, reach, probed, probe, verdict, entered>>
RouterAnswers(forwards) ==
    /\ asked = "asking"
    /\ asked' = "done"
    /\ router' = IF forwards THEN router \union {port} ELSE router
    /\ mapped' = IF forwards THEN port ELSE mapped
    /\ UNCHANGED <<lobby, away, open, port, named, runner, reach, probed, probe, verdict, entered>>
NameAddress ==
    /\ lobby \in HostedRooms /\ open /\ asked = "done" /\ ~named
    /\ named' = TRUE
    /\ UNCHANGED <<lobby, away, open, port, router, mapped, asked, runner, reach, probed,
                   probe, verdict, entered>>

(* stop() joins HostPort's threads and closes its socket.                  *)
(* Mutant of StopPort. *)
StopAskingOnly == asked' = "no" /\ UNCHANGED port
StopPort == port' = NoPort /\ asked' = "no"
(* A launch frees the port before anything else, also one that then fails. *)
LaunchAsHost(ok) ==
    /\ lobby \in HostedRooms /\ open /\ runner = NoPort /\ asked # "asking"
    /\ StopPort /\ open' = FALSE
    /\ runner' = IF ok THEN port ELSE NoPort
    /\ UNCHANGED <<lobby, away, router, mapped, named, reach, probed, probe, verdict, entered>>
RunnerEnds ==
    /\ runner # NoPort
    /\ runner' = NoPort
    /\ UNCHANGED <<lobby, away, open, port, router, mapped, asked, named, reach, probed, probe,
                   verdict, entered>>

(* A frame out of the room: the port is closed and the mapping taken back. *)
ForgetHost == probed' = NoAddress
GiveBack ==
    /\ lobby = NoLobby /\ ~away /\ asked # "asking"
    /\ away' = TRUE
    /\ IF open \/ probed # NoAddress
       THEN /\ StopPort /\ open' = FALSE /\ ForgetHost
            /\ router' = router \ {mapped} /\ mapped' = NoPort
       ELSE UNCHANGED <<port, asked, open, probed, router, mapped>>
    /\ UNCHANGED <<lobby, named, runner, reach, probe, verdict, entered>>

(* A guest: one probe at a time; its result goes to the room of the moment *)
(* it is ready in, which may be another one.                               *)
ProbeHost ==
    /\ lobby \in GuestRooms /\ probe = NoAddress /\ Address(lobby) # probed
    /\ probed' = Address(lobby) /\ probe' = Address(lobby)
    /\ UNCHANGED <<lobby, away, open, port, router, mapped, asked, named, runner, reach,
                   verdict, entered>>
ProbeEnds ==
    /\ probe # NoAddress
    /\ probe' = NoAddress
    /\ verdict' = IF lobby \in GuestRooms THEN [of |-> probe, ok |-> probe \in reach]
                  ELSE verdict
    /\ UNCHANGED <<lobby, away, open, port, router, mapped, asked, named, runner, reach, probed,
                   entered>>

HostRelayNext ==
    \/ \E r \in Lobbies : Enter(r)
    \/ \E p \in Ports \ {runner} : OpenPort(p)
    \/ \E yes \in BOOLEAN : RouterAnswers(yes) \/ LaunchAsHost(yes)
    \/ LeaveRoom \/ NameAddress \/ RunnerEnds \/ GiveBack
    \/ ProbeHost \/ ProbeEnds
HostRelayFair ==
    /\ WF_hoVars(GiveBack) /\ WF_hoVars(ProbeHost) /\ WF_hoVars(ProbeEnds)
HostRelaySpec == HostRelayInit /\ [][HostRelayNext]_hoVars /\ HostRelayFair

----------------------------------------------------------------------------
HostRelayTypeOK ==
    /\ lobby \in Lobbies \union {NoLobby} /\ {away, open, named} \subseteq BOOLEAN
    /\ {port, mapped, runner} \subseteq Ports \union {NoPort}
    /\ router \subseteq Ports /\ asked \in {"no", "asking", "done"}
    /\ {probed, probe, verdict.of} \subseteq Addresses \union {NoAddress}

(* The runner of a match binds the port the room was given, so the hub    *)
(* has let it go and takes none while the match runs.                      *)
PortIsTheRunners == runner # NoPort => port = NoPort
=============================================================================
