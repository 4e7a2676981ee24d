----------------------------- MODULE LanBrowser -----------------------------
(***************************************************************************)
(* Rooms on the local network (netplay_lan.cpp): a worker listens for      *)
(* announcements, asks every few seconds who is there, expires rooms that  *)
(* fell silent, and asks one address when the Direct IP page says so.  A   *)
(* room is named by its host's address.  Packets may be lost.              *)
(***************************************************************************)
EXTENDS Naturals, FiniteSets

CONSTANTS Hosts,      \* addresses that may hold a PlayStation room, and answer
          Near,       \* those of them that the broadcast reaches
          Announcers, \* addresses that may hold a recomp-net room, and announce
          Mute,       \* addresses that never answer
          MaxProbes,  \* bound: addresses looked up
          MaxOpens   \* bound: rooms opened and closed

ASSUME LanBrowserAssumption == Near \subseteq Hosts

Nothing == "nothing"
Asked == Hosts \union Announcers \union Mute

VARIABLES up,        \* rooms that are open
          asks,      \* answers on their way to the browse socket
          lanRooms,  \* the worker's list
          direct,    \* those marked as having answered a Direct IP probe
          silent,    \* those not heard of since the time they may be silent
          last,      \* probe_: the last address looked up, pending, answered
          queued,    \* the address queued for the worker
          worker,    \* probe_ep: the address the worker asked last
          deadline,  \* its deadline: "none", "ahead" or "passed"
          reached,   \* the address asked last was open, and its one packet and
                     \* its answer were not lost
          looked, moved

lbVars == <<up, asks, lanRooms, direct, silent, last, queued, worker, deadline,
            reached, looked, moved>>

LanBrowserInit ==
    /\ up = {} /\ asks = {} /\ lanRooms = {} /\ direct = {} /\ silent = {}
    /\ last = [of |-> Nothing, pending |-> FALSE, answered |-> FALSE]
    /\ queued = Nothing /\ worker = Nothing /\ deadline = "none"
    /\ reached = FALSE /\ looked = 0 /\ moved = 0

OpenOrClose(h) ==
    /\ h \in Hosts \union Announcers /\ moved < MaxOpens
    /\ moved' = moved + 1
    /\ up' = IF h \in up THEN up \ {h} ELSE up \union {h}
    /\ UNCHANGED <<asks, lanRooms, direct, silent, last, queued, worker, deadline, reached,
                   looked>>

(* The Look Up button; also while an earlier address is asked.             *)
LookUp(a) ==
    /\ looked < MaxProbes
    /\ looked' = looked + 1
    /\ last' = [of |-> a, pending |-> TRUE, answered |-> FALSE]
    /\ queued' = a
    /\ UNCHANGED <<up, asks, lanRooms, direct, silent, worker, deadline, reached, moved>>

DeadlinePasses ==
    /\ deadline = "ahead"
    /\ deadline' = "passed"
    /\ UNCHANGED <<up, asks, lanRooms, direct, silent, last, queued, worker, reached, looked,
                   moved>>
(* A room is silent for its whole time: 5, 8 or 30 seconds.                *)
FallSilent(r) ==
    /\ r \in lanRooms \ (up \union silent)
    /\ silent' = silent \union {r}
    /\ UNCHANGED <<up, asks, lanRooms, direct, last, queued, worker, deadline, reached,
                   looked, moved>>

(* One turn of the worker's loop, under its lock: an address queued is     *)
(* taken, a probe whose deadline passed ends, silent rooms go.  The        *)
(* deadline looked at is still the one of the address asked before.        *)
Ends == last.pending /\ deadline = "passed"
(* Mutant of Expire. *)
ExpireRoomsOnly ==
    /\ lanRooms' = lanRooms \ silent
    /\ direct' = direct /\ silent' = {}
Expire ==
    /\ lanRooms' = lanRooms \ silent
    /\ direct' = direct \ silent /\ silent' = {}
Turn ==
    /\ queued # Nothing \/ Ends \/ silent # {}
    /\ last' = IF Ends THEN [last EXCEPT !.pending = FALSE] ELSE last
    /\ Expire
    /\ worker' = IF queued # Nothing THEN queued ELSE worker
    /\ deadline' = IF queued # Nothing THEN "ahead" ELSE IF Ends THEN "none" ELSE deadline
    /\ queued' = Nothing
    /\ reached' = IF queued # Nothing THEN queued \in up \cap Hosts ELSE reached
    /\ asks' = IF queued \in up \cap Hosts THEN asks \union {queued} ELSE asks
    /\ UNCHANGED <<up, looked, moved>>

(* BROWSE is broadcast every three seconds, to one address and a range of  *)
(* ports: the open rooms it reaches answer.                                *)
Browse ==
    /\ ~(up \cap Near \subseteq asks)
    /\ asks' = asks \union (up \cap Near)
    /\ UNCHANGED <<up, lanRooms, direct, silent, last, queued, worker, deadline,
                   reached, looked, moved>>
LosePacket(h) ==
    /\ h \in asks
    /\ asks' = asks \ {h}
    /\ reached' = (reached /\ h # worker)
    /\ UNCHANGED <<up, lanRooms, direct, silent, last, queued, worker, deadline,
                   looked, moved>>

(* upsert: the answer of the address asked last settles the probe shown.   *)
(* Mutant of Settle. *)
SettleOnlyPending(h) ==
    /\ last' = IF h = worker /\ last.pending
               THEN [last EXCEPT !.pending = FALSE, !.answered = TRUE] ELSE last
    /\ direct' = IF h = worker /\ last.pending THEN direct \union {h} ELSE direct
Settle(h) ==
    /\ last' = IF h = worker THEN [last EXCEPT !.pending = FALSE, !.answered = TRUE]
               ELSE last
    /\ direct' = IF h = worker THEN direct \union {h} ELSE direct
Beacon(h) ==
    /\ h \in asks
    /\ asks' = asks \ {h}
    /\ lanRooms' = lanRooms \union {h} /\ silent' = silent \ {h}
    /\ Settle(h)
    /\ UNCHANGED <<up, queued, worker, deadline, reached, looked, moved>>
HearAnnounce(h) ==
    /\ h \in up \cap Announcers /\ (h \notin lanRooms \/ h \in silent)
    /\ lanRooms' = lanRooms \union {h} /\ silent' = silent \ {h}
    /\ UNCHANGED <<up, asks, direct, last, queued, worker, deadline, reached,
                   looked, moved>>

LanBrowserNext ==
    \/ \E a \in Asked : LookUp(a) \/ OpenOrClose(a) \/ FallSilent(a)
                        \/ LosePacket(a) \/ Beacon(a) \/ HearAnnounce(a)
    \/ DeadlinePasses \/ Turn \/ Browse
(* The worker's loop turns, time goes on, and an answer given over and     *)
(* over arrives.                                                           *)
LanBrowserFair ==
    /\ WF_lbVars(Turn) /\ WF_lbVars(DeadlinePasses) /\ WF_lbVars(Browse)
    /\ \A a \in Asked : /\ WF_lbVars(FallSilent(a)) /\ SF_lbVars(Beacon(a))
                        /\ WF_lbVars(HearAnnounce(a))
LanBrowserSpec == LanBrowserInit /\ [][LanBrowserNext]_lbVars /\ LanBrowserFair

----------------------------------------------------------------------------
LanBrowserTypeOK ==
    /\ up \subseteq Hosts \union Announcers /\ asks \subseteq Hosts
    /\ direct \subseteq lanRooms /\ silent \subseteq lanRooms
    /\ lanRooms \subseteq Hosts \union Announcers
    /\ last \in [of : Asked \union {Nothing}, pending : BOOLEAN, answered : BOOLEAN]
    /\ {queued, worker} \subseteq Asked \union {Nothing}
    /\ deadline \in {"none", "ahead", "passed"} /\ reached \in BOOLEAN

(* Once the user and the rooms come to rest, every look-up is settled; an  *)
(* open room looked up last is told of as found if the broadcast reaches   *)
(* it, whatever packets were lost, or if the one packet sent to it and its *)
(* answer were not; an answer that comes after the page said that there    *)
(* was none is told of too (netplay_lan.cpp:252-335,                       *)
(* hub_netplay.cpp:1794-1807).                                             *)
LookUpSettles ==
    <>[](/\ ~last.pending
         /\ last.of \in up \cap (IF reached THEN Hosts ELSE Near) => last.answered)
=============================================================================
