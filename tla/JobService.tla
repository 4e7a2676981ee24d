----------------------------- MODULE JobService -----------------------------
(***************************************************************************)
(* What HubModel promises the rest of the hub about background jobs: a     *)
(* request the hub accepts either begins at once or waits; one request is  *)
(* served at a time; a waiting request stops waiting only by being served. *)
(* At most one of the scans waits.  The end of the process is a stutter.   *)
(***************************************************************************)
CONSTANTS Requests,  \* what the hub can be asked to run
          Scans,     \* those of them that scan or purge the library
          Idle       \* not a request: the slot is free

VARIABLES waiting,   \* requests accepted and not yet begun
          current    \* the request being served, or Idle

svcVars == <<waiting, current>>

Init == waiting = {} /\ current = Idle

(* A request that is not waiting yet joins the backlog. *)
Accept(r) ==
  /\ r \notin waiting
  /\ r \in Scans => waiting \cap Scans = {}
  /\ waiting' = waiting \cup {r}
  /\ UNCHANGED current

(* The slot takes a waiting request. *)
BeginWaiting(r) ==
  /\ current = Idle
  /\ r \in waiting
  /\ waiting' = waiting \ {r}
  /\ current' = r

(* The slot is free, and serves a new request at once. *)
BeginNow(r) ==
  /\ current = Idle
  /\ current' = r
  /\ UNCHANGED waiting

Finish ==
  /\ current # Idle
  /\ current' = Idle
  /\ UNCHANGED waiting

Next ==
  \/ Finish
  \/ \E r \in Requests : Accept(r) \/ BeginWaiting(r) \/ BeginNow(r)

Spec == Init /\ [][Next]_svcVars
=============================================================================
