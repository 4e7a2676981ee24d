----------------------------- MODULE MCHubJobs -----------------------------
(* Two titles, a platform each, two install roots: enough for a running    *)
(* job, another waiting and a third asked for, and for a root chosen for   *)
(* one title to be taken by the other.                                     *)
EXTENDS HubJobs, TLC

CONSTANTS a, b, psx, snes

MCTitles == {a, b}
MCPlatforms == {psx, snes}
MCPlatformOf == [t \in {a, b} |-> IF t = a THEN psx ELSE snes]
=============================================================================
