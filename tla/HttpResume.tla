----------------------------- MODULE HttpResume -----------------------------
(***************************************************************************)
(* http_download (http.cpp): a file is fetched into target.part and renamed. *)
(* A part left by an earlier call is resumed.  A file is Blocks blocks;    *)
(* what is on disk is a sequence of blocks, each of a revision and a place. *)
(***************************************************************************)
EXTENDS Naturals, Sequences, SequencesExt

CONSTANTS Blocks,     \* bound: blocks of a file
          MaxRev,     \* bound: how often the URL serves something new
          Ranges,     \* servers: TRUE honours Range, FALSE sends it all
          MaxCalls    \* bound: calls

ASSUME HttpResumeAssumption ==
    Ranges \subseteq BOOLEAN /\ Blocks \in Nat \ {0} /\ MaxRev \in Nat \ {0} /\ MaxCalls \in Nat

None == <<>>

VARIABLES rev,      \* the revision the URL serves
          server,   \* does it honour ranges
          sized,    \* does the caller know the size
          part,     \* target.part: the revision and the place of each block
          target,     \* target, likewise
          call,     \* "idle", "sending", "done" or "failed"
          from,     \* blocks this call did not ask for: Range
          next,     \* the block the server sends next
          refused,  \* the server ignored the range in this call
          again,    \* this call is on its second try
          calls

hrVars == <<rev, server, sized, part, target, call, from, next, refused, again, calls>>

HttpResumeInit ==
    /\ rev = 1 /\ server \in Ranges /\ sized \in BOOLEAN
    /\ part = None /\ target = None /\ call = "idle"
    /\ from = 0 /\ next = 1 /\ refused = FALSE /\ again = FALSE /\ calls = 0

Finished(f) == Len(f) = Blocks
Ends(how) == call' = how

(* A target of the right size is taken as it is, and so is a part.           *)
Starts == call = "idle" /\ calls < MaxCalls /\ calls' = calls + 1
Take(renamed) ==
    /\ Starts /\ sized
    /\ Finished(target) \/ Finished(part)
    /\ IF Finished(target)
       THEN UNCHANGED <<target, part>> /\ Ends("done")
       ELSE /\ target' = IF renamed THEN part ELSE None
            /\ part' = IF renamed THEN None ELSE part
            /\ Ends(IF renamed THEN "done" ELSE "failed")
    /\ from' = 0 /\ next' = 1 /\ refused' = FALSE /\ again' = FALSE
    /\ UNCHANGED <<rev, server, sized>>

(* The request asks for what the part lacks.                               *)
(* Mutant of Resume. *)
ResumeLate == from' = Len(part) /\ next' = 1
Resume == from' = Len(part) /\ next' = Len(part) + 1
Ask ==
    /\ Starts
    /\ ~(sized /\ (Finished(target) \/ Finished(part)))
    /\ target' = IF sized THEN None ELSE target
    /\ Resume /\ Ends("sending")
    /\ refused' = FALSE /\ again' = FALSE
    /\ UNCHANGED <<rev, server, sized, part>>

(* Statuses 416 and 400 to a range: one more try, from the start.          *)
(* Mutant of BadRange. *)
RetryKeepsPart ==
    /\ call = "sending" /\ from > 0 /\ next = from + 1
    /\ part' = part /\ from' = 0 /\ next' = 1 /\ again' = TRUE
    /\ UNCHANGED <<rev, server, sized, target, call, refused, calls>>
BadRange ==
    /\ call = "sending" /\ from > 0 /\ next = from + 1
    /\ part' = None /\ from' = 0 /\ next' = 1 /\ again' = TRUE
    /\ UNCHANGED <<rev, server, sized, target, call, refused, calls>>

(* libcurl ends a resumed transfer the server answers with the whole file  *)
(* with CURLE_RANGE_ERROR, status 200, unless the part is as long as that. *)
Sends == from = 0 \/ (server /\ from < Blocks)
RangeIgnored ==
    /\ call = "sending" /\ ~Sends /\ ~server /\ from < Blocks
    /\ refused' = TRUE /\ Ends("failed")
    /\ UNCHANGED <<rev, server, sized, part, target, from, next, again, calls>>

Block ==
    /\ call = "sending" /\ Sends /\ next <= Blocks
    /\ part' = Append(part, [rev |-> rev, place |-> next]) /\ next' = next + 1
    /\ UNCHANGED <<rev, server, sized, target, call, from, refused, again, calls>>

(* The connection breaks: the part stays.  The server refuses the request, *)
(* or the second try breaks: it goes.                                      *)
Fails(refusal) ==
    /\ call = "sending"
    /\ part' = IF refusal \/ again THEN None ELSE part
    /\ Ends("failed")
    /\ UNCHANGED <<rev, server, sized, target, from, next, refused, again, calls>>

Finish(renamed) ==
    /\ call = "sending"
    /\ IF Sends THEN next > Blocks ELSE ~server /\ from = Blocks
    /\ LET good == renamed /\ (sized => Finished(part)) IN
       /\ target' = IF good THEN part ELSE None
       /\ Ends(IF good THEN "done" ELSE "failed")
    /\ part' = None
    /\ UNCHANGED <<rev, server, sized, from, next, refused, again, calls>>

Return ==
    /\ call \in {"done", "failed"}
    /\ Ends("idle")
    /\ UNCHANGED <<rev, server, sized, part, target, from, next, refused, again, calls>>

NewRevision ==
    /\ rev < MaxRev /\ call # "sending"
    /\ rev' = rev + 1
    /\ UNCHANGED <<server, sized, part, target, call, from, next, refused, again, calls>>

HttpResumeNext ==
    \/ Ask \/ BadRange \/ RangeIgnored \/ Block
    \/ \E refusal \in BOOLEAN : Fails(refusal)
    \/ \E renamed \in BOOLEAN : Take(renamed) \/ Finish(renamed)
    \/ Return \/ NewRevision
HttpResumeSpec == HttpResumeInit /\ [][HttpResumeNext]_hrVars

----------------------------------------------------------------------------
HttpResumeTypeOK ==
    /\ rev \in 1..MaxRev /\ {server, sized} \subseteq BOOLEAN
    /\ {part, target} \subseteq
         BoundedSeq([rev : 1..MaxRev, place : 1..Blocks], Blocks)
    /\ call \in {"idle", "sending", "done", "failed"}
    /\ from \in 0..Blocks /\ next \in 1..(Blocks + 1)
    /\ {refused, again} \subseteq BOOLEAN /\ calls \in 0..MaxCalls

(* A call that reports success has put every block in its place, whatever  *)
(* parts earlier calls left behind (http.cpp:371-452).  They may be of two *)
(* revisions when the URL began to serve another between two calls.        *)
OneWholeFile ==
    call = "done" =>
        /\ Finished(target) /\ \A i \in 1..Blocks : target[i].place = i
=============================================================================
