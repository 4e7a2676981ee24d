----------------------------- MODULE RommFetch -----------------------------
(***************************************************************************)
(* Looking for a title's ROM on a RomM server and fetching it              *)
(* (romm_fetch.cpp, the FetchRommRom, ScanRommRoms and FetchRommBios jobs  *)
(* of hub_model.cpp).  The server may fail at each request.  A ROM is a    *)
(* set of Parts files; a file on disk is whole or absent, http_download    *)
(* renames it into place.  Hashes are abstracted to what an entry of the   *)
(* server matches: nothing, a name, or the title's digests.                *)
(***************************************************************************)
EXTENDS Naturals, FiniteSets

CONSTANTS Titles,      \* the catalog's titles with a rom_identity: 1 .. n
          Digested,    \* titles whose identity has digests
          Parts,       \* files of a ROM
          Urls,        \* bound: URLs tried for a file
          MaxRequests, \* bound: jobs started
          MaxOffers    \* bound: changes of the server's library

ASSUME RommFetchAssumption ==
    /\ IsFiniteSet(Titles) /\ Titles = 1 .. Cardinality(Titles) /\ Digested \subseteq Titles
    /\ Parts \in Nat \ {0} /\ Urls \in Nat \ {0}
    /\ MaxRequests \in Nat /\ MaxOffers \in Nat

Whole == 1 .. Parts

VARIABLES offers,    \* what the server has for a title
          marks,     \* romm_roms.json
          shown,     \* the hub's romm_roms
          files,     \* the parts of each title in library_root
          bound,     \* titles with a preferred ROM in the library index
          bios,      \* titles whose firmware is in bios_root
          job,       \* "idle", "scan" or "parts"
          cursor,        \* the title the job is at
          noted,     \* the index the scan builds
          denied,    \* titles of which this scan's server has no match
          untold,    \* titles it listed, but would not tell the files of
          tries,     \* URLs tried for the file at hand
          requests, changes

rfVars == <<offers, marks, shown, files, bound, bios, job, cursor, noted, denied, untold, tries,
            requests, changes>>

Blank == [t \in Titles |-> "unknown"]

RommFetchInit ==
    /\ offers \in [Titles -> {"none", "digests"}]
    /\ marks = Blank /\ shown = Blank
    /\ files = [t \in Titles |-> {}] /\ bound = {} /\ bios = {}
    /\ job = "idle" /\ cursor = 0 /\ noted = Blank /\ denied = {} /\ untold = {} /\ tries = 0
    /\ requests = 0 /\ changes = 0

(* The best candidate counts when its digests match, or its name where the *)
(* title has no digests.  The answer to the search lists the entries; the  *)
(* files of one are told there or by a request of their own, and an entry  *)
(* whose request fails is passed over (told is FALSE).                     *)
Matches(t, told) ==
    /\ told
    /\ offers[t] = "digests" \/ (offers[t] = "name" /\ t \notin Digested)

Requests == job = "idle" /\ requests < MaxRequests /\ requests' = requests + 1

(* A scan asks for every title and saves a new index at its end.  A search *)
(* that fails ends it; an entry that is passed over does not.              *)
BeginRommScan ==
    /\ Requests
    /\ job' = "scan" /\ cursor' = 1 /\ noted' = Blank /\ denied' = {} /\ untold' = {}
    /\ UNCHANGED <<offers, marks, shown, files, bound, bios, tries, changes>>
ScanTitle(told) ==
    /\ job = "scan" /\ cursor \in Titles /\ cursor' = cursor + 1
    /\ noted' = [noted EXCEPT ![cursor] = IF Matches(cursor, told) THEN "available" ELSE "missing"]
    /\ denied' = IF told /\ ~Matches(cursor, told) THEN denied \cup {cursor} ELSE denied
    /\ untold' = IF told THEN untold ELSE untold \cup {cursor}
    /\ UNCHANGED <<offers, marks, shown, files, bound, bios, job, tries, requests, changes>>
(* Mutant of SearchFails. *)
SearchFailsGoesOn ==
    /\ job = "scan" /\ cursor \in Titles
    /\ noted' = [noted EXCEPT ![cursor] = "missing"] /\ cursor' = cursor + 1
    /\ UNCHANGED <<offers, marks, shown, files, bound, bios, job, denied, untold, tries, requests, changes>>
SearchFails ==
    /\ job = "scan" /\ cursor \in Titles
    /\ job' = "idle"
    /\ UNCHANGED <<offers, marks, shown, files, bound, bios, cursor, noted, denied, untold, tries,
                   requests, changes>>
EndRommScan(saved) ==
    /\ job = "scan" /\ cursor \notin Titles
    /\ job' = "idle"
    /\ marks' = IF saved THEN noted ELSE marks
    /\ shown' = marks'
    /\ UNCHANGED <<offers, files, bound, bios, cursor, noted, denied, untold, tries, requests, changes>>

(* Download ROM, and Re-download ROM of a title that has one.               *)
FetchRom(t, told) ==
    /\ Requests
    /\ job' = IF Matches(t, told) THEN "parts" ELSE "idle"
    /\ cursor' = t /\ tries' = 0 /\ denied' = {} /\ untold' = {}
    /\ UNCHANGED <<offers, marks, shown, files, bound, bios, noted, changes>>

(* The files of the set, one after the other, each over the one before it. *)
(* tries counts the set's requests, so it says which file is at hand.      *)
Part == tries \div Urls + 1
FileArrives ==
    /\ job = "parts" /\ Part \in Whole
    /\ files' = [files EXCEPT ![cursor] = @ \cup {Part}]
    /\ tries' = Part * Urls
    /\ UNCHANGED <<offers, marks, shown, bound, bios, job, cursor, noted, denied, untold, requests, changes>>
(* A failed try removes the file that was there; the last one ends the job. *)
FileFails ==
    /\ job = "parts" /\ Part \in Whole
    /\ files' = [files EXCEPT ![cursor] = @ \ {Part}]
    /\ tries' = tries + 1
    /\ job' = IF (tries + 1) % Urls = 0 THEN "idle" ELSE job
    /\ UNCHANGED <<offers, marks, shown, bound, bios, cursor, noted, denied, untold, requests, changes>>

(* The set is hashed and bound; the mark is set whether or not it matched,  *)
(* over the index as it is on disk.                                        *)
BindRom(matches) ==
    /\ job = "parts" /\ Part \notin Whole
    /\ bound' = IF matches THEN bound \cup {cursor} ELSE bound
    /\ marks' = [marks EXCEPT ![cursor] = "available"] /\ shown' = marks'
    /\ job' = "idle"
    /\ UNCHANGED <<offers, files, bios, cursor, noted, denied, untold, tries, requests, changes>>

FetchBios(t, found) ==
    /\ Requests
    /\ bios' = IF found THEN bios \cup {t} ELSE bios
    /\ UNCHANGED <<offers, marks, shown, files, bound, job, cursor, noted, denied, untold, tries, changes>>

(* External: the server's library changes.                                 *)
Offer(t, o) ==
    /\ changes < MaxOffers /\ o # offers[t]
    /\ offers' = [offers EXCEPT ![t] = o] /\ changes' = changes + 1
    /\ UNCHANGED <<marks, shown, files, bound, bios, job, cursor, noted, denied, untold, tries, requests>>

RommFetchNext ==
    \/ BeginRommScan
    \/ \E told \in BOOLEAN : ScanTitle(told)
    \/ SearchFails
    \/ \E saved \in BOOLEAN : EndRommScan(saved)
    \/ \E t \in Titles, told \in BOOLEAN : FetchRom(t, told)
    \/ FileArrives \/ FileFails
    \/ \E matches \in BOOLEAN : BindRom(matches)
    \/ \E t \in Titles, found \in BOOLEAN : FetchBios(t, found)
    \/ \E t \in Titles, o \in {"none", "name", "digests"} : Offer(t, o)
RommFetchSpec == RommFetchInit /\ [][RommFetchNext]_rfVars

RommFetchTypeOK ==
    /\ offers \in [Titles -> {"none", "name", "digests"}]
    /\ marks \in [Titles -> {"unknown", "available", "missing"}]
    /\ shown \in [Titles -> {"unknown", "available", "missing"}]
    /\ noted \in [Titles -> {"unknown", "available", "missing"}]
    /\ files \in [Titles -> SUBSET Whole]
    /\ bound \subseteq Titles /\ bios \subseteq Titles /\ denied \subseteq Titles
    /\ untold \subseteq Titles
    /\ job \in {"idle", "scan", "parts"} /\ cursor \in Nat /\ tries \in 0 .. Urls * Parts
    /\ requests \in 0 .. MaxRequests /\ changes \in 0 .. MaxOffers

(* "Abort on hard API failures so we don't wipe the index"                 *)
(* (romm_fetch.cpp:571): a server that fails the search wipes nothing,     *)
(* whatever other titles it answered for before.  An available ROM becomes *)
(* a missing one only when the server denied it in the same scan or, since *)
(* a failed request for an entry's files counts as no match                *)
(* (romm_fetch.cpp:388-389), listed it and did not tell its files.         *)
SearchOutageKeepsMarks ==
    [][\A t \in Titles :
         marks[t] = "available" /\ marks'[t] = "missing" => t \in denied \cup untold]_rfVars
=============================================================================
