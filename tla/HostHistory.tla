----------------------------- MODULE HostHistory ----------------------------
(***************************************************************************)
(* What the collector promises of the histories of its hosts, however      *)
(* requests, retention passes, exports and restarts overlap.  A bundle     *)
(* that is accepted becomes one scan, newer than all there are; a scan     *)
(* never changes; and one is forgotten only if a newer one of its host is  *)
(* kept, so that a host that has reported has a history for good.          *)
(*                                                                         *)
(* The promise ends when the deletion of a rollup has hit a scan that took *)
(* the rollup's id.  From then on a host may lose its last scan.           *)
(***************************************************************************)
EXTENDS Integers

CONSTANTS
  Ids,         \* of scans, numbers
  Acceptable   \* the scans of the bundles that may be accepted

VARIABLES
  kept,      \* id -> scan
  spoiled    \* whether a deletion has hit the wrong scan

view == <<kept, spoiled>>

Init == DOMAIN kept = {} /\ spoiled = FALSE

Accept ==
  /\ \E i \in Ids, s \in Acceptable :
       /\ \A j \in DOMAIN kept : j < i /\ kept[j].uuid # s.uuid
       /\ kept' = [j \in DOMAIN kept \cup {i} |-> IF j = i THEN s ELSE kept[j]]
  /\ UNCHANGED spoiled

Forget ==
  /\ \E i \in DOMAIN kept :
       /\ spoiled' \/ \E j \in DOMAIN kept : j > i /\ kept[j].host = kept[i].host
       /\ kept' = [j \in DOMAIN kept \ {i} |-> kept[j]]
  /\ spoiled => spoiled'

Spoil == spoiled' = TRUE /\ UNCHANGED kept

Next == Accept \/ Forget \/ Spoil

Spec == Init /\ [][Next]_view
=============================================================================
