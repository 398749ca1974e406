------------------------------ MODULE MCFleet ------------------------------
(* One host and its collector.                                               *)
EXTENDS Fleet

CONSTANTS m1, a, b, p1, p2, r1, r2

Scan(n) ==
  [uuid |-> n, machine |-> m1, status |-> "done", form |-> "ok",
   keys |-> IF n = 1 THEN {a} ELSE {b}]

TornFile ==
  [uuid |-> 99, machine |-> m1, status |-> "done", form |-> "bad", keys |-> {}]

ScanBundles == {Scan(n) : n \in 1..MaxScans} \cup {TornFile}
=============================================================================
