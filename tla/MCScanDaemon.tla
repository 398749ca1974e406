---------------------------- MODULE MCScanDaemon ----------------------------
(* Two families: two probes that run together, then one on its own.         *)
EXTENDS ScanDaemon

CONSTANTS p1, p2, p3, t1, t2, c1, s1

TwoFamilies == <<{p1, p2}, {p3}>>
OneFamily == <<{p1}>>
=============================================================================
