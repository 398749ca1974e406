---------------------------- MODULE MCCollector ----------------------------
(* Small instances of Collector.                                             *)
EXTENDS CollectorHistory, TLC

CONSTANTS m1, m2, a, b, r1, r2

Bundle(u, m, s, k, f) ==
  [uuid |-> u, machine |-> m, status |-> s, keys |-> k, form |-> f]

\* One host whose complete scans are followed by partial ones.
FailingBundles ==
  { Bundle(1, m1, "done", {a}, "ok"), Bundle(2, m1, "done", {b}, "ok"),
    Bundle(3, m1, "failed", {a}, "ok"), Bundle(4, m1, "interrupted", {}, "ok") }

\* ... and documents that load_bundle refuses.
RefusedBundles ==
  { Bundle(5, m1, "done", {a}, "big"), Bundle(6, m1, "done", {a}, "bad") }

HistoryBundles == FailingBundles \cup RefusedBundles

\* Two hosts: a scan_uuid both claim, a partial scan, and one that is not
\* finished.
MixedBundles ==
  { Bundle(1, m1, "done", {a}, "ok"), Bundle(2, m1, "interrupted", {b}, "ok"),
    Bundle(1, m2, "done", {b}, "ok"), Bundle(3, m2, "running", {a}, "ok") }

\* Requests differ in nothing but their names.
Symmetry == Permutations(Reqs)
=============================================================================
