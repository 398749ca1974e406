-------------------------- MODULE CollectorHistory --------------------------
(***************************************************************************)
(* The scans table as the histories of its hosts: rollups, the age of a    *)
(* row and the drift rows are left out, and so are all handlers.           *)
(***************************************************************************)
EXTENDS Collector

ScanOf(b) == [host |-> b.machine, uuid |-> b.uuid, status |-> b.status, findings |-> Findings(b)]

Kept ==
  [i \in {j \in DOMAIN scans : ~ IsRollup(j)} |->
     [host |-> scans[i].host, uuid |-> scans[i].uuid, status |-> scans[i].status,
      findings |-> scans[i].findings]]

Histories ==
  INSTANCE HostHistory WITH
    Ids <- ScanIds,
    Acceptable <- {ScanOf(b) : b \in {c \in Bundles : c.form = "ok" /\ c.status \in Statuses}},
    kept <- Kept, spoiled <- misfired

\* Whatever overlaps, the collector does nothing to the histories but what
\* HostHistory allows: each accepted bundle is one scan, stored as it came and
\* newest, and no deletion by a list read earlier, of any number of retention
\* passes, takes a host's last scan ("the scan just ingested is never
\* removed", docs/FLEET.md).
RefinesHistories == Histories!Spec
=============================================================================
