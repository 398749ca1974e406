--------------------------- MODULE CollectorProofs ---------------------------
(***************************************************************************)
(* Proofs about Collector, for any hosts, bundles, requests in flight,     *)
(* retention limits and bounds, with and without slow renders.             *)
(*                                                                         *)
(* TypeInv adds to the types what a handler has established by the place   *)
(* it is at.  RetentionFloor turns out to be inductive relative to it: a   *)
(* scan deleted by one pass has `keep` newer ones itself, and those are    *)
(* newer than every older scan any other pass is about to delete.          *)
(***************************************************************************)
EXTENDS Collector, FiniteSetTheorems, TLAPS

\* What holds of a worker's local state at each of its statements.
Stages ==
  /\ \A r \in Reqs : pc[r] # "idle" => who[r] \in Machines /\ body[r] \in Bundles
  /\ \A r \in Reqs : pc[r] \in Parsing \cup {"newest"} =>
       body[r].machine = who[r] /\ body[r].status \in Statuses /\ body[r].form = "ok"
  /\ \A r \in Reqs : pc[r] # "hosts"
  /\ pc[Cli] \in {"idle", "hosts"} \cup Retaining
  /\ pc[Cli] \in {"newest", "old", "delete"} => who[Cli] \in Machines

TypeInv == TypeOK /\ Stages

-----------------------------------------------------------------------------
\* The empty store satisfies the type invariant.
LEMMA InitType == Init => TypeInv
<1> SUFFICES ASSUME Init PROVE TypeInv
  OBVIOUS
<1> USE NamesAssumption, BoundsAssumption DEF Init
<1>1. TableType
  BY DEF TableType
<1>2. WorkerType
  BY DEF WorkerType, Workers, Places, NoDrift, Deltas
<1>3. HandlerType
  BY DEF HandlerType
<1>4. HistoryType
  <2>1. misfired \in BOOLEAN
    BY Zenon
  <2>2. /\ posts \in 0..MaxPosts /\ exports \in 0..MaxExports
        /\ crashes \in 0..MaxCrashes /\ trims \in 0..MaxTrims
    OBVIOUS
  <2>3. /\ ever \subseteq Bundles
        /\ unpruned \in [Machines -> SUBSET ScanIds]
        /\ cover \in [Workers -> SUBSET ScanIds]
    OBVIOUS
  <2> QED BY <2>1, <2>2, <2>3 DEF HistoryType
<1>5. Stages
  BY DEF Stages, Parsing, Retaining, Workers
<1> QED BY <1>1, <1>2, <1>3, <1>4, <1>5 DEF TypeInv, TypeOK

\* Every step of the ingest handler, from arrival to answer keeps the types.
LEMMA HandleType ==
  ASSUME TypeInv, NEW r \in Reqs, Handle(r)
  PROVE  TypeInv'
<1> USE NamesAssumption, BundlesAssumption, BoundsAssumption
        DEF TypeInv, TypeOK, TableType, WorkerType, HandlerType, HistoryType, Stages,
            Workers, Places, Parsing, Retaining, At, Goto, Answer, table, work, history
<1>1. CASE Parse(r)
  BY <1>1 DEF Parse, Verdict
<1>2. CASE PickPrevious(r)
  BY <1>2 DEF PickPrevious
<1>3. CASE Compare(r)
  BY <1>3 DEF Compare, Drift, Findings, Deltas, Rows
<1>4. CASE CheckUuid(r)
  BY <1>4 DEF CheckUuid
<1>5. CASE Insert(r)
  <2>1. body[r] \in Bundles /\ who[r] \in Machines /\ body[r].status \in Statuses
    BY <1>5 DEF Insert
  <2>2. PICK i \in ScanIds : AddRow(i, RowOf(body[r], who[r], drift[r]))
    BY <1>5 DEF Insert
  <2>3. RowOf(body[r], who[r], drift[r]) \in Rows
    <3>1. Findings(body[r]) \in SUBSET (Machines \X Keys)
      BY <2>1 DEF Findings
    <3>2. drift[r] \in Deltas /\ body[r].uuid \in Uuids
      BY <2>1 DEF Uuids
    <3> QED BY <2>1, <3>1, <3>2 DEF RowOf, Rows
  <2>4. TableType'
    BY <1>5, <2>2, <2>3 DEF Insert, AddRow
  <2>5. WorkerType' /\ HandlerType' /\ Stages'
    BY <1>5 DEF Insert
  <2>6. HistoryType'
    BY <1>5, <2>1 DEF Insert
  <2> QED BY <2>4, <2>5, <2>6
<1>6. CASE InsertConflict(r)
  BY <1>6 DEF InsertConflict
<1>7. CASE ResolveConflict(r)
  BY <1>7 DEF ResolveConflict
<1>8. CASE StoreBusy(r)
  BY <1>8 DEF StoreBusy
<1>9. CASE Respond(r)
  BY <1>9 DEF Respond, NoDrift, Deltas
<1> QED BY <1>1, <1>2, <1>3, <1>4, <1>5, <1>6, <1>7, <1>8, <1>9 DEF Handle

\* Every step of the retention pass of a request or of the CLI keeps the types.
LEMMA RetainType ==
  ASSUME TypeInv, NEW w \in Workers, Retain(w)
  PROVE  TypeInv'
<1> USE NamesAssumption, BundlesAssumption, BoundsAssumption
        DEF TypeInv, TypeOK, TableType, WorkerType, HandlerType, HistoryType, Stages,
            Workers, Places, Parsing, Retaining, At, Goto, Answer, table, work, history
<1>1. CASE ReadNewestDone(w)
  BY <1>1 DEF ReadNewestDone
<1>2. CASE ReadOld(w)
  BY <1>2 DEF ReadOld, Beyond, OfHost
<1>3. CASE DeleteOld(w)
  BY <1>3 DEF DeleteOld, DeleteScan
<1>4. CASE PruneDone(w)
  BY <1>4 DEF PruneDone
<1>5. CASE ReadStale(w)
  BY <1>5 DEF ReadStale, StaleRollups
<1>6. CASE DeleteRollup(w)
  BY <1>6 DEF DeleteRollup, DeleteScan
<1>7. CASE SweepDone(w)
  BY <1>7 DEF SweepDone
<1>8. CASE TrimFails(w)
  BY <1>8 DEF TrimFails
<1> QED BY <1>1, <1>2, <1>3, <1>4, <1>5, <1>6, <1>7, <1>8 DEF Retain

\* Every step of the fleet export keeps the types.
LEMMA ExportType ==
  ASSUME TypeInv, Export
  PROVE  TypeInv'
<1> USE NamesAssumption, BundlesAssumption, BoundsAssumption
        DEF TypeInv, TypeOK, TableType, WorkerType, HandlerType, HistoryType, Stages,
            Workers, Places, Parsing, Retaining, At, Goto, Answer, table, work, history
<1>1. CASE ExportSummary
  BY <1>1 DEF ExportSummary
<1>2. CASE ExportCopy
  <2> DEFINE sources == {exporter.latest[m] : m \in Machines} \cap DOMAIN scans
             rollup  == [host |-> None, uuid |-> None, status |-> "done",
                         findings |-> UNION {scans[i].findings : i \in sources},
                         drift |-> NoDrift, aged |-> FALSE]
  <2>1. PICK i \in ScanIds :
          /\ AddRow(i, rollup)
          /\ exporter' = [at |-> "render", id |-> i, latest |-> [m \in Machines |-> 0]]
    BY <1>2 DEF ExportCopy
  <2>2. rollup \in Rows
    <3>1. \A j \in sources : scans[j].findings \subseteq Machines \X Keys
      BY DEF Rows
    <3>2. rollup.findings \in SUBSET (Machines \X Keys)
      BY <3>1
    <3>3. NoDrift \in Deltas /\ "done" \in Statuses
      BY DEF NoDrift, Deltas, Statuses
    <3> QED BY <3>2, <3>3 DEF Rows
  <2> HIDE DEF rollup
  <2>3. TableType'
    <3>1. scans' = [j \in DOMAIN scans \cup {i} |-> IF j = i THEN rollup ELSE scans[j]]
      BY <2>1 DEF AddRow
    <3>2. UNCHANGED baselines
      BY <1>2 DEF ExportCopy
    <3> QED BY <2>2, <3>1, <3>2
  <2>4. HandlerType'
    BY <1>2, <2>1 DEF ExportCopy
  <2>5. WorkerType' /\ HistoryType' /\ Stages'
    BY <1>2 DEF ExportCopy
  <2> QED BY <2>3, <2>4, <2>5
<1>3. CASE ExportRender
  BY <1>3 DEF ExportRender
<1>4. CASE ExportDiscard
  <2>1. TableType'
    BY <1>4 DEF ExportDiscard, DeleteScan
  <2>2. WorkerType' /\ Stages'
    BY <1>4 DEF ExportDiscard
  <2>5. HandlerType'
    BY <1>4, ZenonT(30) DEF ExportDiscard
  <2>3. misfired' \in BOOLEAN
    BY <1>4, Zenon DEF ExportDiscard, IsRollup
  <2>4. HistoryType'
    BY <1>4, <2>3 DEF ExportDiscard
  <2> QED BY <2>1, <2>2, <2>4, <2>5
<1> QED BY <1>1, <1>2, <1>3, <1>4 DEF Export

\* Every step of the system keeps the types.
LEMMA NextType == TypeInv /\ [Next]_vars => TypeInv'
<1> SUFFICES ASSUME TypeInv, [Next]_vars PROVE TypeInv'
  OBVIOUS
<1> USE NamesAssumption, BundlesAssumption, BoundsAssumption
        DEF TypeInv, TypeOK, TableType, WorkerType, HandlerType, HistoryType, Stages,
            Workers, Places, Parsing, Retaining, At, Goto, Answer, table, work, history
<1>1. ASSUME NEW r \in Reqs, NEW m \in Machines, NEW b \in Bundles,
             Arrive(r, m, b) \/ Throttle(r, m, b)
      PROVE  TypeInv'
  BY <1>1 DEF Arrive, Throttle
<1>2. ASSUME NEW i \in ScanIds, BaselineCheck(i)
      PROVE  TypeInv'
  BY <1>2 DEF BaselineCheck
<1>3. ASSUME BaselineInsert
      PROVE  TypeInv'
  BY <1>3 DEF BaselineInsert
<1>4. ASSUME CliPrune
      PROVE  TypeInv'
  BY <1>4 DEF CliPrune
<1>5. ASSUME CliNextHost
      PROVE  TypeInv'
  BY <1>5 DEF CliNextHost
<1>6. ASSUME CliDone
      PROVE  TypeInv'
  BY <1>6 DEF CliDone
<1>7. ASSUME CrashRestart
      PROVE  TypeInv'
  BY <1>7 DEF CrashRestart, NoDrift, Deltas
<1>8. ASSUME UNCHANGED vars
      PROVE  TypeInv'
  BY <1>8 DEF vars
<1>9. ASSUME HourPasses PROVE TypeInv'
  <2>1. TableType'
    <3>1. \A i \in DOMAIN scans : [scans[i] EXCEPT !.aged = IsRollup(i)] \in Rows
      <4> TAKE i \in DOMAIN scans
      <4>1. IsRollup(i) \in BOOLEAN
        BY Zenon DEF IsRollup
      <4>2. scans[i] \in Rows
        OBVIOUS
      <4> QED BY <4>1, <4>2 DEF Rows
    <3> QED BY <1>9, <3>1 DEF HourPasses
  <2>2. WorkerType' /\ HandlerType' /\ HistoryType' /\ Stages'
    BY <1>9 DEF HourPasses
  <2> QED BY <2>1, <2>2
<1> HIDE DEF TypeInv
<1> QED
  BY <1>1, <1>2, <1>3, <1>4, <1>5, <1>6, <1>7, <1>8, <1>9,
     HandleType, RetainType, ExportType DEF Next, Operate

\* The type invariant holds in every reachable state.
LEMMA TypeInvariance == Spec => []TypeInv
BY InitType, NextType, PTL DEF Spec

\* The types of both tables and of every handler's local state; no handler
\* uses a host or a bundle it has not been given.
THEOREM TypeCorrect == Spec => []TypeOK
<1>1. TypeInv => TypeOK
  BY DEF TypeInv
<1> QED BY <1>1, TypeInvariance, PTL

-----------------------------------------------------------------------------
\* Which rows a step may leave, add or change: the seven actions that write
\* `scans`, and nobody else.
Shrinks == /\ DOMAIN scans' \subseteq DOMAIN scans
           /\ \A i \in DOMAIN scans' : scans'[i].uuid = scans[i].uuid
                                     /\ scans'[i].host = scans[i].host

Grows == \E i \in ScanIds, row \in [host : Machines \cup {None}, uuid : Uuids \cup {None}] :
           /\ i \notin DOMAIN scans
           /\ DOMAIN scans' = DOMAIN scans \cup {i}
           /\ scans'[i].host = row.host /\ scans'[i].uuid = row.uuid
           /\ \A j \in DOMAIN scans : scans'[j] = scans[j]
           /\ row.uuid # None => WithUuid(row.uuid) = {}

\* A step deletes rows or adds one, and an added row's scan_uuid is new.
LEMMA TableSteps ==
  ASSUME TypeInv, [Next]_vars
  PROVE  Shrinks \/ Grows
<1>1. ASSUME UNCHANGED scans PROVE Shrinks
  BY <1>1 DEF Shrinks
<1>2. ASSUME NEW i, DeleteScan(i) PROVE Shrinks
  BY <1>2 DEF Shrinks, DeleteScan
<1>3. ASSUME NEW r \in Reqs, Insert(r) PROVE Grows
  <2>1. body[r] \in Bundles /\ who[r] \in Machines
    BY <1>3 DEF Insert, At, TypeInv, Stages
  <2>2. PICK i \in ScanIds : NextId(i) /\ AddRow(i, RowOf(body[r], who[r], drift[r]))
    BY <1>3 DEF Insert
  <2>3. i \notin DOMAIN scans
    BY <2>2 DEF NextId, ScanIds
  <2>4. /\ DOMAIN scans' = DOMAIN scans \cup {i}
        /\ scans'[i].host = who[r] /\ scans'[i].uuid = body[r].uuid
        /\ \A j \in DOMAIN scans : scans'[j] = scans[j]
    BY <2>2, <2>3 DEF AddRow, RowOf
  <2>5. WithUuid(body[r].uuid) = {}
    BY <1>3 DEF Insert, IndexAllows
  <2> DEFINE row == [host |-> who[r], uuid |-> body[r].uuid]
  <2>6. row \in [host : Machines \cup {None}, uuid : Uuids \cup {None}]
    BY <2>1 DEF Uuids
  <2> QED BY <2>3, <2>4, <2>5, <2>6 DEF Grows
<1>4. ASSUME ExportCopy PROVE Grows
  <2>1. PICK i \in ScanIds : NextId(i) /\ \E f : AddRow(i,
               [host |-> None, uuid |-> None, status |-> "done", findings |-> f,
                drift |-> NoDrift, aged |-> FALSE])
    BY <1>4 DEF ExportCopy
  <2>2. i \notin DOMAIN scans
    BY <2>1 DEF NextId, ScanIds
  <2>3. /\ DOMAIN scans' = DOMAIN scans \cup {i}
        /\ scans'[i].host = None /\ scans'[i].uuid = None
        /\ \A j \in DOMAIN scans : scans'[j] = scans[j]
    BY <2>1, <2>2 DEF AddRow
  <2> DEFINE row == [host |-> None, uuid |-> None]
  <2>4. row \in [host : Machines \cup {None}, uuid : Uuids \cup {None}]
    OBVIOUS
  <2> QED BY <2>2, <2>3, <2>4 DEF Grows
<1>5. ASSUME HourPasses PROVE Shrinks
  BY <1>5 DEF HourPasses, Shrinks, TypeInv, TypeOK, TableType, Rows
<1>6. ASSUME CrashRestart PROVE Shrinks
  BY <1>6 DEF CrashRestart, Shrinks
<1> QED
  BY <1>1, <1>2, <1>3, <1>4, <1>5, <1>6
     DEF Next, Handle, Retain, Export, Operate, vars, table, Arrive, Throttle, Parse,
         PickPrevious, Compare, CheckUuid, InsertConflict, ResolveConflict, StoreBusy,
         Respond, ReadNewestDone, ReadOld, DeleteOld, PruneDone, ReadStale,
         DeleteRollup, SweepDone, TrimFails, CliPrune, CliNextHost, CliDone,
         ExportSummary, ExportRender, ExportDiscard, BaselineCheck, BaselineInsert

\* However many copies of a bundle race, of one host or of two, no scan_uuid
\* is stored twice.
THEOREM NoDuplicateScans == Spec => []UuidUnique
<1>1. Init => UuidUnique
  BY DEF Init, UuidUnique
<1>2. TypeInv /\ UuidUnique /\ [Next]_vars => UuidUnique'
  <2> SUFFICES ASSUME TypeInv, UuidUnique, [Next]_vars PROVE UuidUnique'
    OBVIOUS
  <2>1. CASE Shrinks
    BY <2>1 DEF Shrinks, UuidUnique
  <2>2. CASE Grows
    BY <2>2 DEF Grows, UuidUnique, WithUuid
  <2> QED BY <2>1, <2>2, TableSteps
<1> QED BY <1>1, <1>2, TypeInvariance, PTL DEF Spec

-----------------------------------------------------------------------------
\* The scans of host m newer than id i.
Newer(m, i) == {j \in OfHost(m) : j > i}

\* Sets of ids are finite, and a larger set counts at least as much.
LEMMA IdSets ==
  ASSUME NEW S \in SUBSET ScanIds, NEW T \in SUBSET S
  PROVE  /\ Cardinality(S) \in Nat /\ Cardinality(T) \in Nat
         /\ Cardinality(T) <= Cardinality(S)
<1>1. IsFiniteSet(ScanIds)
  BY FS_Interval, BoundsAssumption DEF ScanIds
<1>2. IsFiniteSet(S)
  BY <1>1, FS_Subset
<1>3. IsFiniteSet(T) /\ Cardinality(T) <= Cardinality(S)
  BY <1>2, FS_Subset
<1> QED BY <1>2, <1>3, FS_CardinalityType

\* The scans newer than one that is about to be deleted are what counts: they
\* only have to survive the step.
LEMMA FloorStep ==
  ASSUME TypeInv, TypeInv', NEW m \in Machines, NEW i \in ScanIds, NEW k \in ScanIds,
         Cardinality(Newer(m, k)) >= KeepLeast,
         Newer(m, k) \subseteq Newer(m, i)'
  PROVE  Cardinality(Newer(m, i)') >= KeepLeast
<1>1. Newer(m, i)' \subseteq ScanIds
  BY DEF Newer, OfHost, TypeInv, TypeOK, TableType
<1>2. KeepLeast \in Nat
  BY KeepAssumption DEF KeepLeast
<1> QED BY <1>1, <1>2, IdSets

\* No scan of a host leaves the table.
HostsKept ==
  \A j \in DOMAIN scans : scans[j].host # None =>
    j \in DOMAIN scans' /\ scans'[j].host = scans[j].host

\* A scan of a host leaves the table only through a retention pass, as long
\* as no rollup's deletion has hit one.
LEMMA WhoDeletes ==
  ASSUME TypeInv, [Next]_vars, ~ misfired'
  PROVE  HostsKept \/ \E v \in Workers : DeleteOld(v)
<1> USE DEF HostsKept
<1>1. ASSUME UNCHANGED scans PROVE HostsKept
  BY <1>1
<1>3. ASSUME NEW w \in Workers, DeleteRollup(w) PROVE HostsKept
  BY <1>3 DEF DeleteRollup, DeleteScan, StaleRollups, IsRollup
<1>4. ASSUME ExportDiscard PROVE HostsKept
  BY <1>4 DEF ExportDiscard, DeleteScan, IsRollup
<1>5. ASSUME HourPasses PROVE HostsKept
  BY <1>5 DEF HourPasses, TypeInv, TypeOK, TableType, Rows
<1>6. ASSUME CrashRestart PROVE HostsKept
  BY <1>6 DEF CrashRestart, StaleRollups, IsRollup
<1>7. ASSUME NEW r \in Reqs, Insert(r) PROVE HostsKept
  BY <1>7 DEF Insert, AddRow, NextId, ScanIds
<1>8. ASSUME ExportCopy PROVE HostsKept
  BY <1>8 DEF ExportCopy, AddRow, NextId, ScanIds
<1>9. ASSUME NEW w \in Workers, ReadOld(w) PROVE HostsKept
  BY <1>9 DEF ReadOld, table
<1> HIDE DEF HostsKept
<1> QED
  BY <1>1, <1>3, <1>4, <1>5, <1>6, <1>7, <1>8, <1>9
     DEF Next, Handle, Retain, Export, Operate, vars, table, work, history, Arrive, Throttle,
         Parse, PickPrevious, Compare, CheckUuid, InsertConflict, ResolveConflict,
         StoreBusy, Respond, ReadNewestDone, PruneDone, ReadStale, SweepDone, TrimFails,
         CliPrune, CliNextHost, CliDone, ExportSummary, ExportRender, BaselineCheck,
         BaselineInsert

\* A new row's id is above every id in the table.
LEMMA NewRowsLast ==
  ASSUME TypeInv, [Next]_vars,
         NEW j \in DOMAIN scans', j \notin DOMAIN scans, NEW k \in DOMAIN scans
  PROVE  k < j
<1>2. ASSUME NEW i, NEW row, NextId(i), AddRow(i, row) PROVE k < j
  BY <1>2 DEF AddRow, NextId
<1>3. ASSUME UNCHANGED scans PROVE FALSE
  BY <1>3
<1>4. ASSUME NEW i, DeleteScan(i) PROVE FALSE
  BY <1>4 DEF DeleteScan
<1>5. ASSUME HourPasses \/ CrashRestart PROVE FALSE
  BY <1>5 DEF HourPasses, CrashRestart
<1> QED
  BY <1>2, <1>3, <1>4, <1>5
     DEF Next, Handle, Retain, Export, Operate, vars, table, work, history, Arrive, Throttle,
         Parse, PickPrevious, Compare, CheckUuid, InsertConflict, ResolveConflict,
         StoreBusy, Respond, ReadNewestDone, PruneDone, ReadStale, SweepDone, TrimFails,
         CliPrune, CliNextHost, CliDone, ExportSummary, ExportRender, BaselineCheck,
         BaselineInsert,
         Insert, ExportCopy, ReadOld, DeleteOld, DeleteRollup, ExportDiscard

\* A worker is and stays in the middle of its deletions.
GoesOn(w) == At(w, "delete") /\ who'[w] = who[w] /\ old'[w] \subseteq old[w]

\* A worker that is deleting has just read its list, or goes on with it.
LEMMA DeletersGoOn ==
  ASSUME TypeInv, [Next]_vars, NEW w \in Workers, pc'[w] = "delete"
  PROVE  ReadOld(w) \/ GoesOn(w)
<1> USE DEF GoesOn, At, TypeInv, TypeOK, WorkerType
<1>1. ASSUME UNCHANGED <<pc, who, old>> PROVE GoesOn(w)
  BY <1>1
<1>2. ASSUME NEW r \in Reqs, Handle(r) PROVE GoesOn(w)
  BY <1>2 DEF Handle, Parse, PickPrevious, Compare, CheckUuid, Insert, InsertConflict,
              ResolveConflict, StoreBusy, Respond, Goto, Answer, work, Workers
<1>3. ASSUME NEW v \in Workers, Retain(v)
      PROVE  ReadOld(w) \/ GoesOn(w)
  BY <1>3 DEF Retain, ReadNewestDone, ReadOld, DeleteOld, PruneDone, ReadStale,
              DeleteRollup, SweepDone, TrimFails, Goto, Answer, work
<1>4. ASSUME CliPrune \/ CliNextHost \/ CliDone
      PROVE  GoesOn(w)
  BY <1>4 DEF CliPrune, CliNextHost, CliDone, Goto, work, Workers
<1>5. ASSUME NEW r \in Reqs, NEW m, NEW b, Arrive(r, m, b) \/ Throttle(r, m, b)
      PROVE  GoesOn(w)
  BY <1>5 DEF Arrive, Throttle, Goto, Answer, Workers
<1>6. ASSUME CrashRestart PROVE GoesOn(w)
  BY <1>6 DEF CrashRestart
<1> QED
  BY <1>1, <1>2, <1>3, <1>4, <1>5, <1>6
     DEF Next, Export, Operate, vars, work, ExportSummary, ExportCopy, ExportRender,
         ExportDiscard, BaselineCheck, BaselineInsert, HourPasses

-----------------------------------------------------------------------------
\* An id on a worker's list is still the scan it was when it was read, or gone:
\* SQLite gives it to no other row, because newer ones remain.
OldOwned ==
  misfired \/ \A w \in Workers : At(w, "delete") =>
    \A i \in old[w] \cap DOMAIN scans : scans[i].host = who[w]

FloorInv == TypeInv /\ RetentionFloor /\ OldOwned

\* No step brings a scan on a list below the floor or hands its id on.
LEMMA NextFloor == FloorInv /\ TypeInv' /\ [Next]_vars => FloorInv'
<1> SUFFICES ASSUME FloorInv, TypeInv', [Next]_vars, ~ misfired',
                    NEW w \in Workers, pc'[w] = "delete", NEW i \in old'[w],
                    NEW m, m = who'[w]
             PROVE  /\ Cardinality(Newer(m, i)') >= KeepLeast
                    /\ i \in DOMAIN scans' => scans'[i].host = m
  BY DEF FloorInv, RetentionFloor, OldOwned, At, Newer
<1>a. TypeInv /\ RetentionFloor /\ OldOwned
  BY DEF FloorInv
<1>b. ~ misfired
  BY DEF Next, Handle, Retain, Export, Operate, vars, table, work, history, Arrive, Throttle,
         Parse, PickPrevious, Compare, CheckUuid, InsertConflict, ResolveConflict,
         StoreBusy, Respond, ReadNewestDone, PruneDone, ReadStale, SweepDone, TrimFails,
         CliPrune, CliNextHost, CliDone, ExportSummary, ExportRender, BaselineCheck,
         BaselineInsert, Insert, ExportCopy, ReadOld, DeleteOld, DeleteRollup,
         ExportDiscard, HourPasses, CrashRestart
<1>c. KeepLeast \in Nat /\ KeepLeast >= 1
  BY KeepAssumption DEF KeepLeast
<1>d. DOMAIN scans \subseteq ScanIds /\ DOMAIN scans' \subseteq ScanIds /\ ScanIds \subseteq Nat
  BY <1>a DEF TypeInv, TypeOK, TableType, ScanIds
<1>1. CASE ReadOld(w)
  <2> DEFINE plain == OfHost(m) \ baselines
  <2>1. /\ scans' = scans /\ m = who[w]
        /\ i \in plain
        /\ Cardinality({j \in plain : j > i}) >= KeepOf(w)
    BY <1>1, <1>a DEF ReadOld, table, Beyond, TypeInv, TypeOK, WorkerType
  <2>2. Cardinality({j \in plain : j > i}) <= Cardinality(Newer(m, i))
        /\ Cardinality({j \in plain : j > i}) \in Nat /\ Cardinality(Newer(m, i)) \in Nat
    <3>1. Newer(m, i) \in SUBSET ScanIds
      BY <1>d DEF Newer, OfHost
    <3>2. {j \in plain : j > i} \in SUBSET Newer(m, i)
      BY DEF Newer
    <3> QED BY <3>1, <3>2, IdSets
  <2>3. KeepOf(w) \in Nat /\ KeepOf(w) >= KeepLeast
    BY KeepAssumption DEF KeepOf, KeepLeast
  <2>4. Newer(m, i)' = Newer(m, i)
    BY <2>1 DEF Newer, OfHost
  <2>5. Cardinality(Newer(m, i)) >= KeepLeast
    BY <2>1, <2>2, <2>3, <1>c
  <2> QED BY <2>1, <2>4, <2>5 DEF OfHost
<1>2. CASE GoesOn(w)
  <2>1. i \in old[w] /\ i \in ScanIds /\ m = who[w] /\ m \in Machines /\ m # None
    BY <1>2, <1>a, NamesAssumption
       DEF GoesOn, At, TypeInv, TypeOK, WorkerType, Stages, Workers
  <2>2. Cardinality(Newer(m, i)) >= KeepLeast
    BY <1>2, <1>a, <1>b, <2>1 DEF GoesOn, RetentionFloor, Newer
  <2>3. \E j \in DOMAIN scans : i < j
    <3>1. Newer(m, i) # {}
      BY <2>2, <1>c, FS_EmptySet
    <3> QED BY <3>1, <2>1, <1>d DEF Newer, OfHost
  <2>4. i \in DOMAIN scans' => i \in DOMAIN scans
    BY <2>1, <2>3, <1>a, <1>d, NewRowsLast
  <2>5. i \in DOMAIN scans => scans[i].host = m
    BY <1>2, <1>a, <1>b, <2>1 DEF GoesOn, OldOwned
  <2>6. \A j \in DOMAIN scans \cap DOMAIN scans' : scans'[j].host = scans[j].host
    BY <1>a, TableSteps DEF Shrinks, Grows
  <2>7. i \in DOMAIN scans' => scans'[i].host = m
    BY <2>4, <2>5, <2>6
  <2>8. CASE HostsKept
    <3>1. Newer(m, i) \subseteq Newer(m, i)'
      BY <2>1, <2>8 DEF HostsKept, Newer, OfHost
    <3> QED BY <2>1, <2>2, <2>7, <3>1, <1>a, FloorStep
  <2>9. ASSUME NEW v \in Workers, DeleteOld(v)
        PROVE  Cardinality(Newer(m, i)') >= KeepLeast
    <3>1. PICK k \in old[v] : scans' = [j \in DOMAIN scans \ {k} |-> scans[j]]
      BY <2>9 DEF DeleteOld, DeleteScan
    <3>2. k \in ScanIds /\ At(v, "delete")
      BY <2>9, <1>a DEF DeleteOld, TypeInv, TypeOK, WorkerType
    <3>3. CASE k \in Newer(m, i)
      <4>1. who[v] = m
        BY <3>2, <3>3, <1>a, <1>b DEF OldOwned, Newer, OfHost
      <4>2. Cardinality(Newer(m, k)) >= KeepLeast
        BY <3>2, <4>1, <1>a, <1>b DEF RetentionFloor, Newer
      <4>3. Newer(m, k) \subseteq Newer(m, i)'
        <5>1. i < k
          BY <3>3 DEF Newer
        <5>2. ASSUME NEW j \in OfHost(m), j > k
              PROVE  j > i /\ j \in DOMAIN scans' /\ scans'[j].host = m
          <6>1. j \in Nat /\ k \in Nat /\ i \in Nat /\ j \in DOMAIN scans /\ scans[j].host = m
            BY <2>1, <3>2, <1>d DEF OfHost
          <6>2. j # k /\ j > i
            BY <5>1, <5>2, <6>1
          <6> QED BY <3>1, <6>1, <6>2
        <5> QED BY <5>2 DEF Newer, OfHost
      <4> QED BY <2>1, <3>2, <4>2, <4>3, <1>a, FloorStep
    <3>4. CASE k \notin Newer(m, i)
      <4>1. Newer(m, i) \subseteq Newer(m, i)'
        BY <3>1, <3>4 DEF Newer, OfHost
      <4> QED BY <2>1, <2>2, <4>1, <1>a, FloorStep
    <3> QED BY <3>3, <3>4
  <2> QED BY <2>1, <2>7, <2>8, <2>9, <1>a, WhoDeletes
<1> QED BY <1>1, <1>2, <1>a, DeletersGoOn

\* The retention invariant holds in every reachable state.
LEMMA FloorInvariance == Spec => []FloorInv
<1>1. Init => FloorInv
  BY InitType DEF Init, FloorInv, RetentionFloor, OldOwned, At
<1> QED BY <1>1, NextFloor, TypeInvariance, PTL DEF Spec

\* Any number of overlapping retention passes, each from a list it read
\* earlier, leave every scan they still mean to delete with `keep` newer ones.
THEOREM PassesDoNotAddUp == Spec => []RetentionFloor
<1>1. FloorInv => RetentionFloor
  BY DEF FloorInv
<1> QED BY <1>1, FloorInvariance, PTL

-----------------------------------------------------------------------------
(* What a step leaves of the table, for the proofs of HistoryProofs          *)

\* Once a deletion has hit the wrong row, that is remembered.
LEMMA MisfireLasts ==
  ASSUME [Next]_vars, misfired
  PROVE  misfired'
BY ZenonT(30) DEF Next, Handle, Retain, Export, Operate, vars, table, work, history, Arrive, Throttle,
       Parse, PickPrevious, Compare, CheckUuid, InsertConflict, ResolveConflict,
       StoreBusy, Respond, ReadNewestDone, PruneDone, ReadStale, SweepDone, TrimFails,
       CliPrune, CliNextHost, CliDone, ExportSummary, ExportRender, BaselineCheck,
       BaselineInsert, Insert, ExportCopy, ReadOld, DeleteOld, DeleteRollup,
       ExportDiscard, HourPasses, CrashRestart

\* Two rows that differ in nothing but their age.
SameScan(x, y) ==
  /\ x.host = y.host /\ x.uuid = y.uuid /\ x.status = y.status
  /\ x.findings = y.findings /\ x.drift = y.drift

\* A row that stays is the scan it was.
LEMMA RowsStay ==
  ASSUME TypeInv, [Next]_vars, NEW i \in DOMAIN scans, i \in DOMAIN scans'
  PROVE  SameScan(scans'[i], scans[i])
<1> USE DEF SameScan
<1>1. ASSUME UNCHANGED scans PROVE SameScan(scans'[i], scans[i])
  BY <1>1
<1>2. ASSUME NEW k, DeleteScan(k) PROVE SameScan(scans'[i], scans[i])
  BY <1>2 DEF DeleteScan
<1>3. ASSUME NEW k, NEW row, NextId(k), AddRow(k, row), k \in ScanIds
      PROVE  SameScan(scans'[i], scans[i])
  <2>1. i # k
    BY <1>3 DEF NextId, TypeInv, TypeOK, TableType, ScanIds
  <2> QED BY <1>3, <2>1 DEF AddRow
<1>4. ASSUME HourPasses PROVE SameScan(scans'[i], scans[i])
  <2>1. scans[i] \in Rows
    BY DEF TypeInv, TypeOK, TableType
  <2> QED BY <1>4, <2>1 DEF HourPasses, Rows
<1>5. ASSUME CrashRestart PROVE SameScan(scans'[i], scans[i])
  BY <1>5 DEF CrashRestart
<1> HIDE DEF SameScan
<1>6. ASSUME NEW r \in Reqs, Handle(r) PROVE SameScan(scans'[i], scans[i])
  BY <1>1, <1>3, <1>6
     DEF Handle, table, Parse, PickPrevious, Compare, CheckUuid, Insert, InsertConflict,
         ResolveConflict, StoreBusy, Respond
<1>7. ASSUME NEW w \in Workers, Retain(w) PROVE SameScan(scans'[i], scans[i])
  BY <1>1, <1>2, <1>7
     DEF Retain, table, ReadNewestDone, ReadOld, DeleteOld, PruneDone, ReadStale,
         DeleteRollup, SweepDone, TrimFails
<1>8. ASSUME Export PROVE SameScan(scans'[i], scans[i])
  BY <1>1, <1>2, <1>3, <1>8
     DEF Export, table, ExportSummary, ExportCopy, ExportRender, ExportDiscard
<1> QED
  BY <1>1, <1>4, <1>5, <1>6, <1>7, <1>8
     DEF Next, Operate, vars, table, Arrive, Throttle, CliPrune, CliNextHost, CliDone,
         BaselineCheck, BaselineInsert

\* As long as nothing has misfired, a host never loses its newest scan: there
\* is always one as new as any it has had.
LEMMA LatestStays ==
  ASSUME FloorInv, [Next]_vars, ~ misfired', NEW m \in Machines, NEW j \in OfHost(m)
  PROVE  \E k \in OfHost(m)' : k >= j
<1>a. TypeInv /\ ~ misfired /\ m # None
  BY MisfireLasts, NamesAssumption DEF FloorInv
<1>b. DOMAIN scans \subseteq ScanIds /\ ScanIds \subseteq Nat /\ j \in Nat
  BY <1>a DEF TypeInv, TypeOK, TableType, ScanIds, OfHost
<1>1. CASE HostsKept
  BY <1>1, <1>a, <1>b DEF HostsKept, OfHost
<1>2. ASSUME NEW v \in Workers, DeleteOld(v) PROVE \E k \in OfHost(m)' : k >= j
  <2>1. PICK i \in old[v] : scans' = [k \in DOMAIN scans \ {i} |-> scans[k]]
    BY <1>2 DEF DeleteOld, DeleteScan
  <2>2. CASE i # j
    BY <1>b, <2>1, <2>2 DEF OfHost
  <2>3. CASE i = j
    <3>1. At(v, "delete") /\ who[v] = m
      BY <1>2, <1>a, <2>1, <2>3 DEF DeleteOld, FloorInv, OldOwned, OfHost
    <3>2. Cardinality({k \in OfHost(m) : k > j}) >= KeepLeast
      BY <1>a, <2>1, <2>3, <3>1 DEF FloorInv, RetentionFloor
    <3>3. KeepLeast \in Nat /\ KeepLeast >= 1
      BY KeepAssumption DEF KeepLeast
    <3>4. PICK k \in OfHost(m) : k > j
      BY <3>2, <3>3, FS_EmptySet
    <3>5. k \in Nat
      BY <1>b DEF OfHost
    <3>6. k # i /\ k >= j
      BY <1>b, <2>3, <3>4, <3>5
    <3> QED BY <2>1, <3>4, <3>6 DEF OfHost
  <2> QED BY <2>2, <2>3
<1> QED BY <1>1, <1>2, <1>a, WhoDeletes

=============================================================================
