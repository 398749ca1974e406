---------------------------- MODULE HistoryProofs ----------------------------
(***************************************************************************)
(* Proofs about what Collector's handlers derive from a scan they picked   *)
(* earlier: the drift rows stored with a bundle, and the rollup of an      *)
(* export.  Both remember an id, leave the store to others, and read the   *)
(* row of that id later.  For any hosts, bundles, requests and bounds.     *)
(*                                                                         *)
(* The argument is that an id picked for a host is not given to another    *)
(* row while it is remembered: the host always keeps a scan at least as    *)
(* new (LatestStays), and a new row's id is above every id in the table.   *)
(***************************************************************************)
EXTENDS CollectorProofs, CollectorHistory, WellFoundedInduction

\* An id that was picked as a done scan of host m: it is still that, or no
\* row has it, and none will get it while the host has a scan as new.
PickedOf(i, m) ==
  \/ i = 0
  \/ /\ \E j \in OfHost(m) : j >= i
     /\ i \in DOMAIN scans => i \in DoneOf(m)

\* b is the bundle the row x was stored from.
StoredFrom(x, b) ==
  /\ x.host = b.machine /\ x.uuid = b.uuid /\ x.status = b.status
  /\ x.findings = Findings(b)

\* A host's row holds what a bundle said and nothing else.
RowsKnown ==
  \A i \in DOMAIN scans : scans[i].host # None =>
    \E b \in ever : StoredFrom(scans[i], b)

\* What a request between picking and reading the previous scan relies on.
ComparePick(r) ==
  /\ body[r].status = "done"
  /\ PickedOf(prev[r], who[r])
  /\ prev[r] \in DOMAIN scans => scans[prev[r]].uuid # body[r].uuid

PicksHold ==
  /\ \A r \in Reqs : At(r, "compare") => ComparePick(r)
  /\ exporter.at = "copy" => \A m \in Machines : PickedOf(exporter.latest[m], m)

\* Drift rows that may be stored with bundle b.
IsDrift(d, b) ==
  d # NoDrift =>
    /\ b.status = "done"
    /\ \/ d = Drift({}, Findings(b))
       \/ \E c \in ever : /\ c.machine = b.machine
                          /\ c.status = "done"
                          /\ c.uuid # b.uuid
                          /\ d = Drift(Findings(c), Findings(b))

Undrifted == {"idle", "body", "drift", "compare"}
Drifted == {"check", "insert", "conflict"}

\* No request carries drift rows of an earlier one, ...
DriftsFresh == \A r \in Reqs : pc[r] \in Undrifted => drift[r] = NoDrift

\* ... and those it carries to its insert are its own.
DriftsHold == \A r \in Reqs : pc[r] \in Drifted => IsDrift(drift[r], body[r])

PickInv ==
  /\ FloorInv /\ RowsKnown /\ DriftsFresh
  /\ ~ misfired => PicksHold /\ DriftsHold

HistInv == PickInv /\ DriftSound /\ RollupFaithful

-----------------------------------------------------------------------------
\* A picked id stays picked, and its row, if any, is the row it was.
LEMMA PickedStays ==
  ASSUME FloorInv, [Next]_vars, ~ misfired', NEW m \in Machines,
         NEW i \in ScanIds \cup {0}, PickedOf(i, m)
  PROVE  /\ PickedOf(i, m)'
         /\ i \in DOMAIN scans' => i \in DOMAIN scans /\ SameScan(scans'[i], scans[i])
<1>a. TypeInv /\ TypeInv'
  BY NextType DEF FloorInv
<1>b. /\ DOMAIN scans \subseteq ScanIds /\ DOMAIN scans' \subseteq ScanIds
      /\ ScanIds \subseteq Nat /\ 0 \notin ScanIds
  BY <1>a DEF TypeInv, TypeOK, TableType, ScanIds
<1>1. CASE i = 0
  BY <1>1, <1>b DEF PickedOf
<1>2. CASE i # 0
  <2>1. PICK j \in OfHost(m) : j >= i
    BY <1>2 DEF PickedOf
  <2>2. i \in DOMAIN scans => i \in DoneOf(m)
    BY <1>2 DEF PickedOf
  <2>a. j \in DOMAIN scans
    BY DEF OfHost
  <2>b. j \in Nat
    BY <1>b, <2>a
  <2>c. i \in Nat
    BY <1>b
  <2>4. PICK k \in OfHost(m)' : k >= j
    BY LatestStays
  <2>5. k \in Nat
    BY <1>b DEF OfHost
  <2>6. k >= i
    BY <2>1, <2>b, <2>c, <2>4, <2>5
  <2>7. ASSUME i \in DOMAIN scans' PROVE i \in DOMAIN scans
    BY <1>a, <2>1, <2>a, <2>b, <2>c, <2>7, NewRowsLast
  <2>8. ASSUME i \in DOMAIN scans' PROVE SameScan(scans'[i], scans[i])
    BY <1>a, <2>7, <2>8, RowsStay
  <2>9. ASSUME i \in DOMAIN scans' PROVE i \in DoneOf(m)'
    BY <2>2, <2>7, <2>8, <2>9 DEF DoneOf, OfHost, SameScan
  <2> QED BY <2>6, <2>7, <2>8, <2>9 DEF PickedOf
<1> QED BY <1>1, <1>2

\* The bundles ever stored stay in the history.
LEMMA EverGrows ==
  ASSUME [Next]_vars
  PROVE  ever \subseteq ever'
BY DEF Next, Handle, Retain, Export, Operate, vars, table, work, history, Arrive, Throttle,
       Parse, PickPrevious, Compare, CheckUuid, InsertConflict, ResolveConflict,
       StoreBusy, Respond, ReadNewestDone, PruneDone, ReadStale, SweepDone, TrimFails,
       CliPrune, CliNextHost, CliDone, ExportSummary, ExportRender, BaselineCheck,
       BaselineInsert, Insert, ExportCopy, ReadOld, DeleteOld, DeleteRollup,
       ExportDiscard, HourPasses, CrashRestart

\* The rollup row ExportCopy stores.
RollupRow ==
  [host |-> None, uuid |-> None, status |-> "done",
   findings |-> UNION {scans[i].findings :
                         i \in {exporter.latest[m] : m \in Machines} \cap DOMAIN scans},
   drift |-> NoDrift, aged |-> FALSE]

\* A row that was not there is one request's bundle or an export's rollup.
LEMMA NewRows ==
  ASSUME [Next]_vars, NEW i \in DOMAIN scans', i \notin DOMAIN scans
  PROVE  \/ \E r \in Reqs : Insert(r) /\ scans'[i] = RowOf(body[r], who[r], drift[r])
         \/ ExportCopy /\ scans'[i] = RollupRow
<1> DEFINE Goal == \/ \E r \in Reqs : Insert(r) /\ scans'[i] = RowOf(body[r], who[r], drift[r])
                   \/ ExportCopy /\ scans'[i] = RollupRow
<1>1. ASSUME NEW r \in Reqs, Insert(r) PROVE Goal
  <2>1. scans'[i] = RowOf(body[r], who[r], drift[r])
    BY <1>1 DEF Insert, AddRow
  <2> QED BY <1>1, <2>1
<1>2. ASSUME ExportCopy PROVE Goal
  <2>1. PICK k \in ScanIds : AddRow(k, RollupRow)
    BY <1>2 DEF ExportCopy, RollupRow
  <2>2. scans'[i] = RollupRow
    BY <2>1 DEF AddRow
  <2> QED BY <1>2, <2>2
<1>3. ASSUME UNCHANGED scans PROVE FALSE
  BY <1>3
<1>4. ASSUME NEW k, DeleteScan(k) PROVE FALSE
  BY <1>4 DEF DeleteScan
<1>5. ASSUME HourPasses \/ CrashRestart PROVE FALSE
  BY <1>5 DEF HourPasses, CrashRestart
<1> HIDE DEF Goal
<1>6. Goal
  BY <1>1, <1>2, <1>3, <1>4, <1>5
     DEF Next, Handle, Retain, Export, Operate, vars, table, work, history, Arrive, Throttle,
         Parse, PickPrevious, Compare, CheckUuid, InsertConflict, ResolveConflict,
         StoreBusy, Respond, ReadNewestDone, PruneDone, ReadStale, SweepDone, TrimFails,
         CliPrune, CliNextHost, CliDone, ExportSummary, ExportRender, BaselineCheck,
         BaselineInsert, ReadOld, DeleteOld, DeleteRollup, ExportDiscard
<1> QED BY <1>6 DEF Goal

\* Every row of a host is some stored bundle's.
LEMMA NextKnown ==
  ASSUME TypeInv, RowsKnown, [Next]_vars
  PROVE  RowsKnown'
<1> SUFFICES ASSUME NEW i \in DOMAIN scans', scans'[i].host # None
             PROVE  \E b \in ever' : StoredFrom(scans'[i], b)
  BY DEF RowsKnown
<1>1. CASE i \in DOMAIN scans
  <2>1. SameScan(scans'[i], scans[i])
    BY <1>1, RowsStay
  <2>2. PICK b \in ever : StoredFrom(scans[i], b)
    BY <1>1, <2>1 DEF SameScan, RowsKnown
  <2>3. StoredFrom(scans'[i], b)
    BY <2>1, <2>2 DEF SameScan, StoredFrom
  <2> QED BY <2>3, EverGrows
<1>2. CASE i \notin DOMAIN scans
  <2>1. PICK r \in Reqs : Insert(r) /\ scans'[i] = RowOf(body[r], who[r], drift[r])
    BY <1>2, NewRows DEF RollupRow
  <2>2. body[r].machine = who[r]
    BY <2>1 DEF Insert, At, TypeInv, Stages, Parsing
  <2>3. body[r] \in ever'
    BY <2>1 DEF Insert
  <2> QED BY <2>1, <2>2, <2>3 DEF RowOf, StoredFrom
<1> QED BY <1>1, <1>2

-----------------------------------------------------------------------------
\* A request about to read the previous scan has just picked it, or still has
\* the pick, the host and the bundle it had.
ComparesOn(r) == At(r, "compare") /\ UNCHANGED <<prev[r], who[r], body[r]>>

LEMMA ComparersGoOn ==
  ASSUME TypeInv, [Next]_vars, NEW r \in Reqs, pc'[r] = "compare"
  PROVE  PickPrevious(r) \/ ComparesOn(r)
<1> USE NamesAssumption DEF ComparesOn, At, TypeInv, TypeOK, WorkerType, Workers
<1>1. ASSUME UNCHANGED <<pc, who, body, prev>> PROVE ComparesOn(r)
  BY <1>1
<1>2. ASSUME NEW q \in Reqs, Handle(q) PROVE PickPrevious(r) \/ ComparesOn(r)
  BY <1>2 DEF Handle, Parse, PickPrevious, Compare, CheckUuid, Insert, InsertConflict,
              ResolveConflict, StoreBusy, Respond, Goto, Answer, work
<1>3. ASSUME NEW v \in Workers, Retain(v) PROVE ComparesOn(r)
  BY <1>3 DEF Retain, ReadNewestDone, ReadOld, DeleteOld, PruneDone, ReadStale,
              DeleteRollup, SweepDone, TrimFails, Goto, Answer, work
<1>4. ASSUME CliPrune \/ CliNextHost \/ CliDone PROVE ComparesOn(r)
  BY <1>4 DEF CliPrune, CliNextHost, CliDone, Goto, work
<1>5. ASSUME NEW q \in Reqs, NEW m, NEW b, Arrive(q, m, b) \/ Throttle(q, m, b)
      PROVE  ComparesOn(r)
  BY <1>5 DEF Arrive, Throttle, Goto, Answer
<1>6. ASSUME CrashRestart PROVE FALSE
  BY <1>6 DEF CrashRestart
<1> QED
  BY <1>1, <1>2, <1>3, <1>4, <1>5, <1>6
     DEF Next, Export, Operate, vars, work, ExportSummary, ExportCopy, ExportRender,
         ExportDiscard, BaselineCheck, BaselineInsert, HourPasses

\* A request on its way to the insert has just compared, has nothing to
\* compare with, or still has the drift rows and the bundle it had.
CarriesOn(r) == pc[r] \in Drifted /\ UNCHANGED <<drift[r], body[r]>>

LEMMA CarriersGoOn ==
  ASSUME TypeInv, [Next]_vars, NEW r \in Reqs, pc'[r] \in Drifted
  PROVE  Compare(r) \/ PickPrevious(r) \/ CarriesOn(r)
<1> USE NamesAssumption DEF CarriesOn, Drifted, At, TypeInv, TypeOK, WorkerType, Workers
<1>1. ASSUME UNCHANGED <<pc, body, drift>> PROVE CarriesOn(r)
  BY <1>1
<1>2. ASSUME NEW q \in Reqs, Handle(q)
      PROVE  Compare(r) \/ PickPrevious(r) \/ CarriesOn(r)
  BY <1>2 DEF Handle, Parse, PickPrevious, Compare, CheckUuid, Insert, InsertConflict,
              ResolveConflict, StoreBusy, Respond, Goto, Answer, work
<1>3. ASSUME NEW v \in Workers, Retain(v) PROVE CarriesOn(r)
  BY <1>3 DEF Retain, ReadNewestDone, ReadOld, DeleteOld, PruneDone, ReadStale,
              DeleteRollup, SweepDone, TrimFails, Goto, Answer, work
<1>4. ASSUME CliPrune \/ CliNextHost \/ CliDone PROVE CarriesOn(r)
  BY <1>4 DEF CliPrune, CliNextHost, CliDone, Goto, work
<1>5. ASSUME NEW q \in Reqs, NEW m, NEW b, Arrive(q, m, b) \/ Throttle(q, m, b)
      PROVE  CarriesOn(r)
  BY <1>5 DEF Arrive, Throttle, Goto, Answer
<1>6. ASSUME CrashRestart PROVE FALSE
  BY <1>6 DEF CrashRestart
<1> QED
  BY <1>1, <1>2, <1>3, <1>4, <1>5, <1>6
     DEF Next, Export, Operate, vars, work, ExportSummary, ExportCopy, ExportRender,
         ExportDiscard, BaselineCheck, BaselineInsert, HourPasses

\* No step starts a request with drift rows in its hands.
LEMMA NextFresh ==
  ASSUME TypeInv, DriftsFresh, [Next]_vars
  PROVE  DriftsFresh'
<1> SUFFICES ASSUME NEW r \in Reqs, pc'[r] \in Undrifted PROVE drift'[r] = NoDrift
  BY DEF DriftsFresh
<1>a. pc[r] \in Undrifted => drift[r] = NoDrift
  BY DEF DriftsFresh
<1> USE NamesAssumption DEF Undrifted, At, TypeInv, TypeOK, WorkerType, Workers
<1>1. ASSUME UNCHANGED <<pc, drift>> PROVE drift'[r] = NoDrift
  BY <1>1, <1>a
<1>2. ASSUME NEW q \in Reqs, Handle(q) PROVE drift'[r] = NoDrift
  BY <1>2, <1>a
     DEF Handle, Parse, PickPrevious, Compare, CheckUuid, Insert, InsertConflict,
         ResolveConflict, StoreBusy, Respond, Goto, Answer, work
<1>3. ASSUME NEW v \in Workers, Retain(v) PROVE drift'[r] = NoDrift
  BY <1>3, <1>a
     DEF Retain, ReadNewestDone, ReadOld, DeleteOld, PruneDone, ReadStale,
         DeleteRollup, SweepDone, TrimFails, Goto, Answer, work
<1>4. ASSUME CliPrune \/ CliNextHost \/ CliDone PROVE drift'[r] = NoDrift
  BY <1>4, <1>a DEF CliPrune, CliNextHost, CliDone, Goto, work
<1>5. ASSUME NEW q \in Reqs, NEW m, NEW b, Arrive(q, m, b) \/ Throttle(q, m, b)
      PROVE  drift'[r] = NoDrift
  BY <1>5, <1>a DEF Arrive, Throttle, Goto, Answer
<1>6. ASSUME CrashRestart PROVE drift'[r] = NoDrift
  BY <1>6 DEF CrashRestart
<1> QED
  BY <1>1, <1>2, <1>3, <1>4, <1>5, <1>6
     DEF Next, Export, Operate, vars, work, ExportSummary, ExportCopy, ExportRender,
         ExportDiscard, BaselineCheck, BaselineInsert, HourPasses

-----------------------------------------------------------------------------
\* The last of a set of ids is one of them, or 0 for none.
LEMMA LastIsOne ==
  ASSUME NEW i, NEW S, IsLast(i, S), i # 0
  PROVE  i \in S
BY DEF IsLast

\* A done scan of a host is a pick of it.
LEMMA DoneIsPicked ==
  ASSUME TypeInv, NEW m \in Machines, NEW i \in DoneOf(m)
  PROVE  PickedOf(i, m)
<1>1. i \in OfHost(m)
  BY DEF DoneOf
<1>2. i \in DOMAIN scans
  BY <1>1 DEF OfHost
<1>3. i \in Nat
  BY <1>2 DEF TypeInv, TypeOK, TableType, ScanIds
<1>4. i >= i
  BY <1>3
<1> QED BY <1>1, <1>4 DEF PickedOf

\* Picks stay good until they are used, whatever is stored and deleted.
LEMMA NextPicks ==
  ASSUME FloorInv, PicksHold, [Next]_vars, ~ misfired'
  PROVE  PicksHold'
<1>a. TypeInv /\ TypeInv'
  BY NextType DEF FloorInv
<1>1. ASSUME NEW r \in Reqs, pc'[r] = "compare" PROVE ComparePick(r)'
  <2>a. r \in Workers
    BY DEF Workers
  <2>1. CASE PickPrevious(r)
    <3>1. /\ UNCHANGED <<scans, who, body>>
          /\ At(r, "drift")
          /\ pc' = [pc EXCEPT ![r] = IF prev'[r] = 0 THEN "check" ELSE "compare"]
          /\ IsLast(prev'[r], DriftBase(who[r], body[r]))
      BY <2>1, <2>a, <1>a
         DEF PickPrevious, Goto, table, TypeInv, TypeOK, WorkerType
    <3>2. prev'[r] # 0
      BY <3>1, <1>1, <1>a, <2>a DEF TypeInv, TypeOK, WorkerType
    <3>3. prev'[r] \in DriftBase(who[r], body[r])
      BY <3>1, <3>2, LastIsOne
    <3>4. /\ body[r].status = "done" /\ WithUuid(body[r].uuid) = {}
          /\ prev'[r] \in DoneOf(who[r])
      BY <3>3 DEF DriftBase
    <3>5. who[r] \in Machines
      BY <3>1, <1>a DEF At, TypeInv, Stages
    <3>6. PickedOf(prev'[r], who[r])
      BY <3>4, <3>5, <1>a, DoneIsPicked
    <3>7. PickedOf(prev[r], who[r])'
      BY <3>1, <3>6 DEF PickedOf, OfHost, DoneOf
    <3> QED BY <3>1, <3>4, <3>7 DEF ComparePick, WithUuid
  <2>2. CASE ComparesOn(r)
    <3>1. ComparePick(r) /\ prev'[r] = prev[r] /\ who'[r] = who[r] /\ body'[r] = body[r]
      BY <2>2 DEF ComparesOn, PicksHold
    <3>2. who[r] \in Machines /\ prev[r] \in ScanIds \cup {0}
      BY <2>2, <2>a, <1>a DEF ComparesOn, At, TypeInv, TypeOK, WorkerType, Stages
    <3>3. /\ PickedOf(prev[r], who[r])
          /\ prev[r] \in DOMAIN scans => scans[prev[r]].uuid # body[r].uuid
          /\ body[r].status = "done"
      BY <3>1 DEF ComparePick
    <3> QED BY <3>1, <3>2, <3>3, PickedStays DEF ComparePick, SameScan, PickedOf, OfHost, DoneOf
  <2> QED BY <1>1, <1>a, <2>1, <2>2, ComparersGoOn
<1>2. ASSUME exporter'.at = "copy", NEW m \in Machines
      PROVE  PickedOf(exporter.latest[m], m)'
  <2>1. CASE ExportSummary
    <3>1. UNCHANGED scans /\ IsLast(exporter'.latest[m], DoneOf(m))
      BY <2>1, <1>2 DEF ExportSummary, Candidates, table
    <3>2. CASE exporter'.latest[m] = 0
      BY <3>2 DEF PickedOf
    <3>3. CASE exporter'.latest[m] # 0
      <4>1. PickedOf(exporter'.latest[m], m)
        BY <3>1, <3>3, <1>a, LastIsOne, DoneIsPicked
      <4> QED BY <3>1, <4>1 DEF PickedOf, OfHost, DoneOf
    <3> QED BY <3>2, <3>3
  <2>2. CASE UNCHANGED exporter
    <3>1. PickedOf(exporter.latest[m], m) /\ exporter.latest[m] \in ScanIds \cup {0}
      BY <2>2, <1>2, <1>a DEF PicksHold, TypeInv, TypeOK, HandlerType
    <3> QED BY <2>2, <3>1, PickedStays DEF PickedOf, OfHost, DoneOf
  <2>a. exporter = [at |-> exporter.at, latest |-> exporter.latest, id |-> exporter.id]
    BY <1>a DEF TypeInv, TypeOK, HandlerType
  <2>b. ASSUME ExportCopy PROVE FALSE
    BY <2>b, <1>2 DEF ExportCopy
  <2>3. ASSUME CrashRestart PROVE FALSE
    BY <2>3, <1>2 DEF CrashRestart
  <2>4. ASSUME ExportRender \/ ExportDiscard PROVE FALSE
    BY <2>4, <2>a, <1>2 DEF ExportRender, ExportDiscard
  <2> QED
    BY <2>b, <2>1, <2>2, <2>3, <2>4
       DEF Next, Handle, Retain, Export, Operate, vars, work, Arrive, Throttle,
           Parse, PickPrevious, Compare, CheckUuid, Insert, InsertConflict, ResolveConflict,
           StoreBusy, Respond, ReadNewestDone, ReadOld, DeleteOld, PruneDone, ReadStale,
           DeleteRollup, SweepDone, TrimFails, CliPrune, CliNextHost, CliDone,
           BaselineCheck, BaselineInsert, HourPasses
<1> QED BY <1>1, <1>2 DEF PicksHold, At

\* Drift rows a request carries to its insert are a difference from a scan of
\* the same host that was stored before.
LEMMA NextDrifts ==
  ASSUME TypeInv, RowsKnown, DriftsFresh, PicksHold, DriftsHold, [Next]_vars
  PROVE  DriftsHold'
<1> SUFFICES ASSUME NEW r \in Reqs, pc'[r] \in Drifted PROVE IsDrift(drift[r], body[r])'
  BY DEF DriftsHold
<1>a. r \in Workers /\ ever \subseteq ever'
  BY EverGrows DEF Workers
<1>1. CASE Compare(r)
  <2> DEFINE before == IF prev[r] \in DOMAIN scans THEN scans[prev[r]].findings ELSE {}
  <2>1. /\ At(r, "compare") /\ body' = body
        /\ drift'[r] = Drift(before, Findings(body[r]))
    BY <1>1, <1>a DEF Compare, TypeInv, TypeOK, WorkerType
  <2>2. ComparePick(r) /\ body[r].machine = who[r] /\ who[r] \in Machines
    BY <2>1 DEF PicksHold, At, TypeInv, Stages, Parsing
  <2>3. CASE prev[r] \notin DOMAIN scans
    <3>1. drift'[r] = Drift({}, Findings(body[r]))
      BY <2>1, <2>3
    <3> QED BY <2>1, <2>2, <3>1 DEF IsDrift, ComparePick, Findings, Drift, NoDrift
  <2>4. CASE prev[r] \in DOMAIN scans
    <3>1. prev[r] \in DoneOf(who[r]) /\ scans[prev[r]].uuid # body[r].uuid
      BY <2>2, <2>4 DEF ComparePick, PickedOf, TypeInv, TypeOK, TableType, ScanIds
    <3>2. /\ scans[prev[r]].host = who[r] /\ scans[prev[r]].status = "done"
          /\ scans[prev[r]].host # None
      BY <3>1, <2>2, NamesAssumption DEF DoneOf, OfHost
    <3>3. PICK c \in ever : StoredFrom(scans[prev[r]], c)
      BY <2>4, <3>2 DEF RowsKnown
    <3>4. /\ c.machine = body[r].machine /\ c.status = "done" /\ c.uuid # body[r].uuid
          /\ c \in ever'
      BY <3>1, <3>2, <3>3, <2>2, <1>a DEF StoredFrom
    <3>5. drift'[r] = Drift(Findings(c), Findings(body[r]))
      BY <2>1, <2>4, <3>3 DEF StoredFrom
    <3>6. body[r].status = "done"
      BY <2>2 DEF ComparePick
    <3> QED BY <2>1, <3>4, <3>5, <3>6 DEF IsDrift, Findings, Drift, NoDrift
  <2> QED BY <2>3, <2>4
<1>2. CASE PickPrevious(r)
  <2>1. drift'[r] = NoDrift
    BY <1>2 DEF PickPrevious, At, DriftsFresh, Undrifted
  <2> QED BY <2>1 DEF IsDrift, NoDrift
<1>3. CASE CarriesOn(r)
  <2>1. IsDrift(drift[r], body[r]) /\ drift'[r] = drift[r] /\ body'[r] = body[r]
    BY <1>3 DEF CarriesOn, DriftsHold
  <2> QED BY <2>1, <1>a, ZenonT(30) DEF IsDrift, NoDrift, Drift, Findings
<1> QED BY <1>1, <1>2, <1>3, CarriersGoOn

\* The drift rows in the table stay differences from earlier scans.
LEMMA NextSound ==
  ASSUME TypeInv, DriftsHold, DriftSound, [Next]_vars, ~ misfired, ~ misfired'
  PROVE  DriftSound'
<1> DEFINE Sound(x, known) ==
      x.drift # NoDrift =>
        /\ x.status = "done"
        /\ \/ x.drift = Drift({}, x.findings)
           \/ \E b \in known : /\ b.machine = x.host
                               /\ b.status = "done"
                               /\ b.uuid # x.uuid
                               /\ x.drift = Drift(Findings(b), x.findings)
<1> SUFFICES ASSUME NEW i \in DOMAIN scans' PROVE Sound(scans'[i], ever')
  BY DEF DriftSound, NoDrift, Drift, Findings
<1>1. CASE i \in DOMAIN scans
  <2>1. SameScan(scans'[i], scans[i])
    BY <1>1, RowsStay
  <2>2. Sound(scans[i], ever)
    BY <1>1 DEF DriftSound
  <2> QED BY <2>1, <2>2, EverGrows DEF SameScan
<1>2. ASSUME NEW r \in Reqs, Insert(r), scans'[i] = RowOf(body[r], who[r], drift[r])
      PROVE  Sound(scans'[i], ever')
  <2>1. IsDrift(drift[r], body[r]) /\ body[r].machine = who[r]
    BY <1>2 DEF Insert, At, DriftsHold, Drifted, TypeInv, Stages, Parsing
  <2>2. /\ scans'[i].host = who[r] /\ scans'[i].uuid = body[r].uuid
        /\ scans'[i].status = body[r].status /\ scans'[i].drift = drift[r]
        /\ scans'[i].findings = Findings(body[r])
    BY <1>2 DEF RowOf
  <2> QED BY <2>1, <2>2, EverGrows DEF IsDrift
<1>3. ASSUME scans'[i] = RollupRow PROVE Sound(scans'[i], ever')
  BY <1>3 DEF RollupRow
<1> QED BY <1>1, <1>2, <1>3, NewRows

\* An export copies, for each host, one complete scan of it or nothing.
LEMMA NextRollups ==
  ASSUME TypeInv, RowsKnown, PicksHold, RollupFaithful, [Next]_vars, ~ misfired, ~ misfired'
  PROVE  RollupFaithful'
<1> DEFINE Part(x, m) == {f \in x.findings : f[1] = m}
           Faithful(x, m, known) ==
             Part(x, m) = {} \/ \E b \in known : /\ b.machine = m /\ b.status = "done"
                                                /\ Part(x, m) = Findings(b)
<1> SUFFICES ASSUME NEW i \in DOMAIN scans', scans'[i].host = None, NEW m \in Machines
             PROVE  Faithful(scans'[i], m, ever')
  BY DEF RollupFaithful, IsRollup, Findings
<1>1. CASE i \in DOMAIN scans
  <2>1. SameScan(scans'[i], scans[i])
    BY <1>1, RowsStay
  <2>2. Faithful(scans[i], m, ever)
    BY <1>1, <2>1 DEF RollupFaithful, IsRollup, SameScan
  <2>3. Part(scans'[i], m) = Part(scans[i], m)
    BY <2>1 DEF SameScan
  <2> QED BY <2>2, <2>3, EverGrows
<1>2. ASSUME NEW r \in Reqs, Insert(r), scans'[i] = RowOf(body[r], who[r], drift[r])
      PROVE  FALSE
  BY <1>2, NamesAssumption DEF Insert, At, RowOf, TypeInv, Stages
<1>3. ASSUME ExportCopy, scans'[i] = RollupRow PROVE Faithful(scans'[i], m, ever')
  <2> DEFINE src == exporter.latest
  <2>1. \A n \in Machines : src[n] \in DOMAIN scans => src[n] \in DoneOf(n)
    BY <1>3 DEF ExportCopy, PicksHold, PickedOf, TypeInv, TypeOK, TableType, ScanIds
  <2>2. \A n \in Machines : src[n] \in DOMAIN scans =>
          \E b \in ever : /\ b.machine = n /\ b.status = "done"
                          /\ scans[src[n]].findings = Findings(b)
    BY <2>1, NamesAssumption DEF RowsKnown, StoredFrom, DoneOf, OfHost
  <2>3. \A n \in Machines : src[n] \in DOMAIN scans =>
          \A f \in scans[src[n]].findings : f[1] = n
    BY <2>2 DEF Findings
  <2>4. scans'[i].findings =
          UNION {scans[k].findings : k \in {src[n] : n \in Machines} \cap DOMAIN scans}
    BY <1>3 DEF RollupRow
  <2>5. \A f : f \in scans'[i].findings <=>
          \E n \in Machines : src[n] \in DOMAIN scans /\ f \in scans[src[n]].findings
    BY <2>4
  <2>6. CASE src[m] \in DOMAIN scans
    <3>1. Part(scans'[i], m) = scans[src[m]].findings
      BY <2>3, <2>5, <2>6
    <3> QED BY <2>2, <2>6, <3>1, EverGrows
  <2>7. CASE src[m] \notin DOMAIN scans
    <3>1. Part(scans'[i], m) = {}
      BY <2>3, <2>5, <2>7
    <3> QED BY <3>1
  <2> QED BY <2>6, <2>7
<1> QED BY <1>1, <1>2, <1>3, NewRows

-----------------------------------------------------------------------------
\* The history invariant holds in every reachable state.
LEMMA HistInvariance == Spec => []HistInv
<1>1. Init => HistInv
  <2> SUFFICES ASSUME Init PROVE HistInv
    OBVIOUS
  <2>1. FloorInv
    BY InitType DEF Init, FloorInv, RetentionFloor, OldOwned, At
  <2>2. RowsKnown /\ DriftSound /\ RollupFaithful
    BY DEF Init, RowsKnown, DriftSound, RollupFaithful
  <2>3. DriftsFresh /\ PicksHold /\ DriftsHold
    BY DEF Init, DriftsFresh, PicksHold, DriftsHold, At, Workers, Drifted
  <2> QED BY <2>1, <2>2, <2>3 DEF HistInv, PickInv
<1>2. HistInv /\ FloorInv' /\ [Next]_vars => HistInv'
  <2> SUFFICES ASSUME HistInv, FloorInv', [Next]_vars PROVE HistInv'
    OBVIOUS
  <2>1. RowsKnown' /\ DriftsFresh'
    BY NextKnown, NextFresh DEF HistInv, PickInv, FloorInv
  <2>2. CASE misfired'
    BY <2>1, <2>2 DEF HistInv, PickInv, DriftSound, RollupFaithful
  <2>3. CASE ~ misfired'
    <3>1. ~ misfired
      BY <2>3, MisfireLasts
    <3>2. PicksHold' /\ DriftsHold'
      BY <2>3, <3>1, NextPicks, NextDrifts DEF HistInv, PickInv, FloorInv
    <3>3. DriftSound' /\ RollupFaithful'
      BY <2>3, <3>1, NextSound, NextRollups DEF HistInv, PickInv, FloorInv
    <3> QED BY <2>1, <3>2, <3>3 DEF HistInv, PickInv
  <2> QED BY <2>2, <2>3
<1> QED BY <1>1, <1>2, FloorInvariance, PTL DEF Spec

\* Drift rows are the difference from one complete earlier scan of the same
\* host, whatever _bundle_drift's two reads have between them.
THEOREM DriftIsSound == Spec => []DriftSound
<1>1. HistInv => DriftSound
  BY DEF HistInv
<1> QED BY <1>1, HistInvariance, PTL

\* A rollup shows one complete scan of each host it shows, although the
\* summary that chose them was read before.
THEOREM RollupsAreFaithful == Spec => []RollupFaithful
<1>1. HistInv => RollupFaithful
  BY DEF HistInv
<1> QED BY <1>1, HistInvariance, PTL

\* A host's rows and drift rows hold what that host found and nothing else.
THEOREM RowsAreAttributed == Spec => []Attribution
<1>1. HistInv => Attribution
  <2> SUFFICES ASSUME HistInv, NEW i \in DOMAIN scans, scans[i].host # None
               PROVE  /\ \A f \in scans[i].findings : f[1] = scans[i].host
                      /\ misfired \/ \A f \in scans[i].drift.added \cup scans[i].drift.removed :
                                       f[1] = scans[i].host
    BY DEF Attribution
  <2>1. PICK b \in ever : StoredFrom(scans[i], b)
    BY DEF HistInv, PickInv, RowsKnown
  <2>2. \A f \in scans[i].findings : f[1] = scans[i].host
    BY <2>1 DEF StoredFrom, Findings
  <2>3. ASSUME ~ misfired,
               NEW f \in scans[i].drift.added \cup scans[i].drift.removed
        PROVE  f[1] = scans[i].host
    <3>1. CASE scans[i].drift = NoDrift
      BY <2>3, <3>1 DEF NoDrift
    <3>2. CASE scans[i].drift # NoDrift
      <4>1. CASE scans[i].drift = Drift({}, scans[i].findings)
        BY <2>2, <2>3, <4>1 DEF Drift
      <4>2. CASE scans[i].drift # Drift({}, scans[i].findings)
        <5>1. PICK c \in ever : /\ c.machine = scans[i].host
                                /\ scans[i].drift = Drift(Findings(c), scans[i].findings)
          BY <2>3, <3>2, <4>2 DEF HistInv, DriftSound
        <5>2. \A g \in Findings(c) : g[1] = scans[i].host
          BY <5>1 DEF Findings
        <5> QED BY <2>2, <2>3, <5>1, <5>2 DEF Drift
      <4> QED BY <4>1, <4>2
    <3> QED BY <3>1, <3>2
  <2> QED BY <2>2, <2>3
<1> QED BY <1>1, HistInvariance, PTL

-----------------------------------------------------------------------------
\* The rollup an export has stored, until it discards it.
RollupSafe ==
  ~ SlowRender /\ ~ misfired /\ exporter.at \in {"render", "discard"} =>
    /\ exporter.id \in DOMAIN scans
    /\ IsRollup(exporter.id)
    /\ ~ scans[exporter.id].aged

\* A row that stays exactly as it is.
RowKept(i) == i \in DOMAIN scans' /\ scans'[i] = scans[i]

\* While an export renders within the hour, nobody deletes or ages a fresh
\* rollup: retention lists hold hosts' scans and aged rollups.
LEMMA FreshRollupKept ==
  ASSUME FloorInv, [Next]_vars, ~ misfired', ~ SlowRender,
         exporter.at \in {"render", "discard"}, exporter'.at \in {"render", "discard"},
         NEW i \in DOMAIN scans, IsRollup(i), ~ scans[i].aged
  PROVE  RowKept(i)
<1>a. TypeInv /\ ~ misfired
  BY MisfireLasts DEF FloorInv
<1>b. exporter = [at |-> exporter.at, latest |-> exporter.latest, id |-> exporter.id]
  BY <1>a DEF TypeInv, TypeOK, HandlerType
<1>1. ASSUME UNCHANGED scans PROVE RowKept(i)
  BY <1>1 DEF RowKept
<1>2. ASSUME NEW k, NEW row, NextId(k), AddRow(k, row), k \in ScanIds PROVE RowKept(i)
  <2>1. i # k
    BY <1>2, <1>a DEF NextId, TypeInv, TypeOK, TableType, ScanIds
  <2> QED BY <1>2, <2>1 DEF AddRow, RowKept
<1>3. ASSUME NEW v \in Workers, DeleteOld(v) PROVE RowKept(i)
  <2>1. PICK k \in old[v] : scans' = [j \in DOMAIN scans \ {k} |-> scans[j]]
    BY <1>3 DEF DeleteOld, DeleteScan
  <2>2. At(v, "delete") /\ who[v] \in Machines
    BY <1>3, <1>a DEF DeleteOld, At, TypeInv, Stages, Workers
  <2>3. i # k
    BY <1>a, <2>2, NamesAssumption DEF FloorInv, OldOwned, IsRollup
  <2> QED BY <2>1, <2>3 DEF RowKept
<1>4. ASSUME NEW v \in Workers, DeleteRollup(v) PROVE RowKept(i)
  <2>1. PICK k \in old[v] : /\ scans' = [j \in DOMAIN scans \ {k} |-> scans[j]]
                            /\ misfired' = (misfired \/ k \in DOMAIN scans \ StaleRollups)
    BY <1>4 DEF DeleteRollup, DeleteScan
  <2>2. i # k
    BY <2>1 DEF StaleRollups
  <2> QED BY <2>1, <2>2 DEF RowKept
<1>5. ASSUME ExportDiscard PROVE FALSE
  BY <1>5, <1>b DEF ExportDiscard
<1>6. ASSUME HourPasses \/ CrashRestart PROVE FALSE
  BY <1>6 DEF HourPasses, CrashRestart
<1>7. ASSUME NEW r \in Reqs, Handle(r) PROVE RowKept(i)
  BY <1>1, <1>2, <1>7
     DEF Handle, table, Parse, PickPrevious, Compare, CheckUuid, Insert, InsertConflict,
         ResolveConflict, StoreBusy, Respond
<1>8. ASSUME NEW w \in Workers, Retain(w) PROVE RowKept(i)
  BY <1>1, <1>3, <1>4, <1>8
     DEF Retain, table, ReadNewestDone, ReadOld, PruneDone, ReadStale, SweepDone, TrimFails
<1>9. ASSUME Export PROVE RowKept(i)
  BY <1>1, <1>2, <1>5, <1>9 DEF Export, table, ExportSummary, ExportCopy, ExportRender
<1> QED
  BY <1>1, <1>6, <1>7, <1>8, <1>9
     DEF Next, Operate, vars, table, Arrive, Throttle, CliPrune, CliNextHost, CliDone,
         BaselineCheck, BaselineInsert

\* The rollup is there as long as its export may read it.
LEMMA RollupInvariance == Spec => []RollupSafe
<1>1. Init => RollupSafe
  BY DEF Init, RollupSafe
<1>2. FloorInv /\ RollupSafe /\ [Next]_vars => RollupSafe'
  <2> SUFFICES ASSUME FloorInv, RollupSafe, [Next]_vars, ~ SlowRender, ~ misfired',
                      exporter'.at \in {"render", "discard"}
               PROVE  /\ exporter'.id \in DOMAIN scans'
                      /\ scans'[exporter'.id].host = None
                      /\ scans'[exporter'.id].aged = FALSE
    BY DEF RollupSafe, IsRollup
  <2>a. TypeInv /\ ~ misfired
    BY MisfireLasts DEF FloorInv
  <2>b. exporter = [at |-> exporter.at, latest |-> exporter.latest, id |-> exporter.id]
    BY <2>a DEF TypeInv, TypeOK, HandlerType
  <2>1. CASE ExportCopy
    <3>1. PICK k \in ScanIds : /\ AddRow(k, RollupRow)
                               /\ exporter' = [at |-> "render", id |-> k,
                                               latest |-> [m \in Machines |-> 0]]
      BY <2>1, Zenon DEF ExportCopy, RollupRow
    <3>a. exporter'.id = k
      BY <3>1
    <3>2. k \in DOMAIN scans' /\ scans'[k] = RollupRow
      BY <3>1 DEF AddRow
    <3> QED BY <3>a, <3>2 DEF RollupRow
  <2>2. CASE exporter.at \in {"render", "discard"} /\ exporter'.id = exporter.id
    <3>1. /\ exporter.id \in DOMAIN scans /\ IsRollup(exporter.id)
          /\ ~ scans[exporter.id].aged
      BY <2>2, <2>a DEF RollupSafe
    <3>2. RowKept(exporter.id)
      BY <2>2, <3>1, FreshRollupKept
    <3>3. scans[exporter.id].aged \in BOOLEAN
      BY <3>1, <2>a DEF TypeInv, TypeOK, TableType, Rows
    <3> QED BY <2>2, <3>1, <3>2, <3>3 DEF RowKept, IsRollup
  <2>3. ASSUME ExportSummary \/ CrashRestart PROVE FALSE
    BY <2>3 DEF ExportSummary, CrashRestart
  <2>4. ASSUME ExportDiscard PROVE FALSE
    BY <2>4, <2>b DEF ExportDiscard
  <2>5. ASSUME ExportRender
        PROVE  exporter.at \in {"render", "discard"} /\ exporter'.id = exporter.id
    BY <2>5, <2>b DEF ExportRender
  <2>6. ASSUME UNCHANGED exporter
        PROVE  exporter.at \in {"render", "discard"} /\ exporter'.id = exporter.id
    BY <2>6
  <2> QED
    BY <2>1, <2>2, <2>3, <2>4, <2>5, <2>6, ZenonT(30)
       DEF Next, Handle, Retain, Export, Operate, vars, work, Arrive, Throttle,
           Parse, PickPrevious, Compare, CheckUuid, Insert, InsertConflict, ResolveConflict,
           StoreBusy, Respond, ReadNewestDone, ReadOld, DeleteOld, PruneDone, ReadStale,
           DeleteRollup, SweepDone, TrimFails, CliPrune, CliNextHost, CliDone,
           BaselineCheck, BaselineInsert, HourPasses
<1> QED BY <1>1, <1>2, FloorInvariance, PTL DEF Spec

\* A render that ends within the hour reads its own rollup to the end.
THEOREM RenderKeepsItsRollup == Spec => []RollupOutlivesRender
<1>1. RollupSafe => RollupOutlivesRender
  BY DEF RollupSafe, RollupOutlivesRender
<1> QED BY <1>1, RollupInvariance, PTL

-----------------------------------------------------------------------------
(***************************************************************************)
(* Proof that Collector's retention passes keep the table bounded, for any *)
(* hosts, bundles, requests, limits and bounds.                            *)
(*                                                                         *)
(* A pass that completes has dealt with the rows it read, and with no      *)
(* others: what it takes from `unpruned` is exactly what its list covered. *)
(* Passes of one host overlap, so the invariant says what is left of the   *)
(* host's scans once any one of them is done, and that what they cover is  *)
(* nested: a later reader covers all that an earlier one still does.       *)
(***************************************************************************)

\* The scans of a host that retention counts.
Plain(m) == OfHost(m) \ baselines

\* Ids below one that the host has: no new row gets them.
Taken(S, m) == \A i \in S : \E j \in OfHost(m) : j >= i

Settled ==
  \A m \in Machines :
    /\ Taken(unpruned[m], m)
    /\ Cardinality(Plain(m) \ unpruned[m]) <= KeepMost + 1

\* What remains beyond the covered rows when w has deleted its list.
Remains(w) == (Plain(who[w]) \ (unpruned[who[w]] \ cover[w])) \ old[w]

PassesSettle ==
  \A w \in Workers : At(w, "delete") =>
    /\ Taken(cover[w], who[w])
    /\ Cardinality(Remains(w)) <= KeepMost + 1

\* The covered part of what is unpruned.
Covered(w) == cover[w] \cap unpruned[who[w]]

CoversNest ==
  \A v, w \in Workers :
    At(v, "delete") /\ At(w, "delete") /\ who[v] = who[w] =>
      Covered(v) \subseteq Covered(w) \/ Covered(w) \subseteq Covered(v)

BoundInv == FloorInv /\ (~ misfired => Settled /\ PassesSettle /\ CoversNest)

-----------------------------------------------------------------------------
\* A nonempty set of naturals has a least element.
LEMMA LeastExists ==
  ASSUME NEW T \in SUBSET Nat, T # {}
  PROVE  \E x \in T : \A y \in T : x <= y
<1> DEFINE R == OpToRel(<, Nat)
<1>1. R = {ss \in Nat \X Nat : ss[1] < ss[2]}
  BY DEF OpToRel
<1>2. IsWellFoundedOn(R, Nat)
  BY NatLessThanWellFounded
<1> HIDE DEF R
<1>3. PICK x \in T : \A y \in T : ~ (<<y, x>> \in R)
  BY <1>2, WFMin
<1>4. \A y \in T : ~ (y < x)
  BY <1>1, <1>3
<1> QED BY <1>4

\* At most `keep` ids of a set have fewer than `keep` above them.
LEMMA NewestAreFew ==
  ASSUME NEW S \in SUBSET ScanIds, NEW keep \in Nat
  PROVE  Cardinality({i \in S : ~ (Cardinality({j \in S : j > i}) >= keep)}) <= keep
<1> DEFINE Above(i) == {j \in S : j > i}
           T == {i \in S : ~ (Cardinality(Above(i)) >= keep)}
<1>a. ScanIds \subseteq Nat /\ IsFiniteSet(ScanIds)
  BY FS_Interval, BoundsAssumption DEF ScanIds
<1>b. S \subseteq Nat /\ T \subseteq S
  BY <1>a
<1>c. \A i : Above(i) \subseteq S
  OBVIOUS
<1>d. \A i \in T, y \in T : i <= y => y \in Above(i) \cup {i}
  BY <1>b
<1>e. \A i \in T : ~ (Cardinality(Above(i)) >= keep)
  OBVIOUS
<1> HIDE DEF T, Above
<1>f. IsFiniteSet(S)
  BY <1>a, FS_Subset
<1>g. IsFiniteSet(T) /\ \A i : IsFiniteSet(Above(i))
  BY <1>b, <1>c, <1>f, FS_Subset
<1>1. CASE T = {}
  <2>1. Cardinality(T) <= keep
    BY <1>1, FS_EmptySet
  <2> QED BY <2>1 DEF T, Above
<1>2. CASE T # {}
  <2>1. PICK x \in T : \A y \in T : x <= y
    <3>1. T \in SUBSET Nat
      BY <1>b
    <3> QED BY <3>1, <1>2, LeastExists
  <2>2. T \subseteq Above(x) \cup {x}
    BY <1>d, <2>1
  <2>3. Cardinality(Above(x)) \in Nat /\ ~ (Cardinality(Above(x)) >= keep)
    BY <1>e, <1>g, FS_CardinalityType
  <2>4. /\ IsFiniteSet(Above(x) \cup {x})
        /\ Cardinality(Above(x) \cup {x}) <= Cardinality(Above(x)) + 1
        /\ Cardinality(Above(x) \cup {x}) \in Nat
    <3>1. IsFiniteSet(Above(x))
      BY <1>g
    <3>2. /\ IsFiniteSet(Above(x) \cup {x})
          /\ \/ Cardinality(Above(x) \cup {x}) = Cardinality(Above(x))
             \/ Cardinality(Above(x) \cup {x}) = Cardinality(Above(x)) + 1
      BY <3>1, FS_AddElement, Zenon
    <3> QED BY <3>2, <2>3
  <2>5. Cardinality(T) <= Cardinality(Above(x) \cup {x}) /\ Cardinality(T) \in Nat
    BY <1>g, <2>2, <2>4, FS_Subset, FS_CardinalityType
  <2>6. Cardinality(T) <= keep
    BY <2>3, <2>4, <2>5
  <2> QED BY <2>6 DEF T, Above
<1> QED BY <1>1, <1>2

\* What prune_host leaves of the rows it reads: `keep` of them and the newest
\* done one.
LEMMA PruneLeavesFew ==
  ASSUME TypeInv, NEW m \in Machines, NEW keep \in Nat, NEW n
  PROVE  Cardinality(Plain(m) \ (Beyond(m, keep) \ {n})) <= keep + 1
<1> DEFINE S == Plain(m)
           T == {i \in S : ~ (Cardinality({j \in S : j > i}) >= keep)}
           L == S \ (Beyond(m, keep) \ {n})
<1>1. S \in SUBSET ScanIds
  BY DEF Plain, OfHost, TypeInv, TypeOK, TableType
<1>2. Beyond(m, keep) = {i \in S : Cardinality({j \in S : j > i}) >= keep}
  BY DEF Beyond, Plain
<1>3. L \subseteq T \cup {n}
  BY <1>2
<1>4. Cardinality(T) <= keep
  BY <1>1, NewestAreFew
<1>5. IsFiniteSet(ScanIds)
  BY FS_Interval, BoundsAssumption DEF ScanIds
<1>6. IsFiniteSet(T) /\ IsFiniteSet(L)
  BY <1>1, <1>5, FS_Subset
<1> HIDE DEF T, L, S
<1>7. /\ IsFiniteSet(T \cup {n}) /\ Cardinality(T) \in Nat
      /\ Cardinality(T \cup {n}) <= Cardinality(T) + 1
      /\ Cardinality(T \cup {n}) \in Nat
  BY <1>6, FS_AddElement, FS_CardinalityType, SMTT(20)
<1>8. Cardinality(L) <= Cardinality(T \cup {n}) /\ Cardinality(L) \in Nat
  BY <1>3, <1>6, <1>7, FS_Subset, FS_CardinalityType
<1>9. Cardinality(L) <= keep + 1
  BY <1>4, <1>7, <1>8
<1> QED BY <1>9 DEF L, S

-----------------------------------------------------------------------------
\* A baseline goes only with its row.
LEMMA BaselinesStay ==
  ASSUME [Next]_vars, NEW i \in baselines, i \in DOMAIN scans'
  PROVE  i \in baselines'
<1>1. ASSUME UNCHANGED baselines PROVE i \in baselines'
  BY <1>1
<1>2. ASSUME NEW k, DeleteScan(k) PROVE i \in baselines'
  BY <1>2 DEF DeleteScan
<1>3. ASSUME CrashRestart PROVE i \in baselines'
  BY <1>3 DEF CrashRestart
<1>4. ASSUME BaselineInsert PROVE i \in baselines'
  BY <1>4 DEF BaselineInsert
<1> QED
  BY <1>1, <1>2, <1>3, <1>4
     DEF Next, Handle, Retain, Export, Operate, vars, table, Arrive, Throttle, Parse,
         PickPrevious, Compare, CheckUuid, Insert, InsertConflict, ResolveConflict,
         StoreBusy, Respond, ReadNewestDone, ReadOld, DeleteOld, PruneDone, ReadStale,
         DeleteRollup, SweepDone, TrimFails, CliPrune, CliNextHost, CliDone,
         ExportSummary, ExportCopy, ExportRender, ExportDiscard, BaselineCheck, HourPasses

\* A row new to a host's plain scans is one that was just stored for it, and
\* its id is unpruned.
LEMMA PlainGrows ==
  ASSUME TypeInv, [Next]_vars, NEW m \in Machines, NEW i \in Plain(m)', i \notin Plain(m)
  PROVE  i \notin DOMAIN scans /\ i \in unpruned'[m]
<1>a. i \in DOMAIN scans' /\ scans'[i].host = m /\ i \notin baselines' /\ m # None
  BY NamesAssumption DEF Plain, OfHost
<1>1. ASSUME i \in DOMAIN scans PROVE FALSE
  <2>1. scans[i].host = m
    BY <1>a, <1>1, RowsStay DEF SameScan
  <2>2. i \notin baselines
    BY <1>a, BaselinesStay
  <2> QED BY <1>1, <2>1, <2>2 DEF Plain, OfHost
<1>2. ASSUME NEW r \in Reqs, Insert(r) PROVE i \in unpruned'[m]
  <2>1. PICK k \in ScanIds : /\ AddRow(k, RowOf(body[r], who[r], drift[r]))
                             /\ unpruned' = [unpruned EXCEPT ![who[r]] = @ \cup {k}]
    BY <1>2 DEF Insert
  <2>2. i = k
    BY <1>a, <1>1, <2>1 DEF AddRow
  <2>3. who[r] = m
    BY <1>a, <2>1, <2>2 DEF AddRow, RowOf
  <2> QED BY <2>1, <2>2, <2>3 DEF TypeInv, TypeOK, HistoryType
<1>3. ASSUME ExportCopy PROVE FALSE
  <2>1. PICK k \in ScanIds : \E f : AddRow(k,
          [host |-> None, uuid |-> None, status |-> "done", findings |-> f,
           drift |-> NoDrift, aged |-> FALSE])
    BY <1>3 DEF ExportCopy
  <2> QED BY <1>a, <1>1, <2>1 DEF AddRow
<1>4. ASSUME UNCHANGED scans PROVE FALSE
  BY <1>4, <1>1, <1>a
<1>5. ASSUME NEW k, DeleteScan(k) PROVE FALSE
  BY <1>5, <1>1, <1>a DEF DeleteScan
<1>6. ASSUME HourPasses \/ CrashRestart PROVE FALSE
  BY <1>6, <1>1, <1>a DEF HourPasses, CrashRestart
<1>7. i \in unpruned'[m]
  BY <1>2, <1>3, <1>4, <1>5, <1>6
     DEF Next, Handle, Retain, Export, Operate, vars, table, Arrive, Throttle, Parse,
         PickPrevious, Compare, CheckUuid, InsertConflict, ResolveConflict,
         StoreBusy, Respond, ReadNewestDone, ReadOld, DeleteOld, PruneDone, ReadStale,
         DeleteRollup, SweepDone, TrimFails, CliPrune, CliNextHost, CliDone,
         ExportSummary, ExportRender, ExportDiscard, BaselineCheck, BaselineInsert
<1> QED BY <1>1, <1>7

\* What is unpruned grows by a stored row, above every id of the table, and
\* shrinks by what a completed pass covered.
LEMMA UnprunedSteps ==
  ASSUME TypeInv, [Next]_vars, NEW m \in Machines
  PROVE  \/ /\ unpruned[m] \subseteq unpruned'[m]
            /\ \A i \in unpruned'[m] \ unpruned[m] : i \in OfHost(m)' /\ i \notin DOMAIN scans
         \/ \E w \in Workers :
              /\ PruneDone(w) /\ who[w] = m /\ UNCHANGED <<scans, baselines>>
              /\ unpruned'[m] = unpruned[m] \ cover[w]
<1> DEFINE Grown == /\ unpruned[m] \subseteq unpruned'[m]
                    /\ \A i \in unpruned'[m] \ unpruned[m] :
                         i \in OfHost(m)' /\ i \notin DOMAIN scans
           Done == \E w \in Workers :
                     /\ PruneDone(w) /\ who[w] = m /\ UNCHANGED <<scans, baselines>>
                     /\ unpruned'[m] = unpruned[m] \ cover[w]
<1>1. ASSUME UNCHANGED unpruned PROVE Grown
  BY <1>1
<1>2. ASSUME NEW r \in Reqs, Insert(r) PROVE Grown
  <2>1. PICK k \in ScanIds : /\ NextId(k)
                             /\ AddRow(k, RowOf(body[r], who[r], drift[r]))
                             /\ unpruned' = [unpruned EXCEPT ![who[r]] = @ \cup {k}]
    BY <1>2 DEF Insert
  <2>2. k \notin DOMAIN scans
    BY <2>1 DEF NextId, ScanIds
  <2>3. k \in DOMAIN scans' /\ scans'[k].host = who[r]
    BY <2>1 DEF AddRow, RowOf
  <2>4. CASE who[r] = m
    <3>1. unpruned'[m] = unpruned[m] \cup {k}
      BY <2>1, <2>4 DEF TypeInv, TypeOK, HistoryType
    <3> QED BY <2>2, <2>3, <2>4, <3>1 DEF OfHost
  <2>5. CASE who[r] # m
    <3>1. unpruned'[m] = unpruned[m]
      BY <2>1, <2>5 DEF TypeInv, TypeOK, HistoryType
    <3> QED BY <3>1
  <2> QED BY <2>4, <2>5
<1>3. ASSUME NEW w \in Workers, PruneDone(w) PROVE Grown \/ Done
  <2>1. unpruned' = [unpruned EXCEPT ![who[w]] = @ \ cover[w]] /\ UNCHANGED <<scans, baselines>>
    BY <1>3 DEF PruneDone, table
  <2>2. CASE who[w] = m
    <3>1. unpruned'[m] = unpruned[m] \ cover[w]
      BY <2>1, <2>2 DEF TypeInv, TypeOK, HistoryType
    <3> QED BY <1>3, <2>1, <2>2, <3>1
  <2>3. CASE who[w] # m
    <3>1. unpruned'[m] = unpruned[m]
      BY <2>1, <2>3 DEF TypeInv, TypeOK, HistoryType
    <3> QED BY <3>1
  <2> QED BY <2>2, <2>3
<1> HIDE DEF Grown, Done
<1>4. Grown \/ Done
  BY <1>1, <1>2, <1>3
     DEF Next, Handle, Retain, Export, Operate, vars, table, history, Arrive, Throttle, Parse,
         PickPrevious, Compare, CheckUuid, InsertConflict, ResolveConflict,
         StoreBusy, Respond, ReadNewestDone, ReadOld, DeleteOld, ReadStale,
         DeleteRollup, SweepDone, TrimFails, CliPrune, CliNextHost, CliDone, ExportCopy,
         ExportSummary, ExportRender, ExportDiscard, BaselineCheck, BaselineInsert,
         HourPasses, CrashRestart
<1> QED BY <1>4 DEF Grown, Done

-----------------------------------------------------------------------------
\* A pass goes on: it covers what it covered, and what has left its list has
\* left the table.
PassOn(w) ==
  /\ At(w, "delete") /\ who'[w] = who[w] /\ cover'[w] = cover[w]
  /\ \A i \in old[w] : i \in old'[w] \/ i \notin DOMAIN scans'

LEMMA PassesGoOn ==
  ASSUME TypeInv, [Next]_vars, NEW w \in Workers, pc'[w] = "delete"
  PROVE  ReadOld(w) \/ PassOn(w)
<1> USE DEF PassOn, At, TypeInv, TypeOK, WorkerType, HistoryType
<1>1. ASSUME UNCHANGED <<pc, who, old, cover>> PROVE PassOn(w)
  BY <1>1
<1>2. ASSUME NEW r \in Reqs, Handle(r) PROVE PassOn(w)
  BY <1>2 DEF Handle, Parse, PickPrevious, Compare, CheckUuid, Insert, InsertConflict,
              ResolveConflict, StoreBusy, Respond, Goto, Answer, work, history, Workers
<1>3. ASSUME NEW v \in Workers, DeleteOld(v) PROVE PassOn(w)
  <2>1. PICK i \in old[v] : /\ scans' = [j \in DOMAIN scans \ {i} |-> scans[j]]
                            /\ old' = [old EXCEPT ![v] = @ \ {i}]
    BY <1>3 DEF DeleteOld, DeleteScan
  <2>2. UNCHANGED <<pc, who, cover>>
    BY <1>3 DEF DeleteOld, history
  <2>3. \A k \in old[w] : k \in old'[w] \/ k \notin DOMAIN scans'
    <3>1. CASE v = w
      BY <2>1, <3>1
    <3>2. CASE v # w
      BY <2>1, <3>2
    <3> QED BY <3>1, <3>2
  <2> QED BY <2>2, <2>3
<1>4. ASSUME NEW v \in Workers, Retain(v), ~ DeleteOld(v)
      PROVE  ReadOld(w) \/ PassOn(w)
  BY <1>4 DEF Retain, ReadNewestDone, ReadOld, PruneDone, ReadStale,
              DeleteRollup, SweepDone, TrimFails, Goto, Answer, work, history
<1>5. ASSUME CliPrune \/ CliNextHost \/ CliDone
      PROVE  PassOn(w)
  BY <1>5 DEF CliPrune, CliNextHost, CliDone, Goto, work, history, Workers
<1>6. ASSUME NEW r \in Reqs, NEW m, NEW b, Arrive(r, m, b) \/ Throttle(r, m, b)
      PROVE  PassOn(w)
  BY <1>6 DEF Arrive, Throttle, Goto, Answer, Workers
<1>7. ASSUME CrashRestart PROVE PassOn(w)
  BY <1>7 DEF CrashRestart
<1> QED
  BY <1>1, <1>2, <1>3, <1>4, <1>5, <1>6, <1>7
     DEF Next, Export, Operate, vars, work, history, ExportSummary, ExportCopy, ExportRender,
         ExportDiscard, BaselineCheck, BaselineInsert, HourPasses

\* Ids below a host's newest scan stay so.
LEMMA TakenStays ==
  ASSUME FloorInv, [Next]_vars, ~ misfired', NEW m \in Machines,
         NEW S \in SUBSET ScanIds, Taken(S, m)
  PROVE  Taken(S, m)'
<1>a. TypeInv /\ TypeInv'
  BY NextType DEF FloorInv
<1>b. ScanIds \subseteq Nat /\ OfHost(m) \subseteq Nat /\ OfHost(m)' \subseteq Nat
  BY <1>a DEF TypeInv, TypeOK, TableType, ScanIds, OfHost
<1> SUFFICES ASSUME NEW i \in S PROVE \E k \in OfHost(m)' : k >= i
  BY DEF Taken
<1>1. PICK j \in OfHost(m) : j >= i
  BY DEF Taken
<1>2. PICK k \in OfHost(m)' : k >= j
  BY LatestStays
<1>3. i \in Nat /\ j \in Nat /\ k \in Nat
  BY <1>b
<1>4. k >= i
  BY <1>1, <1>2, <1>3
<1> QED BY <1>4

\* A new row gets no id that is taken.
LEMMA TakenNotNew ==
  ASSUME TypeInv, [Next]_vars, NEW m \in Machines, NEW S \in SUBSET ScanIds, Taken(S, m),
         NEW i \in DOMAIN scans', i \notin DOMAIN scans
  PROVE  i \notin S
<1> SUFFICES ASSUME i \in S PROVE FALSE
  OBVIOUS
<1>1. PICK j \in OfHost(m) : j >= i
  BY DEF Taken
<1>2. j \in DOMAIN scans
  BY DEF OfHost
<1>3. j < i
  BY <1>2, NewRowsLast
<1>4. i \in Nat /\ j \in Nat
  BY <1>2 DEF TypeInv, TypeOK, TableType, ScanIds
<1> QED BY <1>1, <1>3, <1>4

\* A set of ids within a small one is small.
LEMMA FewStay ==
  ASSUME NEW S \in SUBSET ScanIds, NEW T \in SUBSET S, NEW n \in Nat, Cardinality(S) <= n
  PROVE  Cardinality(T) <= n
<1>1. Cardinality(S) \in Nat /\ Cardinality(T) \in Nat /\ Cardinality(T) <= Cardinality(S)
  BY IdSets
<1> QED BY <1>1

-----------------------------------------------------------------------------
\* The limits are numbers, and each worker's is within the largest.
LEMMA Limits ==
  /\ KeepMost \in Nat /\ KeepMost + 1 \in Nat
  /\ \A w \in Workers : KeepOf(w) \in Nat /\ KeepOf(w) <= KeepMost
BY KeepAssumption DEF KeepMost, KeepOf

\* A host keeps few scans besides the unpruned ones.
LEMMA NextSettled ==
  ASSUME FloorInv, Settled, PassesSettle, [Next]_vars, ~ misfired'
  PROVE  Settled'
<1> SUFFICES ASSUME NEW m \in Machines
             PROVE  /\ Taken(unpruned[m], m)'
                    /\ Cardinality(Plain(m)' \ unpruned'[m]) <= KeepMost + 1
  BY DEF Settled
<1>a. TypeInv /\ TypeInv'
  BY NextType DEF FloorInv
<1>b. /\ Plain(m) \in SUBSET ScanIds /\ Plain(m)' \in SUBSET ScanIds
      /\ unpruned[m] \in SUBSET ScanIds
  BY <1>a DEF Plain, OfHost, TypeInv, TypeOK, TableType, HistoryType
<1>c. Taken(unpruned[m], m)' <=> \A i \in unpruned'[m] : \E j \in OfHost(m)' : j >= i
  BY DEF Taken
<1>d. \A i \in unpruned[m] : \E j \in OfHost(m)' : j >= i
  <2>1. Taken(unpruned[m], m)
    BY DEF Settled
  <2> QED BY <1>b, <2>1, TakenStays DEF Taken
<1>e. Cardinality(Plain(m) \ unpruned[m]) <= KeepMost + 1
  BY DEF Settled
<1>f. Plain(m)' \ unpruned'[m] \subseteq Plain(m)
  BY <1>a, PlainGrows
<1>1. CASE /\ unpruned[m] \subseteq unpruned'[m]
           /\ \A i \in unpruned'[m] \ unpruned[m] : i \in OfHost(m)' /\ i \notin DOMAIN scans
  <2>1. ASSUME NEW i \in unpruned'[m] PROVE \E j \in OfHost(m)' : j >= i
    <3>1. CASE i \in unpruned[m]
      BY <1>d, <3>1
    <3>2. CASE i \notin unpruned[m]
      <4>1. i \in OfHost(m)'
        BY <1>1, <2>1, <3>2
      <4>2. i \in Nat
        BY <1>a, <2>1 DEF TypeInv, TypeOK, HistoryType, ScanIds
      <4>3. i >= i
        BY <4>2
      <4> QED BY <4>1, <4>3
    <3> QED BY <3>1, <3>2
  <2>2. Plain(m)' \ unpruned'[m] \subseteq Plain(m) \ unpruned[m]
    BY <1>1, <1>f
  <2>3. Cardinality(Plain(m)' \ unpruned'[m]) <= KeepMost + 1
    BY <1>b, <1>e, <2>2, Limits, FewStay
  <2> QED BY <1>c, <2>1, <2>3
<1>2. ASSUME NEW w \in Workers, PruneDone(w), who[w] = m, UNCHANGED <<scans, baselines>>,
             unpruned'[m] = unpruned[m] \ cover[w]
      PROVE  /\ Taken(unpruned[m], m)'
             /\ Cardinality(Plain(m)' \ unpruned'[m]) <= KeepMost + 1
  <2>1. At(w, "delete") /\ old[w] = {}
    BY <1>2 DEF PruneDone
  <2>2. Cardinality(Remains(w)) <= KeepMost + 1
    BY <2>1 DEF PassesSettle
  <2>3. Plain(m)' \ unpruned'[m] = Remains(w)
    BY <1>2, <2>1 DEF Remains, Plain, OfHost
  <2> QED BY <1>2, <1>c, <1>d, <2>2, <2>3
<1> QED BY <1>a, <1>1, <1>2, UnprunedSteps

\* What a pass covers is not what is stored after its read.
LEMMA CoverIsOld ==
  ASSUME TypeInv, PassesSettle, [Next]_vars, NEW w \in Workers, At(w, "delete"),
         who[w] \in Machines
  PROVE  cover[w] \cap unpruned'[who[w]] \subseteq unpruned[who[w]]
<1>1. Taken(cover[w], who[w]) /\ cover[w] \in SUBSET ScanIds
  BY DEF PassesSettle, TypeInv, TypeOK, HistoryType
<1>2. \A i \in unpruned'[who[w]] \ unpruned[who[w]] : i \in DOMAIN scans' /\ i \notin DOMAIN scans
  BY UnprunedSteps DEF OfHost
<1> QED BY <1>1, <1>2, TakenNotNew

\* Passes that overlap on a host cover nested sets.
LEMMA NextNest ==
  ASSUME TypeInv, PassesSettle, CoversNest, [Next]_vars
  PROVE  CoversNest'
<1>a. TypeInv'
  BY NextType
<1>b. ASSUME NEW w \in Workers, pc'[w] = "delete" PROVE who'[w] \in Machines
  BY <1>a, <1>b DEF TypeInv, Stages, Workers
<1>1. ASSUME NEW w \in Workers, ReadOld(w)
      PROVE  UNCHANGED <<who, unpruned>> /\ cover'[w] = unpruned[who[w]]
  BY <1>1 DEF ReadOld, TypeInv, TypeOK, HistoryType
<1>2. ASSUME NEW w \in Workers, PassOn(w), pc'[w] = "delete"
      PROVE  Covered(w)' = Covered(w) \cap unpruned'[who[w]]
  <2>1. who'[w] = who[w] /\ cover'[w] = cover[w] /\ At(w, "delete") /\ who[w] \in Machines
    BY <1>2, <1>b DEF PassOn
  <2>2. cover[w] \cap unpruned'[who[w]] \subseteq unpruned[who[w]]
    BY <2>1, CoverIsOld
  <2> QED BY <2>1, <2>2 DEF Covered
<1> SUFFICES ASSUME NEW v \in Workers, NEW w \in Workers,
                    pc'[v] = "delete", pc'[w] = "delete", who'[v] = who'[w]
             PROVE  Covered(v)' \subseteq Covered(w)' \/ Covered(w)' \subseteq Covered(v)'
  BY DEF CoversNest, At
<1>3. CASE ReadOld(w)
  <2>1. Covered(w)' = unpruned'[who'[w]]
    BY <1>1, <1>3 DEF Covered
  <2> QED BY <2>1 DEF Covered
<1>4. CASE ReadOld(v)
  <2>1. Covered(v)' = unpruned'[who'[v]]
    BY <1>1, <1>4 DEF Covered
  <2> QED BY <2>1 DEF Covered
<1>5. CASE PassOn(v) /\ PassOn(w)
  <2>1. who[v] = who[w] /\ At(v, "delete") /\ At(w, "delete")
    BY <1>5 DEF PassOn
  <2>2. Covered(v) \subseteq Covered(w) \/ Covered(w) \subseteq Covered(v)
    BY <2>1 DEF CoversNest
  <2> QED BY <1>2, <1>5, <2>1, <2>2
<1> QED BY <1>3, <1>4, <1>5, PassesGoOn

\* Whichever pass completes next leaves few scans of its host.
LEMMA NextPasses ==
  ASSUME FloorInv, Settled, PassesSettle, CoversNest, [Next]_vars, ~ misfired'
  PROVE  PassesSettle'
<1> SUFFICES ASSUME NEW w \in Workers, pc'[w] = "delete"
             PROVE  /\ Taken(cover[w], who[w])'
                    /\ Cardinality(Remains(w)') <= KeepMost + 1
  BY DEF PassesSettle, At
<1>a. TypeInv /\ TypeInv'
  BY NextType DEF FloorInv
<1>b. who'[w] \in Machines
  BY <1>a DEF TypeInv, Stages, Workers
<1>c. /\ \A m : Plain(m) \in SUBSET ScanIds
      /\ \A u \in Workers : Remains(u) \in SUBSET ScanIds
  BY <1>a DEF Remains, Plain, OfHost, TypeInv, TypeOK, TableType
<1>1. CASE ReadOld(w)
  <2>1. /\ UNCHANGED <<scans, baselines, who, unpruned>>
        /\ cover'[w] = unpruned[who[w]]
        /\ old'[w] = Beyond(who[w], KeepOf(w)) \ {newest[w]}
    BY <1>1, <1>a DEF ReadOld, table, TypeInv, TypeOK, WorkerType, HistoryType
  <2>2. who[w] \in Machines
    BY <1>b, <2>1
  <2>3. Taken(cover[w], who[w])'
    BY <2>1, <2>2 DEF Settled, Taken, OfHost
  <2>4. Remains(w)' = Plain(who[w]) \ (Beyond(who[w], KeepOf(w)) \ {newest[w]})
    BY <2>1 DEF Remains, Plain, OfHost
  <2>5. Cardinality(Remains(w)') <= KeepOf(w) + 1
    BY <1>a, <2>2, <2>4, Limits, PruneLeavesFew
  <2>6. Cardinality(Remains(w)') \in Nat
    BY <1>c, <2>2, <2>4, IdSets
  <2> QED BY <2>3, <2>5, <2>6, Limits
<1>2. CASE PassOn(w)
  <2>a. /\ At(w, "delete") /\ who'[w] = who[w] /\ cover'[w] = cover[w]
        /\ \A i \in old[w] : i \in old'[w] \/ i \notin DOMAIN scans'
    BY <1>2 DEF PassOn
  <2>b. who[w] \in Machines /\ cover[w] \in SUBSET ScanIds
    BY <1>a, <1>b, <2>a DEF TypeInv, TypeOK, HistoryType
  <2>c. Taken(cover[w], who[w]) /\ Cardinality(Remains(w)) <= KeepMost + 1
    BY <2>a DEF PassesSettle
  <2>d. Taken(cover[w], who[w])'
    BY <2>a, <2>b, <2>c, TakenStays DEF Taken, OfHost
  <2>m. PICK m \in Machines : m = who[w]
    BY <2>b
  <2>e. Remains(w)' = (Plain(m)' \ (unpruned'[m] \ cover[w])) \ old'[w]
    BY <2>a, <2>m DEF Remains, Plain, OfHost
  <2>f. ASSUME NEW i \in Remains(w)' PROVE i \in Plain(m) /\ i \notin old[w]
    <3>1. /\ i \in Plain(m)' /\ i \notin old'[w] /\ i \in DOMAIN scans'
          /\ i \in unpruned'[m] => i \in cover[w]
      BY <2>e, <2>f DEF Plain, OfHost
    <3>2. i \in Plain(m)
      <4> SUFFICES ASSUME i \notin Plain(m) PROVE FALSE
        OBVIOUS
      <4>1. i \notin DOMAIN scans /\ i \in unpruned'[m]
        BY <1>a, <3>1, PlainGrows
      <4>2. i \notin cover[w]
        BY <1>a, <2>b, <2>c, <2>m, <3>1, <4>1, TakenNotNew
      <4> QED BY <3>1, <4>1, <4>2
    <3> QED BY <2>a, <3>1, <3>2
  <2>1. CASE unpruned[m] \subseteq unpruned'[m]
    <3>1. Remains(w)' \subseteq Remains(w)
      BY <2>1, <2>e, <2>f, <2>m DEF Remains
    <3>2. Cardinality(Remains(w)') <= KeepMost + 1
      BY <1>c, <2>c, <3>1, Limits, FewStay
    <3> QED BY <2>d, <3>2
  <2>2. ASSUME NEW v \in Workers, PruneDone(v), who[v] = m,
               unpruned'[m] = unpruned[m] \ cover[v]
        PROVE  /\ Taken(cover[w], who[w])'
               /\ Cardinality(Remains(w)') <= KeepMost + 1
    <3>1. At(v, "delete") /\ old[v] = {}
      BY <2>2 DEF PruneDone
    <3>2. Cardinality(Remains(v)) <= KeepMost + 1
      BY <3>1 DEF PassesSettle
    <3>3. Covered(v) \subseteq Covered(w) \/ Covered(w) \subseteq Covered(v)
      BY <2>2, <2>a, <2>m, <3>1 DEF CoversNest
    <3>4. CASE Covered(v) \subseteq Covered(w)
      <4>1. Remains(w)' \subseteq Remains(w)
        BY <2>2, <2>e, <2>f, <2>m, <3>4 DEF Remains, Covered
      <4>2. Cardinality(Remains(w)') <= KeepMost + 1
        BY <1>c, <2>c, <4>1, Limits, FewStay
      <4> QED BY <2>d, <4>2
    <3>5. CASE Covered(w) \subseteq Covered(v)
      <4>1. Remains(w)' \subseteq Remains(v)
        BY <2>2, <2>e, <2>f, <2>m, <3>1, <3>5 DEF Remains, Covered
      <4>2. Cardinality(Remains(w)') <= KeepMost + 1
        BY <1>c, <3>2, <4>1, Limits, FewStay
      <4> QED BY <2>d, <4>2
    <3> QED BY <3>3, <3>4, <3>5
  <2> QED BY <1>a, <2>b, <2>1, <2>2, UnprunedSteps
<1> QED BY <1>1, <1>2, <1>a, PassesGoOn

-----------------------------------------------------------------------------
\* The bound's invariant holds in every reachable state.
LEMMA BoundInvariance == Spec => []BoundInv
<1>1. Init => BoundInv
  <2> SUFFICES ASSUME Init PROVE BoundInv
    OBVIOUS
  <2>1. FloorInv
    BY InitType DEF Init, FloorInv, RetentionFloor, OldOwned, At
  <2>2. PassesSettle /\ CoversNest
    BY DEF Init, PassesSettle, CoversNest, At
  <2>3. ASSUME NEW m \in Machines
        PROVE  Taken(unpruned[m], m) /\ Cardinality(Plain(m) \ unpruned[m]) <= KeepMost + 1
    <3>1. unpruned[m] = {} /\ Plain(m) \ unpruned[m] = {}
      BY DEF Init, Plain, OfHost
    <3>2. 0 <= KeepMost + 1
      BY Limits
    <3> QED BY <3>1, <3>2, FS_EmptySet DEF Taken
  <2> QED BY <2>1, <2>2, <2>3 DEF BoundInv, Settled
<1>2. BoundInv /\ FloorInv' /\ [Next]_vars => BoundInv'
  <2> SUFFICES ASSUME BoundInv, FloorInv', [Next]_vars PROVE BoundInv'
    OBVIOUS
  <2>1. CASE misfired'
    BY <2>1 DEF BoundInv
  <2>2. CASE ~ misfired'
    <3>1. FloorInv /\ TypeInv /\ Settled /\ PassesSettle /\ CoversNest
      BY <2>2, MisfireLasts DEF BoundInv, FloorInv
    <3> QED BY <2>2, <3>1, NextSettled, NextPasses, NextNest DEF BoundInv
  <2> QED BY <2>1, <2>2
<1> QED BY <1>1, <1>2, FloorInvariance, PTL DEF Spec

\* However retention passes overlap, fail and are killed, a host has at most
\* `keep` scans, its newest done one, and those stored since the last pass
\* that completed read the table.
THEOREM TableStaysBounded == Spec => []RetentionBound
<1>1. BoundInv => RetentionBound
  <2> SUFFICES ASSUME BoundInv, ~ misfired, NEW m \in Machines
               PROVE  Cardinality(Plain(m)) <= KeepMost + 1 + Cardinality(unpruned[m])
    BY DEF RetentionBound, Plain
  <2> DEFINE S == Plain(m)
             U == unpruned[m]
  <2>1. S \in SUBSET ScanIds /\ U \in SUBSET ScanIds
    BY DEF BoundInv, FloorInv, Plain, OfHost, TypeInv, TypeOK, TableType, HistoryType
  <2>2. Cardinality(S \ U) <= KeepMost + 1
    BY DEF BoundInv, Settled
  <2> HIDE DEF S, U
  <2>3. IsFiniteSet(ScanIds)
    BY FS_Interval, BoundsAssumption DEF ScanIds
  <2>4. IsFiniteSet(S) /\ IsFiniteSet(U) /\ IsFiniteSet(S \ U)
    BY <2>1, <2>3, FS_Subset
  <2>5. /\ Cardinality((S \ U) \cup U) =
             Cardinality(S \ U) + Cardinality(U) - Cardinality((S \ U) \cap U)
        /\ IsFiniteSet((S \ U) \cup U)
    BY <2>4, FS_Union
  <2>6. (S \ U) \cap U = {}
    OBVIOUS
  <2>7. Cardinality(S) <= Cardinality((S \ U) \cup U)
    BY <2>5, FS_Subset
  <2>8. /\ Cardinality(S) \in Nat /\ Cardinality(S \ U) \in Nat /\ Cardinality(U) \in Nat
        /\ Cardinality((S \ U) \cup U) \in Nat /\ Cardinality({}) = 0
    BY <2>4, <2>5, FS_CardinalityType, FS_EmptySet
  <2>a. Cardinality((S \ U) \cap U) = 0
    BY <2>6, <2>8
  <2>9. Cardinality((S \ U) \cup U) = Cardinality(S \ U) + Cardinality(U)
    BY <2>5, <2>a, <2>8
  <2>10. Cardinality(S) <= KeepMost + 1 + Cardinality(U)
    BY <2>2, <2>7, <2>8, <2>9, Limits
  <2> QED BY <2>10 DEF S, U
<1> QED BY <1>1, BoundInvariance, PTL

-----------------------------------------------------------------------------
(* The table as the histories of its hosts *)

\* A row of a host that stays in the table stays in its history, as it was.
LEMMA KeptStays ==
  ASSUME TypeInv, [Next]_vars, NEW i \in DOMAIN scans, i \in DOMAIN scans'
  PROVE  /\ i \in DOMAIN Kept' <=> i \in DOMAIN Kept
         /\ i \in DOMAIN Kept => Kept'[i] = Kept[i]
<1>1. SameScan(scans'[i], scans[i])
  BY RowsStay
<1> QED BY <1>1 DEF Kept, IsRollup, SameScan

\* If the hosts have the rows they had, the histories are what they were.
LEMMA KeptSame ==
  ASSUME TypeInv, [Next]_vars,
         \A i \in DOMAIN scans : ~ IsRollup(i) => i \in DOMAIN scans',
         \A i \in DOMAIN scans' : i \in DOMAIN scans \/ scans'[i].host = None
  PROVE  Kept' = Kept
<1>1. DOMAIN Kept' = DOMAIN Kept
  <2>1. ASSUME NEW i \in DOMAIN Kept PROVE i \in DOMAIN Kept'
    <3>1. i \in DOMAIN scans /\ i \in DOMAIN scans'
      BY <2>1 DEF Kept
    <3> QED BY <2>1, <3>1, KeptStays
  <2>2. ASSUME NEW i \in DOMAIN Kept' PROVE i \in DOMAIN Kept
    <3>1. i \in DOMAIN scans' /\ scans'[i].host # None
      BY <2>2 DEF Kept, IsRollup
    <3> QED BY <2>2, <3>1, KeptStays
  <2> QED BY <2>1, <2>2
<1>2. \A i \in DOMAIN Kept : Kept'[i] = Kept[i]
  <2> TAKE i \in DOMAIN Kept
  <2>1. i \in DOMAIN scans /\ i \in DOMAIN scans'
    BY DEF Kept
  <2> QED BY <2>1, KeptStays
<1>3. Kept = [i \in DOMAIN Kept |-> Kept[i]] /\ Kept' = [i \in DOMAIN Kept' |-> Kept'[i]]
  BY DEF Kept
<1> QED BY <1>1, <1>2, <1>3

\* A deletion takes a scan from its history, or leaves the histories alone.
LEMMA KeptWithout ==
  ASSUME TypeInv, [Next]_vars, NEW i, DeleteScan(i)
  PROVE  /\ i \in DOMAIN Kept => Kept' = [j \in DOMAIN Kept \ {i} |-> Kept[j]]
         /\ i \notin DOMAIN Kept => Kept' = Kept
<1>1. DOMAIN scans' = DOMAIN scans \ {i}
  BY DEF DeleteScan
<1>2. CASE i \in DOMAIN Kept
  <2>1. DOMAIN Kept' = DOMAIN Kept \ {i}
    <3>1. ASSUME NEW j \in DOMAIN Kept \ {i} PROVE j \in DOMAIN Kept'
      <4>1. j \in DOMAIN scans /\ j \in DOMAIN scans'
        BY <1>1, <3>1 DEF Kept
      <4> QED BY <3>1, <4>1, KeptStays
    <3>2. ASSUME NEW j \in DOMAIN Kept' PROVE j \in DOMAIN Kept \ {i}
      <4>1. j \in DOMAIN scans' /\ j \in DOMAIN scans /\ j # i
        BY <1>1, <3>2 DEF Kept
      <4> QED BY <3>2, <4>1, KeptStays
    <3> QED BY <3>1, <3>2
  <2>2. \A j \in DOMAIN Kept \ {i} : Kept'[j] = Kept[j]
    <3> TAKE j \in DOMAIN Kept \ {i}
    <3>1. j \in DOMAIN scans /\ j \in DOMAIN scans'
      BY <1>1 DEF Kept
    <3> QED BY <3>1, KeptStays
  <2>3. Kept' = [j \in DOMAIN Kept' |-> Kept'[j]]
    BY DEF Kept
  <2> QED BY <1>2, <2>1, <2>2, <2>3
<1>3. CASE i \notin DOMAIN Kept
  <2>1. \A j \in DOMAIN scans : ~ IsRollup(j) => j \in DOMAIN scans'
    BY <1>1, <1>3 DEF Kept
  <2> QED BY <1>1, <1>3, <2>1, KeptSame
<1> QED BY <1>2, <1>3

\* An insert adds the bundle it was given, newer than all that is kept.
LEMMA InsertAccepts ==
  ASSUME TypeInv, NEW r \in Reqs, Insert(r), [Next]_vars
  PROVE  Histories!Accept
<1> DEFINE b == body[r]
           s == ScanOf(b)
<1>1. b \in Bundles /\ b.machine = who[r] /\ who[r] \in Machines /\ b.status \in Statuses /\ b.form = "ok"
  BY DEF Insert, At, TypeInv, Stages, Parsing
<1>2. PICK i \in ScanIds : NextId(i) /\ AddRow(i, RowOf(b, who[r], drift[r]))
  BY DEF Insert
<1>3. misfired' = misfired /\ WithUuid(b.uuid) = {}
  BY DEF Insert, IndexAllows
<1>4. i \notin DOMAIN scans /\ \A j \in DOMAIN scans : j < i
  BY <1>2 DEF NextId, ScanIds
<1>5. /\ DOMAIN scans' = DOMAIN scans \cup {i}
      /\ scans'[i] = RowOf(b, who[r], drift[r])
  BY <1>2 DEF AddRow
<1>6. DOMAIN Kept' = DOMAIN Kept \cup {i} /\ Kept'[i] = s
  <2>1. scans'[i].host # None
    BY <1>1, <1>5, NamesAssumption DEF RowOf
  <2>2. i \in DOMAIN Kept' /\ Kept'[i] = s
    BY <1>1, <1>5, <2>1 DEF Kept, IsRollup, RowOf, ScanOf
  <2>3. ASSUME NEW j \in DOMAIN Kept PROVE j \in DOMAIN Kept'
    <3>1. j \in DOMAIN scans /\ j \in DOMAIN scans'
      BY <1>5, <2>3 DEF Kept
    <3> QED BY <2>3, <3>1, KeptStays
  <2>4. ASSUME NEW j \in DOMAIN Kept', j # i PROVE j \in DOMAIN Kept
    <3>1. j \in DOMAIN scans /\ j \in DOMAIN scans'
      BY <1>5, <2>4 DEF Kept
    <3> QED BY <2>4, <3>1, KeptStays
  <2> QED BY <2>2, <2>3, <2>4
<1>7. \A j \in DOMAIN Kept : Kept'[j] = Kept[j] /\ j # i
  <2> TAKE j \in DOMAIN Kept
  <2>1. j \in DOMAIN scans /\ j \in DOMAIN scans' /\ j # i
    BY <1>4, <1>5 DEF Kept
  <2> QED BY <2>1, KeptStays
<1>8. Kept' = [j \in DOMAIN Kept \cup {i} |-> IF j = i THEN s ELSE Kept[j]]
  <2>1. Kept' = [j \in DOMAIN Kept' |-> Kept'[j]]
    BY DEF Kept
  <2> HIDE DEF s
  <2> QED BY <1>6, <1>7, <2>1
<1>9. \A j \in DOMAIN Kept : j < i /\ Kept[j].uuid # s.uuid
  BY <1>3, <1>4 DEF Kept, WithUuid, ScanOf
<1>10. s \in {ScanOf(c) : c \in {d \in Bundles : d.form = "ok" /\ d.status \in Statuses}}
  BY <1>1
<1> HIDE DEF s
<1> QED BY <1>3, <1>8, <1>9, <1>10 DEF Histories!Accept

\* What a step of the table is to the histories.
LEMMA HistoryStep ==
  ASSUME FloorInv, [Next]_vars
  PROVE  [Histories!Next]_(Histories!view)
<1> DEFINE Goal == [Histories!Next]_(Histories!view)
<1>a. TypeInv
  BY DEF FloorInv
<1>1. ASSUME Kept' = Kept, misfired' = misfired PROVE Goal
  BY <1>1 DEF Histories!view
<1>2. ASSUME Kept' = Kept, misfired' = TRUE PROVE Goal
  BY <1>2 DEF Histories!Next, Histories!Spoil
<1>3. ASSUME NEW i \in DOMAIN Kept, DeleteScan(i), misfired => misfired',
             misfired' \/ \E j \in DOMAIN Kept : j > i /\ Kept[j].host = Kept[i].host
      PROVE  Goal
  BY <1>3, <1>a, KeptWithout DEF Histories!Next, Histories!Forget
<1> HIDE DEF Goal
<1>4. ASSUME UNCHANGED <<scans, misfired>> PROVE Goal
  BY <1>1, <1>4 DEF Kept, IsRollup
<1>5. ASSUME NEW r \in Reqs, Insert(r) PROVE Goal
  BY <1>5, <1>a, InsertAccepts DEF Goal, Histories!Next
<1>6. ASSUME NEW w \in Workers, DeleteOld(w) PROVE Goal
  <2>1. PICK i \in old[w] : DeleteScan(i)
    BY <1>6 DEF DeleteOld
  <2>2. misfired' = misfired /\ At(w, "delete")
    BY <1>6 DEF DeleteOld, history
  <2>3. CASE i \notin DOMAIN Kept
    BY <1>1, <1>a, <2>1, <2>2, <2>3, KeptWithout
  <2>4. CASE misfired /\ i \in DOMAIN Kept
    BY <1>3, <2>1, <2>2, <2>4
  <2>5. CASE ~ misfired /\ i \in DOMAIN Kept
    <3>1. i \in DOMAIN scans /\ scans[i].host = who[w] /\ who[w] # None
      BY <2>1, <2>2, <2>5 DEF FloorInv, OldOwned, Kept, IsRollup
    <3>2. Cardinality({j \in OfHost(who[w]) : j > i}) >= KeepLeast
      BY <2>1, <2>2, <2>5 DEF FloorInv, RetentionFloor
    <3>3. KeepLeast \in Nat /\ KeepLeast >= 1
      BY KeepAssumption DEF KeepLeast
    <3>4. PICK j \in OfHost(who[w]) : j > i
      BY <3>2, <3>3, FS_EmptySet
    <3>5. j \in DOMAIN Kept /\ Kept[j].host = Kept[i].host
      BY <2>5, <3>1, <3>4 DEF Kept, IsRollup, OfHost
    <3> QED BY <1>3, <2>1, <2>2, <2>5, <3>4, <3>5
  <2> QED BY <2>3, <2>4, <2>5, <1>a DEF TypeInv, TypeOK, HistoryType
<1>7. ASSUME NEW i, DeleteScan(i), misfired' \in BOOLEAN, misfired => misfired',
             i \in DOMAIN Kept => misfired'
      PROVE  Goal
  <2>1. CASE i \in DOMAIN Kept
    BY <1>3, <1>7, <2>1
  <2>2. CASE i \notin DOMAIN Kept
    <3>1. Kept' = Kept
      BY <1>7, <1>a, <2>2, KeptWithout
    <3>2. misfired' = TRUE \/ misfired' = misfired
      BY <1>7, <1>a DEF TypeInv, TypeOK, HistoryType
    <3> QED BY <1>1, <1>2, <3>1, <3>2
  <2> QED BY <2>1, <2>2
<1>b. misfired' \in BOOLEAN
  BY <1>a, NextType DEF TypeInv, TypeOK, HistoryType
<1>8. ASSUME NEW w \in Workers, DeleteRollup(w) PROVE Goal
  <2>1. PICK i \in old[w] : /\ DeleteScan(i)
                            /\ misfired' = (misfired \/ i \in DOMAIN scans \ StaleRollups)
    BY <1>8 DEF DeleteRollup
  <2>2. i \in DOMAIN Kept => i \in DOMAIN scans \ StaleRollups
    BY DEF Kept, StaleRollups
  <2> QED BY <1>7, <1>b, <2>1, <2>2
<1>9. ASSUME ExportDiscard PROVE Goal
  <2>1. /\ DeleteScan(exporter.id)
        /\ misfired' = (misfired \/ (exporter.id \in DOMAIN scans /\ ~ IsRollup(exporter.id)))
    BY <1>9 DEF ExportDiscard
  <2>2. exporter.id \in DOMAIN Kept => exporter.id \in DOMAIN scans /\ ~ IsRollup(exporter.id)
    BY DEF Kept
  <2> QED BY <1>7, <1>b, <2>1, <2>2
<1>10. ASSUME ExportCopy PROVE Goal
  <2>1. PICK i \in ScanIds : AddRow(i, RollupRow)
    BY <1>10 DEF ExportCopy, RollupRow
  <2>2. misfired' = misfired
    BY <1>10 DEF ExportCopy, history
  <2>3. /\ \A j \in DOMAIN scans : j \in DOMAIN scans'
        /\ \A j \in DOMAIN scans' : j \in DOMAIN scans \/ scans'[j].host = None
    BY <2>1 DEF AddRow, RollupRow
  <2> QED BY <1>1, <1>a, <2>2, <2>3, KeptSame
<1>11. ASSUME HourPasses PROVE Goal
  <2>1. DOMAIN scans' = DOMAIN scans /\ misfired' = misfired
    BY <1>11 DEF HourPasses, history
  <2> QED BY <1>1, <1>a, <2>1, KeptSame
<1>12. ASSUME CrashRestart PROVE Goal
  <2>1. DOMAIN scans' = DOMAIN scans \ StaleRollups /\ misfired' = misfired
    BY <1>12 DEF CrashRestart
  <2>2. \A j \in DOMAIN scans : ~ IsRollup(j) => j \in DOMAIN scans'
    BY <2>1 DEF StaleRollups
  <2> QED BY <1>1, <1>a, <2>1, <2>2, KeptSame
<1> QED
  BY <1>4, <1>5, <1>6, <1>8, <1>9, <1>10, <1>11, <1>12
     DEF Goal, Next, Handle, Retain, Export, Operate, vars, table, work, history, Arrive, Throttle,
         Parse, PickPrevious, Compare, CheckUuid, InsertConflict, ResolveConflict,
         StoreBusy, Respond, ReadNewestDone, ReadOld, PruneDone, ReadStale, SweepDone, TrimFails,
         CliPrune, CliNextHost, CliDone, ExportSummary, ExportRender, BaselineCheck,
         BaselineInsert

\* The collector implements HostHistory: all its handlers, passes, exports and
\* restarts at once do to the histories of the hosts what it allows.
THEOREM HistoriesRefined == Spec => RefinesHistories
<1>1. Init => Histories!Init
  BY DEF Init, Histories!Init, Kept
<1>2. FloorInv /\ [Next]_vars => [Histories!Next]_(Histories!view)
  BY HistoryStep
<1> QED BY <1>1, <1>2, FloorInvariance, PTL DEF Spec, RefinesHistories, Histories!Spec

=============================================================================
