----------------------------- MODULE ScanDaemon -----------------------------
(***************************************************************************)
(* Manual scans: the rows of the `scans` table that local scans make, the  *)
(* threads and processes that run ProbeRunner.run, and the ways a scan is  *)
(* started - POST /api/scans, the web form, `pqcscan scan` on the same     *)
(* database - with the daemon being killed and restarted in between.       *)
(*                                                                         *)
(* A probe is its control flow in _run_one: the privilege check, applies() *)
(* and run() under a timeout each, the findings it emits, its failure.     *)
(* One loop serves the daemon's requests; `claim` holds it from the SELECT *)
(* of begin_scan_if_idle to its INSERT.                                    *)
(***************************************************************************)
EXTENDS EventBus, FiniteSets

CONSTANTS
  Threads,      \* scan threads of the daemon
  Clis,         \* `pqcscan scan` processes
  Probes,       \* registered probes
  Families,     \* the probes of each family, in the order families are run
  Privileged,   \* probes that require a capability this host lacks
  None,         \* no thread
  MaxFaults     \* bound: kills and failed writes

Runs == Threads \cup Clis
EndFamily == Len(Families) + 1

ASSUME RunsAssumption == None \notin Runs /\ Threads \cap Clis = {}
ASSUME ScanIdsAssumption == ScanIds \subseteq Nat \ {0}
ASSUME FamiliesAssumption ==
  /\ Families \in Seq(SUBSET Probes)
  /\ UNION Range(Families) = Probes
  /\ Privileged \subseteq Probes
ASSUME FiniteAssumption == IsFiniteSet(ScanIds) /\ MaxFaults \in Nat

VARIABLES
  status,       \* status of each row, "none" when there is no row
  rows,         \* findings table: [probe, kind] of each scan
  at,           \* what each run is doing
  job,          \* id of its row, 0 before it has one
  family,       \* index of the family it is at
  phase,        \* where each probe of that family is
  claim,        \* the thread POST /api/scans is claiming a row for, or None
  daemon,       \* "up", or "down" or "sweeping" while it is starting
  stale,        \* rows the starting daemon has read as still running
  \* History and bounds:
  returned,     \* probes of each scan that returned by themselves
  lost,         \* runs lost since the daemon started, the daemon alive
  faults        \* faults so far

store == <<status, rows, returned>>
progress == <<at, job, family, phase>>
boot == <<daemon, stale>>
count == <<lost, faults>>
vars == <<busVars, store, progress, claim, boot, count>>

Init ==
  /\ BusInit
  /\ status = [n \in ScanIds |-> "none"]
  /\ rows = [n \in ScanIds |-> {}]
  /\ at = [t \in Runs |-> "idle"]
  /\ job = [t \in Runs |-> 0]
  /\ family = [t \in Runs |-> 0]
  /\ phase = [t \in Runs |-> [p \in Probes |-> "wait"]]
  /\ claim = None
  /\ daemon = "up"
  /\ stale = {}
  /\ returned = [n \in ScanIds |-> {}]
  /\ lost = 0
  /\ faults = 0

Running == {n \in ScanIds : status[n] = "running"}
LoopFree == daemon = "up" /\ claim = None

\* Bound: a scan is started only when there is an id left for its row.
IdLeft ==
  Cardinality({t \in Runs : at[t] = "create"}) + (IF claim = None THEN 0 ELSE 1)
    < Cardinality({n \in ScanIds : status[n] = "none"})

Goto(t, there) == at' = [at EXCEPT ![t] = there]

\* The row of a new scan; ids are given in order.
NewRow(t) ==
  \E n \in ScanIds :
    /\ status[n] = "none"
    /\ \A k \in ScanIds : k < n => status[k] # "none"
    /\ status' = [status EXCEPT ![n] = "running"]
    /\ job' = [job EXCEPT ![t] = n]

\* Events of a CLI process go to a bus of its own that nobody here reads.
Tell(t, kind, what) ==
  IF t \in Threads THEN Publish([scan |-> job[t], kind |-> kind, what |-> what])
                   ELSE UNCHANGED busVars

-----------------------------------------------------------------------------
(* Starting a scan.                                                          *)

\* POST /api/scans: begin_scan_if_idle's check, under scan_lock ...
ApiCheck(t) ==
  /\ LoopFree
  /\ at[t] = "idle" /\ IdLeft
  /\ Running = {}
  /\ claim' = t
  /\ UNCHANGED <<busVars, store, progress, boot, count>>

\* ... and its insert; the thread is then started with the row's id.
ApiInsert ==
  /\ claim # None
  /\ NewRow(claim)
  /\ Goto(claim, "stage")
  /\ family' = [family EXCEPT ![claim] = 1]
  /\ claim' = None
  /\ UNCHANGED <<busVars, rows, returned, phase, boot, count>>

\* The web form: a check of its own, then a thread that has no row yet.
UiPost(t) ==
  /\ LoopFree
  /\ at[t] = "idle" /\ IdLeft
  /\ Running = {}
  /\ Goto(t, "create")
  /\ UNCHANGED <<busVars, store, job, family, phase, claim, boot, count>>

CliStart(c) ==
  /\ at[c] = "idle" /\ IdLeft
  /\ Goto(c, "create")
  /\ UNCHANGED <<busVars, store, job, family, phase, claim, boot, count>>

\* run() without a scan_id: create_scan checks nothing.
CreateScan(t) ==
  /\ at[t] = "create"
  /\ NewRow(t)
  /\ Goto(t, "stage")
  /\ family' = [family EXCEPT ![t] = 1]
  /\ UNCHANGED <<busVars, rows, returned, phase, claim, boot, count>>

-----------------------------------------------------------------------------
(* run(): each family's probes together, one family after the other.         *)

StageStart(t) ==
  /\ at[t] = "stage"
  /\ family[t] < EndFamily
  /\ Tell(t, "stage_started", family[t])
  /\ phase' = [phase EXCEPT ![t] = [p \in Probes |->
                 IF p \in Families[family[t]] THEN "new" ELSE "wait"]]
  /\ Goto(t, "probes")
  /\ UNCHANGED <<store, job, family, claim, boot, count>>

InPhase(t, p, f) == at[t] = "probes" /\ phase[t][p] = f
ToPhase(t, p, f) == phase' = [phase EXCEPT ![t][p] = f]
Record(t, p, kind) == rows' = [rows EXCEPT ![job[t]] = @ \cup {[probe |-> p, kind |-> kind]}]

\* The privilege check: a probe that may not run leaves a row that says so.
ProbeBegin(t, p) ==
  /\ InPhase(t, p, "new")
  /\ IF p \in Privileged
     THEN Record(t, p, "skipped") /\ ToPhase(t, p, "end")
     ELSE ToPhase(t, p, "applies") /\ UNCHANGED rows
  /\ UNCHANGED <<busVars, status, returned, at, job, family, claim, boot, count>>

\* applies() answers.
ProbeApplies(t, p) ==
  /\ InPhase(t, p, "applies")
  /\ ToPhase(t, p, "run")
  /\ UNCHANGED <<busVars, store, at, job, family, claim, boot, count>>

ProbeReturns(t, p) ==
  /\ InPhase(t, p, "applies") \/ InPhase(t, p, "run")
  /\ ToPhase(t, p, "end")
  /\ returned' = [returned EXCEPT ![job[t]] = @ \cup {p}]
  /\ UNCHANGED <<busVars, status, rows, at, job, family, claim, boot, count>>

\* emit(): the finding and its verdicts are stored, then published.  The
\* publishing task runs before the end of the probe that made it is noticed.
Emit(t, p) ==
  /\ InPhase(t, p, "run")
  /\ [probe |-> p, kind |-> "finding"] \notin rows[job[t]]
  /\ Record(t, p, "finding")
  /\ Tell(t, "finding", p)
  /\ UNCHANGED <<status, returned, progress, claim, boot, count>>

\* Mutated: only run() is under a timeout, applies() may hang for ever.
ProbeTimeoutRunOnly(t, p) ==
  /\ InPhase(t, p, "run")
  /\ Record(t, p, "error")
  /\ ToPhase(t, p, "end")
  /\ UNCHANGED <<busVars, status, returned, at, job, family, claim, boot, count>>

\* applies() or run() has used up its time.
ProbeTimeout(t, p) ==
  /\ InPhase(t, p, "applies") \/ InPhase(t, p, "run")
  /\ Record(t, p, "error")
  /\ ToPhase(t, p, "end")
  /\ UNCHANGED <<busVars, status, returned, at, job, family, claim, boot, count>>

\* applies() or run() raises; emit() may have raised in run(), after it had
\* stored the finding and before it had published it.
ProbeCrashes(t, p) ==
  \/ ProbeTimeout(t, p)
  \/ /\ InPhase(t, p, "run")
     /\ rows' = [rows EXCEPT ![job[t]] = @ \cup [probe : {p}, kind : {"finding", "error"}]]
     /\ ToPhase(t, p, "end")
     /\ UNCHANGED <<busVars, status, returned, at, job, family, claim, boot, count>>

\* Mutated: the stage is over when its first probe is.
StageDoneEarly(t) ==
  /\ at[t] = "probes"
  /\ \E p \in Families[family[t]] : phase[t][p] = "end"
  /\ Tell(t, "stage_completed", family[t])
  /\ phase' = [phase EXCEPT ![t] = [p \in Probes |-> "wait"]]
  /\ family' = [family EXCEPT ![t] = @ + 1]
  /\ Goto(t, "stage")
  /\ UNCHANGED <<store, job, claim, boot, count>>

\* gather() has all of them.
StageDone(t) ==
  /\ at[t] = "probes"
  /\ \A p \in Families[family[t]] : phase[t][p] = "end"
  /\ Tell(t, "stage_completed", family[t])
  /\ phase' = [phase EXCEPT ![t] = [p \in Probes |-> "wait"]]
  /\ family' = [family EXCEPT ![t] = @ + 1]
  /\ Goto(t, "stage")
  /\ UNCHANGED <<store, job, claim, boot, count>>

FinishScan(t) ==
  /\ at[t] = "stage"
  /\ family[t] = EndFamily
  /\ status' = [status EXCEPT ![job[t]] = "done"]
  /\ Goto(t, "tell")
  /\ UNCHANGED <<busVars, rows, returned, job, family, phase, claim, boot, count>>

\* The run is over, one way or another.
Forget(t) ==
  /\ Goto(t, "idle")
  /\ job' = [job EXCEPT ![t] = 0]
  /\ family' = [family EXCEPT ![t] = 0]
  /\ phase' = [phase EXCEPT ![t] = [p \in Probes |-> "wait"]]

\* Mutated: the event goes out before the row is written.
TellCompletedFirst(t) ==
  /\ at[t] = "stage"
  /\ family[t] = EndFamily
  /\ Tell(t, "scan_completed", 0)
  /\ Goto(t, "stage")
  /\ UNCHANGED <<store, job, family, phase, claim, boot, count>>

\* Mutated: the thread's row is not forgotten.
TellCompletedKeepsRow(t) ==
  /\ at[t] = "tell"
  /\ Tell(t, "scan_completed", 0)
  /\ Goto(t, "idle")
  /\ UNCHANGED <<store, job, family, phase, claim, boot, count>>

TellCompleted(t) ==
  /\ at[t] = "tell"
  /\ Tell(t, "scan_completed", 0)
  /\ Forget(t)
  /\ UNCHANGED <<store, claim, boot, count>>

-----------------------------------------------------------------------------
(* Failures.                                                                 *)

Fault == faults < MaxFaults /\ faults' = faults + 1

\* A write outside the envelope of emit() fails - the new row, the row of a
\* skipped or failed probe, the final status: run() raises and ends, and the
\* scan's row stays as it is.
StoreFails(t) ==
  /\ Fault
  /\ \/ at[t] = "create"
     \/ \E p \in Probes : phase[t][p] \in {"new", "applies", "run"}
     \/ at[t] = "stage" /\ family[t] = EndFamily
  /\ lost' = lost + 1
  /\ Forget(t)
  /\ UNCHANGED <<busVars, store, claim, boot>>

\* The insert of begin_scan_if_idle fails: a 500, no row and no thread.
ClaimFails ==
  /\ Fault
  /\ claim # None
  /\ claim' = None
  /\ UNCHANGED <<busVars, store, progress, boot, lost>>

CliKilled(c) ==
  /\ Fault
  /\ at[c] # "idle"
  /\ lost' = lost + 1
  /\ Forget(c)
  /\ UNCHANGED <<busVars, store, claim, boot>>

\* The daemon is killed with its threads and its bus.
DaemonKilled ==
  /\ Fault
  /\ daemon # "down"
  /\ daemon' = "down"
  /\ stale' = {}
  /\ claim' = None
  /\ at' = [t \in Runs |-> IF t \in Threads THEN "idle" ELSE at[t]]
  /\ job' = [t \in Runs |-> IF t \in Threads THEN 0 ELSE job[t]]
  /\ family' = [t \in Runs |-> IF t \in Threads THEN 0 ELSE family[t]]
  /\ phase' = [t \in Runs |-> IF t \in Threads THEN [p \in Probes |-> "wait"] ELSE phase[t]]
  /\ BusCrash
  /\ UNCHANGED <<store, lost>>

\* reconcile_running_scans of the next start: read, then write.
ReconcileRead ==
  /\ daemon = "down"
  /\ daemon' = "sweeping"
  /\ stale' = Running
  /\ lost' = 0
  /\ UNCHANGED <<busVars, store, progress, claim, faults>>

\* Mutated: nothing is swept at startup.
ReconcileNothing ==
  /\ daemon = "sweeping"
  /\ daemon' = "up"
  /\ stale' = {}
  /\ UNCHANGED <<busVars, store, progress, claim, count>>

ReconcileWrite ==
  /\ daemon = "sweeping"
  /\ daemon' = "up"
  /\ status' = [n \in ScanIds |-> IF n \in stale THEN "interrupted" ELSE status[n]]
  /\ stale' = {}
  /\ UNCHANGED <<busVars, rows, returned, progress, claim, count>>

-----------------------------------------------------------------------------
\* A client's page shows a running scan and opens its stream.
Watch(s, n) ==
  /\ LoopFree
  /\ n \in Running \/ watch[s] = n
  /\ Connect(s, n)
  /\ UNCHANGED <<store, progress, claim, boot, count>>

Stream(s) ==
  /\ LoopFree
  /\ StreamStep(s) \/ ClientLeaves(s)
  /\ UNCHANGED <<store, progress, claim, boot, count>>

\* What a run does without anybody's help: a probe need not return, but its
\* timeout comes.
Step(t) ==
  \/ CreateScan(t) \/ StageStart(t) \/ StageDone(t) \/ FinishScan(t) \/ TellCompleted(t)
  \/ \E p \in Probes : ProbeBegin(t, p) \/ ProbeTimeout(t, p)

ProbeStep(t, p) ==
  ProbeApplies(t, p) \/ ProbeReturns(t, p) \/ Emit(t, p) \/ ProbeCrashes(t, p)

Next ==
  \/ \E t \in Threads : ApiCheck(t) \/ UiPost(t)
  \/ \E c \in Clis : CliStart(c) \/ CliKilled(c)
  \/ ApiInsert \/ ClaimFails
  \/ \E t \in Runs : Step(t) \/ StoreFails(t) \/ \E p \in Probes : ProbeStep(t, p)
  \/ \E s \in Streams : Stream(s) \/ \E n \in ScanIds : Watch(s, n)
  \/ DaemonKilled \/ ReconcileRead \/ ReconcileWrite

Fairness ==
  /\ \A t \in Runs : WF_vars(Step(t))
  /\ WF_vars(ApiInsert)
  /\ WF_vars(ReconcileRead) /\ WF_vars(ReconcileWrite)

Spec == Init /\ [][Next]_vars /\ Fairness

-----------------------------------------------------------------------------
Kinds == {"skipped", "error", "finding"}

\* Types of the tables, of every run and of the daemon's start; a run has a
\* row exactly while it works on one.
TypeOK ==
  /\ status \in [ScanIds -> {"none", "running", "done", "interrupted"}]
  /\ \A n \in ScanIds : rows[n] \subseteq [probe : Probes, kind : Kinds]
  /\ at \in [Runs -> {"idle", "create", "stage", "probes", "tell"}]
  /\ job \in [Runs -> ScanIds \cup {0}]
  /\ family \in [Runs -> 0..EndFamily]
  /\ phase \in [Runs -> [Probes -> {"wait", "new", "applies", "run", "end"}]]
  /\ claim \in Threads \cup {None}
  /\ daemon \in {"up", "down", "sweeping"}
  /\ stale \subseteq ScanIds
  /\ returned \in [ScanIds -> SUBSET Probes]
  /\ lost \in Nat /\ faults \in 0..MaxFaults
  /\ stream \in [Streams -> {"off", "connected", "open", "kept", "ended"}]
  /\ \A t \in Runs : job[t] # 0 <=> at[t] \in {"stage", "probes", "tell"}

\* "done" means done: of every probe, in every family, the scan either has
\* its return or a row that says it was skipped or failed.
DoneIsComplete ==
  \A n \in ScanIds : status[n] = "done" =>
    \A p \in Probes :
      p \in returned[n] \/ \E r \in rows[n] : r.probe = p /\ r.kind \in {"skipped", "error"}

\* The page reloads on scan_completed: whoever has received it finds the scan
\* finished, though event and row travel through different threads.
CompletedMeansDone ==
  \A s \in Streams : \A i \in DOMAIN sent[s] :
    sent[s][i].kind = "scan_completed" => status[watch[s]] = "done"

Orphans == {n \in Running : \A t \in Runs : job[t] # n}

\* The daemon's death leaves no row "running" behind it to keep the daemon
\* from scanning: once it is up again, every running row has a run behind it,
\* except for runs lost since that start to a failed write or a killed CLI.
NoRowLeftRunning == daemon = "up" => Cardinality(Orphans) <= lost

\* Every run comes to an end, whatever its probes do: none of them can keep
\* gather() waiting.
RunsEnd == \A t \in Runs : at[t] # "idle" ~> at[t] = "idle"

\* "One manual scan at a time" (ui/routes.py:195): the daemon never has two
\* scans running.
OneManualScan ==
  \A t, u \in Threads : job[t] # 0 /\ job[u] # 0 => t = u

=============================================================================
