-------------------------- MODULE ScanDaemonProofs --------------------------
(***************************************************************************)
(* Proofs about ScanDaemon, for any threads, CLI processes, probes,        *)
(* families, streams and scan ids and any number of faults.                *)
(*                                                                         *)
(* JobInv ties a run to its row: it has one exactly while it works, no two *)
(* runs share one.  DoneInv follows the probes a run has accounted for.    *)
(* OrphanInv counts the running rows without a run, TellInv follows a      *)
(* completion event through the loop's callbacks and the queue, and        *)
(* FlowInv all of a scan's events on their way to a stream.                *)
(***************************************************************************)
EXTENDS ScanDaemon, FiniteSetTheorems, SequenceTheorems, TLAPS

\* Where a run is, and what of its state goes with that place.
Places ==
  /\ rows \in [ScanIds -> SUBSET [probe : Probes, kind : Kinds]]
  /\ \A t \in Runs : at[t] \in {"stage", "probes"} => family[t] >= 1
  /\ \A t \in Runs : at[t] = "probes" => family[t] <= Len(Families)
  /\ \A t \in Runs : at[t] # "probes" => \A p \in Probes : phase[t][p] = "wait"
  /\ claim # None => at[claim] = "idle"

\* A run's row exists, and it is nobody else's.
Jobs ==
  /\ \A t \in Runs : job[t] # 0 => status[job[t]] # "none"
  /\ \A t, u \in Runs : job[t] # 0 /\ job[t] = job[u] => t = u

JobInv == TypeOK /\ Places /\ Jobs

\* The scan has the probe's return, or a row that says why there is none.
Accounted(n, p) ==
  p \in returned[n] \/ \E r \in rows[n] : r.probe = p /\ r.kind \in {"skipped", "error"}

\* A run has accounted for the families behind it, and for the probes of the
\* present one that are over.
RunAccounts ==
  \A t \in Runs :
    /\ at[t] \in {"stage", "probes"} =>
         \A k \in 1..(family[t] - 1) : \A p \in Families[k] : Accounted(job[t], p)
    /\ at[t] = "probes" =>
         \A p \in Probes : phase[t][p] = "end" => Accounted(job[t], p)

DoneInv == RunAccounts /\ DoneIsComplete

\* The orphans a sweep that has read the table will leave.
Unswept == Orphans \ stale

\* A run that has only its completion to announce has ended its row.
Stopped == \A t \in Runs : at[t] = "tell" => status[job[t]] # "running"

OrphanInv ==
  /\ Stopped
  /\ daemon = "up" => Cardinality(Orphans) <= lost
  /\ daemon = "sweeping" => Cardinality(Unswept) <= lost

EventKinds == {"stage_started", "finding", "stage_completed", "scan_completed"}

\* Events whose message is true: a completed scan is done.
Told ==
  {e \in [scan : ScanIds, kind : EventKinds, what : Nat \cup Probes] :
     e.kind = "scan_completed" => status[e.scan] = "done"}

BusType ==
  /\ stream \in [Streams -> {"off", "connected", "open", "kept", "ended"}]
  /\ watch \in [Streams -> ScanIds \cup {0}]
  /\ calls \in [Streams -> Seq(Told)]
  /\ queue \in [Streams -> Seq(Told)]
  /\ sent \in [Streams -> Seq(Told)]

\* A stream has sent events of its own scan only.
OwnEvents == \A s \in Streams : \A i \in 1..Len(sent[s]) : sent[s][i].scan = watch[s]

\* With the daemon, its threads and its bus are gone.
Silence ==
  daemon # "up" =>
    /\ claim = None
    /\ \A t \in Threads : at[t] = "idle"
    /\ \A s \in Streams : calls[s] = <<>> /\ queue[s] = <<>> /\ sent[s] = <<>>

\* A thread announces the completion of a scan that is done.
Announces == \A t \in Threads : at[t] = "tell" => status[job[t]] = "done"

TellInv == BusType /\ OwnEvents /\ Silence /\ Announces

-----------------------------------------------------------------------------
\* The initial state satisfies the job invariant.
LEMMA InitJob == Init => JobInv
<1> SUFFICES ASSUME Init PROVE JobInv
  OBVIOUS
<1> USE RunsAssumption, ScanIdsAssumption, FamiliesAssumption, FiniteAssumption
        DEF Init, BusInit
<1>1. EndFamily \in Nat
  BY DEF EndFamily
<1>2. TypeOK
  BY <1>1 DEF TypeOK, Kinds
<1>3. Places
  BY DEF Places, Kinds
<1>4. Jobs
  BY DEF Jobs
<1> QED BY <1>2, <1>3, <1>4 DEF JobInv

\* Every way to start a scan keeps the job invariant: the row is new.
LEMMA StartJob ==
  ASSUME JobInv,
         \/ \E t \in Threads : ApiCheck(t) \/ UiPost(t)
         \/ \E c \in Clis : CliStart(c)
         \/ ApiInsert
         \/ \E t \in Runs : CreateScan(t)
  PROVE  JobInv'
<1> USE RunsAssumption, ScanIdsAssumption, FamiliesAssumption, FiniteAssumption
        DEF JobInv, TypeOK, Places, Jobs, Runs, Goto, busVars, store, progress, boot, count
<1>0. EndFamily \in Nat /\ EndFamily = Len(Families) + 1 /\ Len(Families) \in Nat
  BY DEF EndFamily
<1>1. ASSUME NEW t \in Threads, ApiCheck(t) PROVE JobInv'
  BY <1>1 DEF ApiCheck, LoopFree
<1>2. ASSUME NEW t \in Threads, UiPost(t) PROVE JobInv'
  BY <1>2 DEF UiPost, LoopFree
<1>3. ASSUME NEW c \in Clis, CliStart(c) PROVE JobInv'
  BY <1>3 DEF CliStart
<1>4. ASSUME NEW t \in Runs, CreateScan(t) PROVE JobInv'
  BY <1>0, <1>4 DEF CreateScan, NewRow
<1>5. ASSUME ApiInsert PROVE JobInv'
  BY <1>0, <1>5 DEF ApiInsert, NewRow
<1> QED BY <1>1, <1>2, <1>3, <1>4, <1>5

\* What a step of a probe may do: add rows and returns, move that probe, and
\* end it only once it is accounted for.
ProbeMoves(t, p) ==
  /\ at[t] = "probes"
  /\ rows' \in [ScanIds -> SUBSET [probe : Probes, kind : Kinds]]
  /\ returned' \in [ScanIds -> SUBSET Probes]
  /\ \A n \in ScanIds : rows[n] \subseteq rows'[n] /\ returned[n] \subseteq returned'[n]
  /\ phase' \in [Runs -> [Probes -> {"wait", "new", "applies", "run", "end"}]]
  /\ \A u \in Runs \ {t} : phase'[u] = phase[u]
  /\ \A q \in Probes \ {p} : phase'[t][q] = phase[t][q]
  /\ phase'[t][p] = "end" => Accounted(job[t], p)'
  /\ UNCHANGED <<stream, status, at, job, family, claim, boot, count>>

\* Each action of a probe is such a step.
LEMMA ProbesMove ==
  ASSUME JobInv, NEW t \in Runs, NEW p \in Probes,
         ProbeBegin(t, p) \/ ProbeTimeout(t, p) \/ ProbeStep(t, p)
  PROVE  ProbeMoves(t, p)
<1>a. /\ rows \in [ScanIds -> SUBSET [probe : Probes, kind : Kinds]]
      /\ returned \in [ScanIds -> SUBSET Probes]
      /\ phase \in [Runs -> [Probes -> {"wait", "new", "applies", "run", "end"}]]
      /\ at[t] = "probes" => job[t] \in ScanIds
  BY ScanIdsAssumption DEF JobInv, TypeOK, Places
<1>b. ASSUME NEW R \in SUBSET [probe : {p}, kind : Kinds], at[t] = "probes",
             rows' = [rows EXCEPT ![job[t]] = @ \cup R]
      PROVE  /\ rows' \in [ScanIds -> SUBSET [probe : Probes, kind : Kinds]]
             /\ \A n \in ScanIds : rows[n] \subseteq rows'[n]
             /\ R \subseteq rows'[job[t]]
  BY <1>a, <1>b
<1>c. ASSUME NEW kind \in Kinds, at[t] = "probes", Record(t, p, kind)
      PROVE  /\ rows' \in [ScanIds -> SUBSET [probe : Probes, kind : Kinds]]
             /\ \A n \in ScanIds : rows[n] \subseteq rows'[n]
             /\ [probe |-> p, kind |-> kind] \in rows'[job[t]]
  <2> DEFINE R == {[probe |-> p, kind |-> kind]}
  <2>1. R \in SUBSET [probe : {p}, kind : Kinds] /\ rows' = [rows EXCEPT ![job[t]] = @ \cup R]
    BY <1>c DEF Record
  <2> QED BY <1>b, <1>c, <2>1
<1>d. ASSUME NEW f \in {"wait", "new", "applies", "run", "end"}, ToPhase(t, p, f)
      PROVE  /\ phase' \in [Runs -> [Probes -> {"wait", "new", "applies", "run", "end"}]]
             /\ \A u \in Runs \ {t} : phase'[u] = phase[u]
             /\ \A q \in Probes \ {p} : phase'[t][q] = phase[t][q]
             /\ phase'[t][p] = f
  BY <1>a, <1>d DEF ToPhase
<1>k. {"skipped", "error", "finding"} \subseteq Kinds
  BY DEF Kinds
<1>t. ASSUME NEW kind, NEW what, Tell(t, kind, what) PROVE UNCHANGED stream
  BY <1>t DEF Tell, Publish, busVars
<1> USE DEF ProbeMoves, InPhase, store, progress, busVars
<1>1. CASE ProbeTimeout(t, p)
  <2>1. at[t] = "probes" /\ Record(t, p, "error")
    BY <1>1 DEF ProbeTimeout
  <2> QED BY <1>1, <1>a, <1>c, <1>d, <1>k, <2>1 DEF ProbeTimeout, Accounted
<1>2. CASE ProbeBegin(t, p)
  <2>1. CASE p \in Privileged
    <3>1. at[t] = "probes" /\ Record(t, p, "skipped")
      BY <1>2, <2>1 DEF ProbeBegin
    <3> QED BY <1>2, <2>1, <1>a, <1>c, <1>d, <1>k, <3>1 DEF ProbeBegin, Accounted
  <2>2. CASE p \notin Privileged
    <3>1. at[t] = "probes" /\ ToPhase(t, p, "applies") /\ UNCHANGED <<rows, returned>>
      BY <1>2, <2>2 DEF ProbeBegin
    <3>2. phase'[t][p] = "applies"
      BY <3>1, <1>d, Zenon
    <3>3. /\ phase' \in [Runs -> [Probes -> {"wait", "new", "applies", "run", "end"}]]
          /\ \A u \in Runs \ {t} : phase'[u] = phase[u]
          /\ \A q \in Probes \ {p} : phase'[t][q] = phase[t][q]
      BY <3>1, <1>d, Zenon
    <3> QED BY <1>2, <1>a, <3>1, <3>2, <3>3 DEF ProbeBegin
  <2> QED BY <2>1, <2>2
<1>3. CASE ProbeApplies(t, p)
  <2>1. at[t] = "probes" /\ ToPhase(t, p, "run") /\ UNCHANGED <<rows, returned>>
    BY <1>3 DEF ProbeApplies
  <2>2. phase'[t][p] = "run"
    BY <2>1, <1>d, Zenon
  <2>3. /\ phase' \in [Runs -> [Probes -> {"wait", "new", "applies", "run", "end"}]]
        /\ \A u \in Runs \ {t} : phase'[u] = phase[u]
        /\ \A q \in Probes \ {p} : phase'[t][q] = phase[t][q]
    BY <2>1, <1>d, Zenon
  <2> QED BY <1>3, <1>a, <2>1, <2>2, <2>3 DEF ProbeApplies
<1>4. CASE ProbeReturns(t, p)
  <2>1. at[t] = "probes" /\ returned' = [returned EXCEPT ![job[t]] = @ \cup {p}]
    BY <1>4 DEF ProbeReturns
  <2>2. /\ returned' \in [ScanIds -> SUBSET Probes] /\ p \in returned'[job[t]]
        /\ \A n \in ScanIds : returned[n] \subseteq returned'[n]
    BY <2>1, <1>a
  <2> QED BY <1>4, <1>a, <1>d, <2>1, <2>2 DEF ProbeReturns, Accounted
<1>5. CASE Emit(t, p)
  <2>1. /\ at[t] = "probes" /\ Record(t, p, "finding")
        /\ phase[t][p] = "run" /\ UNCHANGED stream
    BY <1>5, <1>t DEF Emit
  <2> QED BY <1>5, <1>a, <1>c, <1>k, <2>1 DEF Emit
<1>6. CASE ProbeCrashes(t, p)
  <2> DEFINE R == [probe : {p}, kind : {"finding", "error"}]
  <2>1. CASE /\ InPhase(t, p, "run")
             /\ rows' = [rows EXCEPT ![job[t]] = @ \cup R]
             /\ ToPhase(t, p, "end")
             /\ UNCHANGED <<busVars, status, returned, at, job, family, claim, boot, count>>
    <3>1. R \in SUBSET [probe : {p}, kind : Kinds] /\ [probe |-> p, kind |-> "error"] \in R
      BY <1>k
    <3> HIDE DEF R
    <3>2. [probe |-> p, kind |-> "error"] \in rows'[job[t]]
      BY <2>1, <1>b, <3>1
    <3> QED BY <2>1, <3>1, <3>2, <1>a, <1>b, <1>d DEF Accounted
  <2> QED BY <1>6, <1>1, <2>1 DEF ProbeCrashes
<1> QED BY <1>1, <1>2, <1>3, <1>4, <1>5, <1>6 DEF ProbeStep

\* Every step of run() keeps the job invariant.
LEMMA RunJob ==
  ASSUME JobInv, NEW t \in Runs,
         \/ StageStart(t) \/ StageDone(t) \/ FinishScan(t) \/ TellCompleted(t)
         \/ \E p \in Probes : ProbeBegin(t, p) \/ ProbeTimeout(t, p) \/ ProbeStep(t, p)
  PROVE  JobInv'
<1> USE RunsAssumption, ScanIdsAssumption, FamiliesAssumption, FiniteAssumption
        DEF JobInv, TypeOK, Places, Jobs, Goto, busVars, store, progress, boot, count,
            InPhase, ToPhase, Record, Kinds
<1>0. EndFamily \in Nat /\ EndFamily = Len(Families) + 1 /\ Len(Families) \in Nat
  BY DEF EndFamily
<1>t. ASSUME NEW kind, NEW what, Tell(t, kind, what) PROVE UNCHANGED stream
  BY <1>t DEF Tell, Publish
<1>1. CASE StageStart(t)
  BY <1>0, <1>1, <1>t DEF StageStart
<1>2. CASE StageDone(t)
  BY <1>0, <1>2, <1>t DEF StageDone
<1>3. CASE FinishScan(t)
  BY <1>0, <1>3 DEF FinishScan
<1>4. CASE TellCompleted(t)
  BY <1>0, <1>4, <1>t DEF TellCompleted, Forget
<1>5. ASSUME NEW p \in Probes, ProbeMoves(t, p) PROVE JobInv'
  <2> USE <1>5 DEF ProbeMoves
  <2>1. TypeOK'
    <3>1. \A n \in ScanIds : rows'[n] \subseteq [probe : Probes, kind : Kinds]
      OBVIOUS
    <3> QED BY <3>1
  <2>2. Places'
    <3>1. \A u \in Runs : at[u] # "probes" => u # t /\ phase'[u] = phase[u]
      OBVIOUS
    <3> QED BY <3>1
  <2>3. Jobs'
    OBVIOUS
  <2> QED BY <2>1, <2>2, <2>3
<1> QED BY <1>1, <1>2, <1>3, <1>4, <1>5, ProbesMove

\* Every step of the system keeps the job invariant.
LEMMA NextJob == JobInv /\ [Next]_vars => JobInv'
<1> SUFFICES ASSUME JobInv, [Next]_vars PROVE JobInv'
  OBVIOUS
<1> USE RunsAssumption, ScanIdsAssumption, FamiliesAssumption, FiniteAssumption
        DEF Runs, Goto, Forget, Fault, busVars, store, progress, boot, count
<1>0. EndFamily \in Nat /\ EndFamily = Len(Families) + 1 /\ Len(Families) \in Nat
  BY DEF EndFamily
<1>1. ASSUME NEW t \in Runs, StoreFails(t) PROVE JobInv'
  BY <1>0, <1>1 DEF StoreFails, JobInv, TypeOK, Places, Jobs
<1>2. CASE ClaimFails
  BY <1>0, <1>2 DEF ClaimFails, JobInv, TypeOK, Places, Jobs
<1>3. ASSUME NEW c \in Clis, CliKilled(c) PROVE JobInv'
  BY <1>0, <1>3 DEF CliKilled, JobInv, TypeOK, Places, Jobs
<1>4. CASE DaemonKilled
  BY <1>0, <1>4 DEF DaemonKilled, BusCrash, JobInv, TypeOK, Places, Jobs
<1>5. CASE ReconcileRead
  BY <1>5 DEF ReconcileRead, Running, JobInv, TypeOK, Places, Jobs
<1>6. CASE ReconcileWrite
  BY <1>6 DEF ReconcileWrite, JobInv, TypeOK, Places, Jobs
<1>7. ASSUME NEW s \in Streams, NEW n \in ScanIds, Watch(s, n) PROVE JobInv'
  BY <1>7 DEF Watch, Connect, JobInv, TypeOK, Places, Jobs
<1>8. ASSUME NEW s \in Streams, Stream(s) PROVE JobInv'
  BY <1>8 DEF Stream, StreamStep, Subscribe, Offer, Deliver, Keepalive, StreamEnds,
              ClientLeaves, Unsubscribe, JobInv, TypeOK, Places, Jobs
<1>9. CASE UNCHANGED vars
  BY <1>9 DEF vars, JobInv, TypeOK, Places, Jobs
<1> QED
  BY <1>1, <1>2, <1>3, <1>4, <1>5, <1>6, <1>7, <1>8, <1>9, StartJob, RunJob
     DEF Next, Step

\* The job invariant holds in every reachable state.
LEMMA JobInvariance == Spec => []JobInv
BY InitJob, NextJob, PTL DEF Spec

\* The types of the tables, of every run and of the daemon's start, and: a run
\* has a row exactly while it works on one, however runs are killed.
THEOREM ScanTypes == Spec => []TypeOK
<1>1. JobInv => TypeOK
  BY DEF JobInv
<1> QED BY <1>1, JobInvariance, PTL

-----------------------------------------------------------------------------
\* What a step that is not a probe's leaves alone, or how far it may go: no row
\* and no return is added, and a run that goes on with its families is where
\* it was.
Keeps(u) ==
  /\ at'[u] \in {"stage", "probes"} =>
       /\ at[u] \in {"stage", "probes"} /\ job'[u] = job[u] /\ family'[u] = family[u]
  /\ at'[u] = "probes" =>
       /\ at[u] = "probes" /\ phase'[u] = phase[u]

\* No step that records nothing, leaves every run's account as it was and makes
\* no scan done can break the completeness of done scans.
LEMMA QuietDone ==
  ASSUME DoneInv, UNCHANGED <<rows, returned>>,
         \A u \in Runs : Keeps(u),
         \A n \in ScanIds : status'[n] = "done" => status[n] = "done"
  PROVE  DoneInv'
<1>1. RunAccounts'
  <2> SUFFICES ASSUME NEW u \in Runs
               PROVE  /\ at'[u] \in {"stage", "probes"} =>
                           \A k \in 1..(family'[u] - 1) : \A p \in Families[k] : Accounted(job'[u], p)
                      /\ at'[u] = "probes" =>
                           \A p \in Probes : phase'[u][p] = "end" => Accounted(job'[u], p)
    BY DEF RunAccounts, Accounted
  <2>1. Keeps(u)
    OBVIOUS
  <2> QED BY <2>1 DEF DoneInv, RunAccounts, Keeps
<1>2. DoneIsComplete'
  BY DEF DoneInv, DoneIsComplete
<1> QED BY <1>1, <1>2 DEF DoneInv

\* A step of a probe only adds to the accounts.
LEMMA ProbeDone ==
  ASSUME JobInv, DoneInv, NEW t \in Runs, NEW p \in Probes, ProbeMoves(t, p)
  PROVE  DoneInv'
<1>1. \A n \in ScanIds, q \in Probes : Accounted(n, q) => Accounted(n, q)'
  BY DEF ProbeMoves, Accounted
<1>2. UNCHANGED <<status, at, job, family>>
  BY DEF ProbeMoves
<1>3. \A u \in Runs : at[u] \in {"stage", "probes"} =>
        job[u] \in ScanIds /\ family[u] \in 1..EndFamily
  BY ScanIdsAssumption DEF JobInv, TypeOK, Places
<1>4. DoneIsComplete'
  BY <1>1, <1>2 DEF DoneInv, DoneIsComplete, Accounted
<1>5. RunAccounts'
  <2> SUFFICES ASSUME NEW u \in Runs
               PROVE  /\ at[u] \in {"stage", "probes"} =>
                           \A k \in 1..(family[u] - 1) : \A q \in Families[k] : Accounted(job[u], q)'
                      /\ at[u] = "probes" =>
                           \A q \in Probes : phase'[u][q] = "end" => Accounted(job[u], q)'
    BY <1>2 DEF RunAccounts
  <2>1. ASSUME at[u] \in {"stage", "probes"}, NEW k \in 1..(family[u] - 1), NEW q \in Families[k]
        PROVE  Accounted(job[u], q)'
    <3>1. k \in 1..Len(Families)
      BY <1>3, <2>1, FamiliesAssumption DEF EndFamily
    <3>2. q \in Probes
      BY <3>1, FamiliesAssumption
    <3> QED BY <1>1, <1>2, <1>3, <2>1, <3>2 DEF DoneInv, RunAccounts
  <2>2. ASSUME at[u] = "probes", NEW q \in Probes, phase'[u][q] = "end"
        PROVE  Accounted(job[u], q)'
    <3>1. CASE u = t /\ q = p
      BY <1>2, <2>2, <3>1 DEF ProbeMoves
    <3>2. CASE u # t \/ q # p
      <4>1. phase[u][q] = "end"
        BY <2>2, <3>2 DEF ProbeMoves
      <4> QED BY <1>1, <1>2, <1>3, <2>2, <4>1 DEF DoneInv, RunAccounts
    <3> QED BY <3>1, <3>2
  <2> QED BY <2>1, <2>2
<1> QED BY <1>4, <1>5 DEF DoneInv

\* A new row starts with the first family: there is nothing to account for.
LEMMA NewRowDone ==
  ASSUME JobInv, DoneInv, NEW t \in Runs, NewRow(t), Goto(t, "stage"),
         family' = [family EXCEPT ![t] = 1], UNCHANGED <<rows, returned, phase>>
  PROVE  DoneInv'
<1>a. /\ at \in [Runs -> {"idle", "create", "stage", "probes", "tell"}]
      /\ job \in [Runs -> ScanIds \cup {0}] /\ family \in [Runs -> 0..EndFamily]
      /\ status \in [ScanIds -> {"none", "running", "done", "interrupted"}]
  BY DEF JobInv, TypeOK
<1>1. DoneIsComplete'
  BY <1>a DEF DoneInv, DoneIsComplete, NewRow
<1>2. RunAccounts'
  <2> SUFFICES ASSUME NEW u \in Runs
               PROVE  /\ at'[u] \in {"stage", "probes"} =>
                           \A k \in 1..(family'[u] - 1) : \A p \in Families[k] : Accounted(job'[u], p)
                      /\ at'[u] = "probes" =>
                           \A p \in Probes : phase'[u][p] = "end" => Accounted(job'[u], p)
    BY DEF RunAccounts, Accounted
  <2>1. CASE u = t
    <3>1. at'[u] = "stage" /\ family'[u] - 1 = 0
      BY <1>a, <2>1 DEF Goto
    <3> QED BY <3>1
  <2>2. CASE u # t
    <3>1. at'[u] = at[u] /\ job'[u] = job[u] /\ family'[u] = family[u] /\ phase'[u] = phase[u]
      BY <1>a, <2>2 DEF Goto, NewRow
    <3> QED BY <3>1 DEF DoneInv, RunAccounts
  <2> QED BY <2>1, <2>2
<1> QED BY <1>1, <1>2 DEF DoneInv

\* A stage is over when all its probes are: they are accounted for.
LEMMA StageDoneDone ==
  ASSUME JobInv, DoneInv, NEW t \in Runs, StageDone(t)
  PROVE  DoneInv'
<1>a. /\ at \in [Runs -> {"idle", "create", "stage", "probes", "tell"}]
      /\ family \in [Runs -> 0..EndFamily]
      /\ phase \in [Runs -> [Probes -> {"wait", "new", "applies", "run", "end"}]]
      /\ family[t] \in 1..Len(Families)
  BY FamiliesAssumption DEF JobInv, TypeOK, Places, StageDone, EndFamily
<1>b. UNCHANGED <<rows, returned, status, job>>
  BY DEF StageDone, store
<1>1. DoneIsComplete'
  BY <1>b DEF DoneInv, DoneIsComplete
<1>2. RunAccounts'
  <2> SUFFICES ASSUME NEW u \in Runs
               PROVE  /\ at'[u] \in {"stage", "probes"} =>
                           \A k \in 1..(family'[u] - 1) : \A p \in Families[k] : Accounted(job[u], p)
                      /\ at'[u] = "probes" =>
                           \A p \in Probes : phase'[u][p] = "end" => Accounted(job[u], p)
    BY <1>b DEF RunAccounts, Accounted
  <2>1. CASE u = t
    <3>1. at'[u] = "stage" /\ family'[u] - 1 = family[t] /\ at[t] = "probes"
      BY <1>a, <2>1, FamiliesAssumption DEF StageDone, Goto
    <3>2. \A p \in Families[family[t]] : p \in Probes /\ phase[t][p] = "end"
      BY <1>a, FamiliesAssumption DEF StageDone
    <3>3. \A p \in Families[family[t]] : Accounted(job[t], p)
      BY <3>1, <3>2 DEF DoneInv, RunAccounts
    <3>4. \A k \in 1..(family[t] - 1) : \A p \in Families[k] : Accounted(job[t], p)
      BY <3>1 DEF DoneInv, RunAccounts
    <3>5. \A k \in 1..family[t] : k = family[t] \/ k \in 1..(family[t] - 1)
      BY <1>a, FamiliesAssumption
    <3> QED BY <2>1, <3>1, <3>3, <3>4, <3>5
  <2>2. CASE u # t
    <3>1. at'[u] = at[u] /\ family'[u] = family[u] /\ phase'[u] = phase[u]
      BY <1>a, <2>2 DEF StageDone, Goto
    <3> QED BY <3>1 DEF DoneInv, RunAccounts
  <2> QED BY <2>1, <2>2
<1> QED BY <1>1, <1>2 DEF DoneInv

\* A scan is made done behind the last family, and the families are all probes.
LEMMA FinishDone ==
  ASSUME JobInv, DoneInv, NEW t \in Runs, FinishScan(t)
  PROVE  DoneInv'
<1>a. /\ at \in [Runs -> {"idle", "create", "stage", "probes", "tell"}]
      /\ status \in [ScanIds -> {"none", "running", "done", "interrupted"}]
      /\ at[t] = "stage" /\ family[t] = EndFamily
  BY DEF JobInv, TypeOK, FinishScan
<1>b. UNCHANGED <<rows, returned, job, family, phase>> /\ Goto(t, "tell")
      /\ status' = [status EXCEPT ![job[t]] = "done"]
  BY DEF FinishScan
<1>1. \A p \in Probes : Accounted(job[t], p)
  <2> TAKE p \in Probes
  <2>1. PICK k \in DOMAIN Families : p \in Families[k]
    BY FamiliesAssumption DEF Range
  <2>2. k \in 1..(family[t] - 1)
    BY <1>a, <2>1, FamiliesAssumption DEF EndFamily
  <2> QED BY <1>a, <2>1, <2>2 DEF DoneInv, RunAccounts
<1>2. DoneIsComplete'
  <2> SUFFICES ASSUME NEW n \in ScanIds, status'[n] = "done", NEW p \in Probes
               PROVE  Accounted(n, p)
    BY <1>b DEF DoneIsComplete, Accounted
  <2>1. n = job[t] \/ status[n] = "done"
    BY <1>a, <1>b
  <2> QED BY <1>1, <2>1 DEF DoneInv, DoneIsComplete, Accounted
<1>3. RunAccounts'
  <2>1. \A u \in Runs : at'[u] \in {"stage", "probes"} => at'[u] = at[u]
    BY <1>a, <1>b DEF Goto
  <2>2. \A u \in Runs : at'[u] = "probes" => at[u] = "probes"
    BY <2>1
  <2>3. \A n, p : Accounted(n, p)' <=> Accounted(n, p)
    BY <1>b DEF Accounted
  <2> QED BY <1>b, <2>1, <2>2, <2>3 DEF DoneInv, RunAccounts
<1> QED BY <1>2, <1>3 DEF DoneInv

\* Every step keeps the accounts complete.
LEMMA NextDone == JobInv /\ DoneInv /\ [Next]_vars => DoneInv'
<1> SUFFICES ASSUME JobInv, DoneInv, [Next]_vars PROVE DoneInv'
  OBVIOUS
<1> USE RunsAssumption
<1>a. /\ at \in [Runs -> {"idle", "create", "stage", "probes", "tell"}]
      /\ job \in [Runs -> ScanIds \cup {0}] /\ family \in [Runs -> 0..EndFamily]
      /\ phase \in [Runs -> [Probes -> {"wait", "new", "applies", "run", "end"}]]
      /\ claim \in Threads \cup {None}
      /\ status \in [ScanIds -> {"none", "running", "done", "interrupted"}]
  BY DEF JobInv, TypeOK
<1>1. ASSUME NEW t \in Runs, CreateScan(t) PROVE DoneInv'
  BY <1>1, NewRowDone DEF CreateScan
<1>2. CASE ApiInsert
  BY <1>2, <1>a, NewRowDone DEF ApiInsert, Runs
<1>3. ASSUME NEW t \in Runs, NEW p \in Probes,
             ProbeBegin(t, p) \/ ProbeTimeout(t, p) \/ ProbeStep(t, p)
      PROVE  DoneInv'
  BY <1>3, ProbesMove, ProbeDone
<1> USE DEF Keeps, Goto, Forget, store, progress
<1>4. ASSUME NEW t \in Runs, StageStart(t) PROVE DoneInv'
  <2>1. UNCHANGED <<rows, returned, status, job, family>>
    BY <1>4 DEF StageStart
  <2>2. \A u \in Runs : u # t => Keeps(u)
    BY <1>4, <1>a DEF StageStart
  <2>3. /\ at[t] = "stage" /\ at'[t] = "probes"
        /\ \A p \in Probes : phase'[t][p] # "end"
    BY <1>4, <1>a DEF StageStart
  <2>4. \A n, p : Accounted(n, p)' <=> Accounted(n, p)
    BY <2>1 DEF Accounted
  <2>5. RunAccounts'
    BY <2>1, <2>2, <2>3, <2>4 DEF DoneInv, RunAccounts
  <2>6. DoneIsComplete'
    BY <2>1 DEF DoneInv, DoneIsComplete
  <2> QED BY <2>5, <2>6 DEF DoneInv
<1>5. ASSUME NEW t \in Runs, TellCompleted(t) \/ StoreFails(t) PROVE DoneInv'
  BY <1>5, <1>a, QuietDone DEF TellCompleted, StoreFails
<1>6. ASSUME NEW c \in Clis, CliStart(c) \/ CliKilled(c) PROVE DoneInv'
  BY <1>6, <1>a, QuietDone DEF CliStart, CliKilled, Runs
<1>7. ASSUME NEW t \in Threads, ApiCheck(t) \/ UiPost(t) PROVE DoneInv'
  BY <1>7, <1>a, QuietDone DEF ApiCheck, UiPost, Runs
<1>8. CASE ClaimFails \/ ReconcileRead
  BY <1>8, <1>a, QuietDone DEF ClaimFails, ReconcileRead
<1>9. CASE ReconcileWrite
  BY <1>9, <1>a, QuietDone DEF ReconcileWrite
<1>10. CASE DaemonKilled
  BY <1>10, <1>a, QuietDone DEF DaemonKilled
<1>11. ASSUME NEW s \in Streams, NEW n \in ScanIds, Watch(s, n) PROVE DoneInv'
  BY <1>11, <1>a, QuietDone DEF Watch
<1>12. ASSUME NEW s \in Streams, Stream(s) PROVE DoneInv'
  BY <1>12, <1>a, QuietDone DEF Stream
<1>13. CASE UNCHANGED vars
  BY <1>13, <1>a, QuietDone DEF vars
<1> HIDE DEF Keeps, Goto, Forget, store, progress
<1> QED
  BY <1>1, <1>2, <1>3, <1>4, <1>5, <1>6, <1>7, <1>8, <1>9, <1>10, <1>11, <1>12, <1>13,
     StageDoneDone, FinishDone
     DEF Next, Step

\* The accounts are complete in every reachable state.
LEMMA DoneInvariance == Spec => []DoneInv
<1>1. Init => DoneInv
  BY DEF Init, DoneInv, RunAccounts, DoneIsComplete
<1> QED BY <1>1, NextDone, JobInvariance, PTL DEF Spec

\* A scan that says "done" has, of every probe in every family, its return or a
\* row that says it was skipped or failed - for any number of probes, families
\* and concurrent runs, and however often the daemon is killed and sweeps.
THEOREM DoneScansAreComplete == Spec => []DoneIsComplete
<1>1. DoneInv => DoneIsComplete
  BY DEF DoneInv
<1> QED BY <1>1, DoneInvariance, PTL

-----------------------------------------------------------------------------
\* Sets of scan ids are counted by naturals, and one more id is one more.
LEMMA IdCounts ==
  ASSUME NEW S \in SUBSET ScanIds, NEW T \in SUBSET ScanIds
  PROVE  /\ Cardinality(S) \in Nat /\ Cardinality(T) \in Nat
         /\ T \subseteq S => Cardinality(T) <= Cardinality(S)
         /\ \A x : T \subseteq S \cup {x} => Cardinality(T) <= Cardinality(S) + 1
<1>1. IsFiniteSet(S) /\ IsFiniteSet(T)
  BY FiniteAssumption, FS_Subset
<1>2. Cardinality(S) \in Nat /\ Cardinality(T) \in Nat
  BY <1>1, FS_CardinalityType
<1>3. T \subseteq S => Cardinality(T) <= Cardinality(S)
  BY <1>1, FS_Subset
<1>4. ASSUME NEW x, T \subseteq S \cup {x} PROVE Cardinality(T) <= Cardinality(S) + 1
  <2>1. IsFiniteSet(S \cup {x}) /\ Cardinality(S \cup {x}) \in {Cardinality(S), Cardinality(S) + 1}
    BY <1>1, <1>2, FS_AddElement
  <2>2. Cardinality(T) <= Cardinality(S \cup {x})
    BY <1>4, <2>1, FS_Subset
  <2> QED BY <1>2, <2>1, <2>2
<1> QED BY <1>2, <1>3, <1>4

\* A step that makes no orphan, or one orphan and counts it.
Accounts ==
  /\ daemon' = daemon /\ stale' = stale
  /\ \/ Orphans' \subseteq Orphans /\ lost' = lost
     \/ lost' = lost + 1 /\ \E x : Orphans' \subseteq Orphans \cup {x}

\* Such a step keeps the count.
LEMMA AccountsOrphans ==
  ASSUME JobInv, OrphanInv, Stopped', Accounts
  PROVE  OrphanInv'
<1>1. Orphans \subseteq ScanIds /\ Orphans' \subseteq ScanIds
  BY DEF Orphans, Running
<1>2. Unswept \subseteq ScanIds /\ Unswept' \subseteq ScanIds
  BY <1>1 DEF Unswept
<1>3. lost \in Nat
  BY DEF JobInv, TypeOK
<1>4. CASE Orphans' \subseteq Orphans /\ lost' = lost
  <2>1. Unswept' \subseteq Unswept
    BY <1>4 DEF Unswept, Accounts
  <2>2. /\ Cardinality(Orphans') <= Cardinality(Orphans)
        /\ Cardinality(Orphans') \in Nat /\ Cardinality(Orphans) \in Nat
    BY <1>1, <1>4, IdCounts
  <2>3. /\ Cardinality(Unswept') <= Cardinality(Unswept)
        /\ Cardinality(Unswept') \in Nat /\ Cardinality(Unswept) \in Nat
    BY <1>2, <2>1, IdCounts
  <2> QED BY <1>3, <1>4, <2>2, <2>3 DEF OrphanInv, Accounts
<1>5. ASSUME NEW x, Orphans' \subseteq Orphans \cup {x}, lost' = lost + 1
      PROVE  OrphanInv'
  <2>1. Unswept' \subseteq Unswept \cup {x}
    BY <1>5 DEF Unswept, Accounts
  <2>2. /\ Cardinality(Orphans') <= Cardinality(Orphans) + 1
        /\ Cardinality(Orphans') \in Nat /\ Cardinality(Orphans) \in Nat
    BY <1>1, <1>5, IdCounts
  <2>3. /\ Cardinality(Unswept') <= Cardinality(Unswept) + 1
        /\ Cardinality(Unswept') \in Nat /\ Cardinality(Unswept) \in Nat
    BY <1>2, <2>1, IdCounts
  <2> QED BY <1>3, <1>5, <2>2, <2>3 DEF OrphanInv, Accounts
<1> QED BY <1>4, <1>5 DEF Accounts

\* No step brings back to life a row whose run announces its completion.
LEMMA NextStopped == JobInv /\ Stopped /\ [Next]_vars => Stopped'
<1> SUFFICES ASSUME JobInv, Stopped, [Next]_vars,
                    NEW u \in Runs, at'[u] = "tell"
             PROVE  status'[job'[u]] # "running"
  BY DEF Stopped
<1> USE RunsAssumption, ScanIdsAssumption
<1>a. /\ at \in [Runs -> {"idle", "create", "stage", "probes", "tell"}]
      /\ job \in [Runs -> ScanIds \cup {0}]
      /\ claim \in Threads \cup {None}
      /\ status \in [ScanIds -> {"none", "running", "done", "interrupted"}]
      /\ \A t \in Runs : at[t] \in {"stage", "probes", "tell"} =>
           job[t] \in ScanIds /\ status[job[t]] # "none"
  BY DEF JobInv, TypeOK, Jobs
<1>1. ASSUME UNCHANGED <<status, job>>, at'[u] = at[u] PROVE status'[job'[u]] # "running"
  BY <1>1 DEF Stopped
<1>2. ASSUME NEW t \in Runs, NewRow(t), Goto(t, "stage") PROVE status'[job'[u]] # "running"
  BY <1>2, <1>a DEF NewRow, Goto, Stopped
<1>3. ASSUME NEW t \in Runs, FinishScan(t) PROVE status'[job'[u]] # "running"
  BY <1>3, <1>a DEF FinishScan, Goto, Stopped
<1>4. ASSUME NEW t \in Runs, Forget(t), UNCHANGED status PROVE status'[job'[u]] # "running"
  BY <1>4, <1>a DEF Forget, Goto, Stopped
<1>5. CASE ReconcileWrite
  BY <1>5, <1>a DEF ReconcileWrite, progress, Stopped
<1>6. CASE DaemonKilled
  BY <1>6, <1>a DEF DaemonKilled, store, Stopped
<1>7. ASSUME NEW t \in Runs, UNCHANGED <<status, job>>,
             Goto(t, "create") \/ Goto(t, "stage") \/ Goto(t, "probes")
      PROVE  status'[job'[u]] # "running"
  BY <1>7, <1>a DEF Goto, Stopped
<1>8. ASSUME NEW t \in Runs, NEW p \in Probes,
             ProbeBegin(t, p) \/ ProbeTimeout(t, p) \/ ProbeStep(t, p)
      PROVE  status'[job'[u]] # "running"
  BY <1>1, <1>8, ProbesMove DEF ProbeMoves
<1> USE DEF store, progress
<1>9. ASSUME NEW t \in Runs, Step(t) PROVE status'[job'[u]] # "running"
  BY <1>2, <1>3, <1>4, <1>7, <1>8, <1>9
     DEF Step, CreateScan, StageStart, StageDone, TellCompleted
<1>10. ASSUME NEW t \in Threads, ApiCheck(t) \/ UiPost(t) PROVE status'[job'[u]] # "running"
  BY <1>1, <1>7, <1>10 DEF ApiCheck, UiPost, Runs
<1>11. ASSUME NEW c \in Clis, CliStart(c) \/ CliKilled(c) PROVE status'[job'[u]] # "running"
  BY <1>4, <1>7, <1>11 DEF CliStart, CliKilled, Runs
<1>12. CASE ApiInsert
  BY <1>2, <1>12, <1>a DEF ApiInsert, Runs
<1>13. ASSUME NEW t \in Runs, StoreFails(t) PROVE status'[job'[u]] # "running"
  BY <1>4, <1>13 DEF StoreFails
<1>14. ASSUME \/ ClaimFails \/ ReconcileRead \/ UNCHANGED vars
              \/ \E s \in Streams : Stream(s) \/ \E n \in ScanIds : Watch(s, n)
       PROVE  status'[job'[u]] # "running"
  BY <1>1, <1>14 DEF ClaimFails, ReconcileRead, vars, Stream, Watch
<1> QED
  BY <1>5, <1>6, <1>8, <1>9, <1>10, <1>11, <1>12, <1>13, <1>14 DEF Next

\* The daemon's death aside, a step accounts for the orphans it makes.
LEMMA NextAccounts ==
  ASSUME JobInv, Stopped, [Next]_vars, ~ DaemonKilled, ~ ReconcileRead, ~ ReconcileWrite
  PROVE  Accounts
<1> USE RunsAssumption, ScanIdsAssumption
<1>a. /\ at \in [Runs -> {"idle", "create", "stage", "probes", "tell"}]
      /\ job \in [Runs -> ScanIds \cup {0}]
      /\ claim \in Threads \cup {None}
      /\ claim # None => at[claim] = "idle"
      /\ status \in [ScanIds -> {"none", "running", "done", "interrupted"}]
      /\ \A t \in Runs : at[t] \in {"idle", "create"} => job[t] = 0
  BY DEF JobInv, TypeOK, Places, Jobs
<1> USE DEF Orphans, Running, store, progress, boot, count
<1>1. ASSUME UNCHANGED <<status, job, boot, lost>> PROVE Accounts
  BY <1>1 DEF Accounts
<1>2. ASSUME NEW t \in Runs, NewRow(t), job[t] = 0, UNCHANGED <<boot, count>>
      PROVE  Accounts
  BY <1>2, <1>a DEF NewRow, Accounts
<1>3. ASSUME NEW t \in Runs, FinishScan(t) PROVE Accounts
  BY <1>3, <1>a DEF FinishScan, Accounts
<1>4. ASSUME NEW t \in Runs, TellCompleted(t) PROVE Accounts
  BY <1>4, <1>a DEF TellCompleted, Forget, Stopped, Accounts
<1>5. ASSUME NEW t \in Runs, Forget(t), lost' = lost + 1, UNCHANGED <<store, boot>>
      PROVE  Accounts
  <2>1. Orphans' \subseteq Orphans \cup {job[t]}
    BY <1>5, <1>a DEF Forget
  <2> QED BY <1>5, <2>1 DEF Accounts
<1>6. ASSUME NEW t \in Runs, NEW p \in Probes,
             ProbeBegin(t, p) \/ ProbeTimeout(t, p) \/ ProbeStep(t, p)
      PROVE  Accounts
  BY <1>1, <1>6, ProbesMove DEF ProbeMoves
<1> HIDE DEF Orphans, Running
<1>7. ASSUME NEW t \in Runs, Step(t) PROVE Accounts
  BY <1>1, <1>2, <1>3, <1>4, <1>6, <1>7, <1>a DEF Step, CreateScan, StageStart, StageDone
<1>8. ASSUME NEW t \in Threads, ApiCheck(t) \/ UiPost(t) PROVE Accounts
  BY <1>1, <1>8 DEF ApiCheck, UiPost
<1>9. ASSUME NEW c \in Clis, CliStart(c) \/ CliKilled(c) PROVE Accounts
  BY <1>1, <1>5, <1>9 DEF CliStart, CliKilled, Runs
<1>10. CASE ApiInsert
  BY <1>2, <1>10, <1>a DEF ApiInsert, Runs
<1>11. ASSUME NEW t \in Runs, StoreFails(t) PROVE Accounts
  BY <1>5, <1>11 DEF StoreFails
<1>12. ASSUME \/ ClaimFails \/ UNCHANGED vars
              \/ \E s \in Streams : Stream(s) \/ \E n \in ScanIds : Watch(s, n)
       PROVE  Accounts
  BY <1>1, <1>12 DEF ClaimFails, vars, Stream, Watch
<1> QED BY <1>6, <1>7, <1>8, <1>9, <1>10, <1>11, <1>12 DEF Next

\* Every step keeps the count of orphans.
LEMMA NextOrphans == JobInv /\ OrphanInv /\ [Next]_vars => OrphanInv'
<1> SUFFICES ASSUME JobInv, OrphanInv, [Next]_vars PROVE OrphanInv'
  OBVIOUS
<1>1. Stopped'
  BY NextStopped DEF OrphanInv
<1>2. CASE DaemonKilled
  BY <1>1, <1>2 DEF DaemonKilled, OrphanInv
<1>3. CASE ReconcileRead
  <2>1. Unswept' = {} /\ lost' = 0 /\ daemon' = "sweeping"
    BY <1>3 DEF ReconcileRead, Unswept, Orphans, Running, store
  <2>2. Cardinality(Unswept') <= lost'
    BY <2>1, FS_EmptySet
  <2> QED BY <1>1, <2>1, <2>2 DEF OrphanInv
<1>4. CASE ReconcileWrite
  <2>1. Orphans' = Unswept /\ lost' = lost /\ daemon' = "up" /\ daemon = "sweeping"
    BY <1>4 DEF ReconcileWrite, Unswept, Orphans, Running, progress, count, JobInv, TypeOK
  <2> QED BY <1>1, <2>1 DEF OrphanInv
<1> QED BY <1>1, <1>2, <1>3, <1>4, NextAccounts, AccountsOrphans DEF OrphanInv

\* Whatever is killed and restarted, a daemon that is up has no more rows that
\* say "running" without a run behind them than runs it has lost since its
\* start: its own death leaves none.
THEOREM DeathLeavesNoRow == Spec => []NoRowLeftRunning
<1>1. Init => OrphanInv
  <2> SUFFICES ASSUME Init PROVE OrphanInv
    OBVIOUS
  <2>1. Orphans = {} /\ lost = 0 /\ daemon = "up" /\ Stopped
    BY DEF Init, Orphans, Running, Stopped
  <2> QED BY <2>1, FS_EmptySet DEF OrphanInv
<1>2. OrphanInv => NoRowLeftRunning
  BY DEF OrphanInv, NoRowLeftRunning
<1> QED BY <1>1, <1>2, NextOrphans, JobInvariance, PTL DEF Spec

-----------------------------------------------------------------------------
\* The bus carries what it is given: an event leaves a queue as it entered it,
\* and goes to the client only if it is of the client's scan.
LEMMA BusCarries ==
  ASSUME BusType, OwnEvents, Told \subseteq Told',
         \/ UNCHANGED busVars
         \/ \E e \in Told' : Publish(e)
         \/ \E s \in Streams : \/ \E n \in ScanIds : Connect(s, n)
                              \/ StreamStep(s) \/ ClientLeaves(s)
         \/ BusCrash
  PROVE  BusType' /\ OwnEvents'
<1> DEFINE T == Told'
           Types == /\ stream' \in [Streams -> {"off", "connected", "open", "kept", "ended"}]
                    /\ watch' \in [Streams -> ScanIds \cup {0}]
                    /\ calls' \in [Streams -> Seq(T)]
                    /\ queue' \in [Streams -> Seq(T)]
                    /\ sent' \in [Streams -> Seq(T)]
<1> SUFFICES Types /\ OwnEvents'
  BY DEF BusType
<1>a. Seq(Told) \subseteq Seq(T)
  BY SeqMonotonic
<1> HIDE DEF T
<1>b. /\ stream \in [Streams -> {"off", "connected", "open", "kept", "ended"}]
      /\ watch \in [Streams -> ScanIds \cup {0}]
      /\ calls \in [Streams -> Seq(T)]
      /\ queue \in [Streams -> Seq(T)]
      /\ sent \in [Streams -> Seq(T)]
  BY <1>a DEF BusType
<1>1. CASE UNCHANGED busVars
  BY <1>1, <1>b DEF busVars, OwnEvents
<1>2. ASSUME NEW e \in T, Publish(e) PROVE Types /\ OwnEvents'
  BY <1>2, <1>b DEF Publish, OwnEvents
<1>3. ASSUME NEW s \in Streams, NEW n \in ScanIds, Connect(s, n) PROVE Types /\ OwnEvents'
  BY <1>3, <1>b DEF Connect, OwnEvents
<1>4. ASSUME NEW s \in Streams, Subscribe(s) PROVE Types /\ OwnEvents'
  BY <1>4, <1>b DEF Subscribe, OwnEvents
<1>5. ASSUME NEW s \in Streams, Offer(s) PROVE Types /\ OwnEvents'
  <2>1. Head(calls[s]) \in T /\ Tail(calls[s]) \in Seq(T)
    BY <1>5, <1>b DEF Offer
  <2>2. calls' \in [Streams -> Seq(T)]
    BY <1>5, <1>b, <2>1 DEF Offer
  <2>3. queue' \in [Streams -> Seq(T)]
    <3>1. Append(queue[s], Head(calls[s])) \in Seq(T)
      BY <1>b, <2>1
    <3>2. queue' = [queue EXCEPT ![s] = Append(@, Head(calls[s]))] \/ UNCHANGED queue
      BY <1>5 DEF Offer
    <3> QED BY <1>b, <3>1, <3>2
  <2>4. UNCHANGED <<stream, watch, sent>>
    BY <1>5 DEF Offer
  <2> QED BY <1>b, <2>2, <2>3, <2>4 DEF OwnEvents
<1>6. ASSUME NEW s \in Streams, Deliver(s) PROVE Types /\ OwnEvents'
  <2>1. Head(queue[s]) \in T /\ Tail(queue[s]) \in Seq(T)
    BY <1>6, <1>b DEF Deliver
  <2>2. Types
    BY <1>6, <1>b, <2>1 DEF Deliver
  <2>3. OwnEvents'
    BY <1>6, <1>b, <2>1 DEF Deliver, EventForScan, OwnEvents
  <2> QED BY <2>2, <2>3
<1>7. ASSUME NEW s \in Streams, Keepalive(s) PROVE Types /\ OwnEvents'
  BY <1>7, <1>b DEF Keepalive, Unsubscribe, OwnEvents
<1>8. ASSUME NEW s \in Streams, StreamEnds(s) PROVE Types /\ OwnEvents'
  BY <1>8, <1>b DEF StreamEnds, OwnEvents
<1>9. ASSUME NEW s \in Streams, ClientLeaves(s) PROVE Types /\ OwnEvents'
  BY <1>9, <1>b DEF ClientLeaves, Unsubscribe, OwnEvents
<1>10. CASE BusCrash
  BY <1>10 DEF BusCrash, OwnEvents
<1> QED
  BY <1>1, <1>2, <1>3, <1>4, <1>5, <1>6, <1>7, <1>8, <1>9, <1>10 DEF StreamStep, T

\* What a thread says is true: its events are of its scan, and it says that the
\* scan is complete only when it is done.
LEMMA ThreadsTell ==
  ASSUME JobInv, JobInv', NEW t \in Threads, job[t] \in ScanIds,
         NEW kind \in EventKinds, NEW what \in Nat \cup Probes,
         kind = "scan_completed" => status'[job[t]] = "done",
         Tell(t, kind, what)
  PROVE  \E e \in Told' : Publish(e)
<1> DEFINE e == [scan |-> job[t], kind |-> kind, what |-> what]
<1>1. e \in Told'
  BY DEF Told
<1> QED BY <1>1 DEF Tell

\* The rows that are done stay done, the daemon's sweep aside.
LEMMA DoneStaysDone ==
  ASSUME JobInv, [Next]_vars, ~ ReconcileWrite, NEW n \in ScanIds, status[n] = "done"
  PROVE  status'[n] = "done"
<1> USE RunsAssumption, ScanIdsAssumption DEF store, progress
<1>a. status \in [ScanIds -> {"none", "running", "done", "interrupted"}]
  BY DEF JobInv, TypeOK
<1>1. ASSUME NEW t, NewRow(t) PROVE status'[n] = "done"
  BY <1>1, <1>a DEF NewRow
<1>2. ASSUME NEW t \in Runs, FinishScan(t) PROVE status'[n] = "done"
  BY <1>2, <1>a DEF FinishScan
<1>3. ASSUME NEW t \in Runs, NEW p \in Probes,
             ProbeBegin(t, p) \/ ProbeTimeout(t, p) \/ ProbeStep(t, p)
      PROVE  UNCHANGED status
  BY <1>3, ProbesMove DEF ProbeMoves
<1> QED
  BY <1>1, <1>2, <1>3
     DEF Next, Step, ApiCheck, UiPost, CliStart, CliKilled, ApiInsert, ClaimFails, CreateScan,
         StageStart, StageDone, TellCompleted, StoreFails, Stream, Watch, DaemonKilled,
         ReconcileRead, vars

\* What the bus does in each step of the system.
LEMMA NextBus ==
  ASSUME JobInv, JobInv', Announces, [Next]_vars
  PROVE  \/ UNCHANGED busVars
         \/ \E e \in Told' : Publish(e)
         \/ \E s \in Streams : \/ \E n \in ScanIds : Connect(s, n)
                              \/ StreamStep(s) \/ ClientLeaves(s)
         \/ BusCrash
<1> DEFINE Bus == \/ UNCHANGED busVars
                  \/ \E e \in Told' : Publish(e)
                  \/ \E s \in Streams : \/ \E n \in ScanIds : Connect(s, n)
                                       \/ StreamStep(s) \/ ClientLeaves(s)
                  \/ BusCrash
<1> USE RunsAssumption, ScanIdsAssumption, FamiliesAssumption
<1>a. /\ \A t \in Runs : at[t] \in {"stage", "probes", "tell"} => job[t] \in ScanIds
      /\ \A t \in Runs : family[t] \in Nat
  BY DEF JobInv, TypeOK, EndFamily
<1>1. ASSUME NEW t \in Runs, NEW kind \in EventKinds \ {"scan_completed"},
             NEW what \in Nat \cup Probes, job[t] \in ScanIds, Tell(t, kind, what)
      PROVE  Bus
  BY <1>1, ThreadsTell DEF Tell
<1>2. ASSUME NEW t \in Runs, StageStart(t) \/ StageDone(t) PROVE Bus
  BY <1>1, <1>2, <1>a DEF StageStart, StageDone, EventKinds
<1>3. ASSUME NEW t \in Runs, NEW p \in Probes, Emit(t, p) PROVE Bus
  BY <1>1, <1>3, <1>a DEF Emit, InPhase, EventKinds
<1>4. ASSUME NEW t \in Runs, TellCompleted(t) PROVE Bus
  <2>1. CASE t \in Threads
    <3>1. status'[job[t]] = "done" /\ job[t] \in ScanIds /\ Tell(t, "scan_completed", 0)
      BY <1>4, <1>a, <2>1 DEF TellCompleted, Announces, store
    <3>2. "scan_completed" \in EventKinds
      BY DEF EventKinds
    <3> QED BY <2>1, <3>1, <3>2, ThreadsTell
  <2>2. CASE t \notin Threads
    BY <1>4, <2>2 DEF TellCompleted, Tell
  <2> QED BY <2>1, <2>2
<1>5. ASSUME NEW s \in Streams, Stream(s) PROVE Bus
  BY <1>5 DEF Stream
<1>6. ASSUME NEW s \in Streams, NEW n \in ScanIds, Watch(s, n) PROVE Bus
  BY <1>6 DEF Watch
<1>7. ASSUME DaemonKilled PROVE Bus
  BY <1>7 DEF DaemonKilled
<1>8. ASSUME UNCHANGED busVars PROVE Bus
  BY <1>8
<1> HIDE DEF Bus
<1>9. ASSUME NEW t \in Runs, NEW p \in Probes,
             ProbeBegin(t, p) \/ ProbeTimeout(t, p) \/ ProbeStep(t, p)
      PROVE  Bus
  BY <1>3, <1>8, <1>9 DEF ProbeBegin, ProbeTimeout, ProbeStep, ProbeApplies, ProbeReturns,
                          ProbeCrashes
<1>10. ASSUME \/ \E t \in Threads : ApiCheck(t) \/ UiPost(t)
              \/ \E c \in Clis : CliStart(c) \/ CliKilled(c)
              \/ ApiInsert \/ ClaimFails \/ ReconcileRead \/ ReconcileWrite \/ UNCHANGED vars
              \/ \E t \in Runs : CreateScan(t) \/ FinishScan(t) \/ StoreFails(t)
       PROVE  UNCHANGED busVars
  BY <1>10 DEF ApiCheck, UiPost, CliStart, CliKilled, ApiInsert, ClaimFails, CreateScan,
               FinishScan, StoreFails, ReconcileRead, ReconcileWrite, vars
<1>11. ASSUME NEW t \in Runs, Step(t) PROVE Bus
  BY <1>2, <1>4, <1>8, <1>9, <1>10, <1>11 DEF Step
<1>12. Bus
  BY <1>5, <1>6, <1>7, <1>8, <1>9, <1>10, <1>11 DEF Next
<1> QED BY <1>12 DEF Bus

\* Once the daemon is gone, nothing moves in it before it has swept.
LEMMA NextSilence == JobInv /\ Silence /\ [Next]_vars => Silence'
<1> SUFFICES ASSUME JobInv, Silence, [Next]_vars, daemon' # "up" PROVE Silence'
  BY DEF Silence
<1> USE RunsAssumption
<1>1. CASE DaemonKilled
  BY <1>1 DEF DaemonKilled, BusCrash, Silence, Runs
<1>2. CASE ~ DaemonKilled
  <2>1. daemon # "up"
    BY <1>2, ZenonT(30) DEF Next, Step, ApiCheck, UiPost, CliStart, CliKilled, ApiInsert, ClaimFails,
         CreateScan, StageStart, StageDone, FinishScan, TellCompleted, StoreFails, Stream, Watch,
         ReconcileRead, ReconcileWrite, vars, boot, ProbeBegin, ProbeTimeout, ProbeStep,
         ProbeApplies, ProbeReturns, ProbeCrashes, Emit
  <2>a. /\ claim = None /\ (\A t \in Threads : at[t] = "idle" /\ \A p \in Probes : phase[t][p] = "wait")
        /\ \A s \in Streams : calls[s] = <<>> /\ queue[s] = <<>> /\ sent[s] = <<>>
        /\ at \in [Runs -> {"idle", "create", "stage", "probes", "tell"}]
    BY <2>1 DEF Silence, JobInv, TypeOK, Places, Runs
  <2>2. ASSUME UNCHANGED <<calls, queue, sent, claim>>, \A t \in Threads : at'[t] = at[t]
        PROVE  Silence'
    BY <2>2, <2>a DEF Silence
  <2> USE DEF progress, busVars
  <2>3. ASSUME NEW c \in Clis, CliStart(c) \/ CliKilled(c) PROVE Silence'
    BY <2>2, <2>3, <2>a DEF CliStart, CliKilled, Forget, Goto, Runs
  <2>4. ASSUME NEW t \in Runs, Step(t) \/ StoreFails(t) PROVE Silence'
    <3>1. t \notin Threads
      BY <2>4, <2>a DEF Step, StoreFails, CreateScan, StageStart, StageDone, FinishScan,
                        TellCompleted, ProbeBegin, ProbeTimeout, InPhase
    <3>2. ASSUME NEW kind, NEW what, Tell(t, kind, what) PROVE UNCHANGED busVars
      BY <3>1, <3>2 DEF Tell
    <3>3. UNCHANGED <<busVars, claim>>
      BY <2>4, <3>2 DEF Step, StoreFails, CreateScan, StageStart, StageDone, FinishScan,
                        TellCompleted, ProbeBegin, ProbeTimeout
    <3>4. UNCHANGED at \/ \E there : Goto(t, there)
      BY <2>4 DEF Step, StoreFails, CreateScan, StageStart, StageDone, FinishScan,
                  TellCompleted, ProbeBegin, ProbeTimeout, Forget
    <3>5. \A u \in Threads : at'[u] = at[u]
      BY <2>a, <3>1, <3>4 DEF Goto, Runs
    <3> QED BY <2>2, <3>3, <3>5
  <2>5. ASSUME NEW t \in Runs, NEW p \in Probes, ProbeStep(t, p) PROVE Silence'
    <3>1. t \notin Threads
      BY <2>5, <2>a DEF ProbeStep, ProbeApplies, ProbeReturns, Emit, ProbeCrashes, ProbeTimeout,
                        InPhase
    <3>2. ASSUME NEW kind, NEW what, Tell(t, kind, what) PROVE UNCHANGED busVars
      BY <3>1, <3>2 DEF Tell
    <3> QED
      BY <2>2, <2>5, <3>2
         DEF ProbeStep, ProbeApplies, ProbeReturns, Emit, ProbeCrashes, ProbeTimeout
  <2>6. CASE ReconcileRead \/ ReconcileWrite \/ UNCHANGED vars
    BY <2>2, <2>6 DEF ReconcileRead, ReconcileWrite, vars
  <2> QED
    BY <1>2, <2>1, <2>3, <2>4, <2>5, <2>6, <2>a
       DEF Next, ApiCheck, UiPost, LoopFree, ApiInsert, ClaimFails, Stream, Watch
<1> QED BY <1>1, <1>2

\* A thread comes to announce a scan only by making it done.
LEMMA NextAnnounces ==
  ASSUME JobInv, JobInv', Announces, Silence, [Next]_vars
  PROVE  Announces'
<1> SUFFICES ASSUME NEW u \in Threads, at'[u] = "tell"
             PROVE  status'[job'[u]] = "done"
  BY DEF Announces
<1> USE RunsAssumption, ScanIdsAssumption DEF Runs
<1>a. /\ at \in [Runs -> {"idle", "create", "stage", "probes", "tell"}]
      /\ job \in [Runs -> ScanIds \cup {0}] /\ claim \in Threads \cup {None}
      /\ status \in [ScanIds -> {"none", "running", "done", "interrupted"}]
      /\ \A t \in Runs : at[t] = "tell" => job[t] \in ScanIds
  BY DEF JobInv, TypeOK
<1>1. ASSUME FinishScan(u) PROVE status'[job'[u]] = "done"
  <2>1. job[u] \in ScanIds
    BY <1>1 DEF FinishScan, JobInv, TypeOK
  <2> QED BY <1>1, <1>a, <2>1 DEF FinishScan
<1>2. ASSUME at[u] = "tell", job'[u] = job[u] PROVE status'[job'[u]] = "done"
  <2>1. ~ ReconcileWrite
    BY <1>2 DEF ReconcileWrite, Silence
  <2> QED BY <1>2, <1>a, <2>1, DoneStaysDone DEF Announces
<1>3. FinishScan(u) \/ (at[u] = "tell" /\ job'[u] = job[u])
  <2> USE <1>a DEF progress, Goto, Forget
  <2>1. ASSUME NEW t \in Runs, Step(t) \/ StoreFails(t)
        PROVE  FinishScan(u) \/ (at[u] = "tell" /\ job'[u] = job[u])
    BY <2>1 DEF Step, StoreFails, CreateScan, NewRow, StageStart, StageDone, FinishScan,
                TellCompleted, ProbeBegin, ProbeTimeout
  <2>2. ASSUME NEW t \in Runs, NEW p \in Probes, ProbeStep(t, p)
        PROVE  at[u] = "tell" /\ job'[u] = job[u]
    BY <2>2, ProbesMove DEF ProbeMoves
  <2>3. ASSUME NEW t \in Threads, ApiCheck(t) \/ UiPost(t)
        PROVE  at[u] = "tell" /\ job'[u] = job[u]
    BY <2>3 DEF ApiCheck, UiPost
  <2>4. ASSUME NEW c \in Clis, CliStart(c) \/ CliKilled(c)
        PROVE  at[u] = "tell" /\ job'[u] = job[u]
    BY <2>4 DEF CliStart, CliKilled
  <2>5. ASSUME ApiInsert \/ ClaimFails
        PROVE  at[u] = "tell" /\ job'[u] = job[u]
    BY <2>5 DEF ApiInsert, ClaimFails, NewRow
  <2>6. ASSUME DaemonKilled
        PROVE  at[u] = "tell" /\ job'[u] = job[u]
    BY <2>6 DEF DaemonKilled
  <2>7. ASSUME \/ ReconcileRead \/ ReconcileWrite \/ UNCHANGED vars
               \/ \E s \in Streams : Stream(s) \/ \E n \in ScanIds : Watch(s, n)
        PROVE  at[u] = "tell" /\ job'[u] = job[u]
    BY <2>7 DEF ReconcileRead, ReconcileWrite, vars, Stream, Watch
  <2> QED BY <2>1, <2>2, <2>3, <2>4, <2>5, <2>6, <2>7 DEF Next
<1> QED BY <1>1, <1>2, <1>3

\* Every step keeps what is said true.
LEMMA NextTell == JobInv /\ JobInv' /\ TellInv /\ [Next]_vars => TellInv'
<1> SUFFICES ASSUME JobInv, JobInv', TellInv, [Next]_vars PROVE TellInv'
  OBVIOUS
<1>1. Silence' /\ Announces'
  BY NextSilence, NextAnnounces DEF TellInv
<1>2. BusType' /\ OwnEvents'
  <2>1. CASE ReconcileWrite
    <3>1. \A s \in Streams : calls[s] = <<>> /\ queue[s] = <<>> /\ sent[s] = <<>>
      BY <2>1 DEF ReconcileWrite, TellInv, Silence
    <3>2. UNCHANGED busVars
      BY <2>1 DEF ReconcileWrite
    <3> QED BY <3>1, <3>2 DEF TellInv, BusType, OwnEvents, busVars
  <2>2. CASE ~ ReconcileWrite
    <3>1. Told \subseteq Told'
      BY <2>2, DoneStaysDone DEF Told
    <3> QED BY <3>1, NextBus, BusCarries DEF TellInv
  <2> QED BY <2>1, <2>2
<1> QED BY <1>1, <1>2 DEF TellInv

\* Whoever receives scan_completed finds the scan done, through any number of
\* streams, overflows, reconnections, scans and restarts of the daemon.
THEOREM CompletionIsTrue == Spec => []CompletedMeansDone
<1>1. Init => TellInv
  BY DEF Init, BusInit, TellInv, BusType, OwnEvents, Silence, Announces, Runs
<1>2. TellInv => CompletedMeansDone
  <2> SUFFICES ASSUME TellInv, NEW s \in Streams, NEW i \in DOMAIN sent[s],
                      sent[s][i].kind = "scan_completed"
               PROVE  status[watch[s]] = "done"
    BY DEF CompletedMeansDone
  <2>1. sent[s] \in Seq(Told) /\ i \in 1..Len(sent[s])
    BY DEF TellInv, BusType
  <2>2. sent[s][i] \in Told /\ sent[s][i].scan = watch[s]
    BY <2>1 DEF TellInv, OwnEvents
  <2> QED BY <2>2 DEF Told
<1> QED BY <1>1, <1>2, NextTell, JobInvariance, PTL DEF Spec

-----------------------------------------------------------------------------
(* A stream and its scan's events.  Picks(f, ...) says the same as Projects  *)
(* by naming, for each event that is left, its place: it can be followed     *)
(* through a step, and counting follows at the end.                          *)

Picks(f, out, events, n) ==
  /\ f \in [1..Len(out) -> 1..Len(events)]
  /\ \A i, j \in 1..Len(out) : i < j => f[i] < f[j]
  /\ \A i \in 1..Len(events) : events[i].scan = n => \E k \in 1..Len(out) : f[k] = i
  /\ \A k \in 1..Len(out) : out[k] = events[f[k]] /\ events[f[k]].scan = n

\* The places of the first k events that are left are the first k of the scan.
LEMMA PickRank ==
  ASSUME NEW T, NEW out \in Seq(T), NEW events \in Seq(T), NEW n, NEW f,
         Picks(f, out, events, n), NEW k \in 0..Len(out), NEW i \in 0..Len(events),
         \A j \in 1..Len(out) : j <= k <=> f[j] <= i
  PROVE  Rank(events, n, i) = k
<1> DEFINE S == {j \in 1..i : events[j].scan = n}
           g == [j \in 1..k |-> f[j]]
<1>1. /\ f \in [1..Len(out) -> 1..Len(events)]
      /\ \A a, b \in 1..Len(out) : a < b => f[a] < f[b]
      /\ \A a \in 1..Len(events) : events[a].scan = n => \E b \in 1..Len(out) : f[b] = a
      /\ \A a \in 1..Len(out) : events[f[a]].scan = n
  BY DEF Picks
<1>2. Len(out) \in Nat /\ Len(events) \in Nat /\ 1..k \subseteq 1..Len(out)
      /\ 1..i \subseteq 1..Len(events)
  BY LenProperties
<1>3. g \in [1..k -> S]
  <2> SUFFICES ASSUME NEW j \in 1..k PROVE f[j] \in S
    OBVIOUS
  <2>1. j \in 1..Len(out) /\ j <= k
    BY <1>2
  <2>2. f[j] \in 1..Len(events) /\ f[j] <= i
    BY <1>1, <2>1
  <2>3. f[j] \in 1..i
    BY <1>2, <2>2
  <2> QED BY <1>1, <2>1, <2>3
<1>4. \A a, b \in 1..k : g[a] = g[b] => a = b
  <2> SUFFICES ASSUME NEW a \in 1..k, NEW b \in 1..k, f[a] = f[b], a # b PROVE FALSE
    OBVIOUS
  <2>1. a \in 1..Len(out) /\ b \in 1..Len(out)
    BY <1>2
  <2>2. f[a] \in Int /\ f[b] \in Int
    BY <1>1, <2>1
  <2>3. a < b \/ b < a
    OBVIOUS
  <2> QED BY <1>1, <2>1, <2>2, <2>3
<1>5. \A a \in S : \E b \in 1..k : g[b] = a
  <2> SUFFICES ASSUME NEW a \in S PROVE \E b \in 1..k : f[b] = a
    OBVIOUS
  <2>1. PICK b \in 1..Len(out) : f[b] = a
    BY <1>1, <1>2
  <2>2. b <= k
    BY <2>1
  <2>3. b \in 1..k
    BY <2>1, <2>2
  <2> QED BY <2>1, <2>3
<1> HIDE DEF g, S
<1>6. g \in Bijection(1..k, S)
  BY <1>3, <1>4, <1>5 DEF Bijection, Injection, Surjection, IsInjective
<1>7. ExistsBijection(1..k, S)
  BY <1>6 DEF ExistsBijection
<1>8. IsFiniteSet(1..k) /\ Cardinality(1..k) = k
  BY FS_Interval
<1>9. Cardinality(S) = k
  BY <1>7, <1>8, FS_Bijection
<1> QED BY <1>9 DEF Rank, S

\* What is picked, place by place, is what counting leaves.
LEMMA PicksProject ==
  ASSUME NEW T, NEW out \in Seq(T), NEW events \in Seq(T), NEW n, NEW f,
         Picks(f, out, events, n)
  PROVE  Projects(out, events, n)
<1>1. /\ f \in [1..Len(out) -> 1..Len(events)]
      /\ \A a, b \in 1..Len(out) : a < b => f[a] < f[b]
      /\ \A a \in 1..Len(events) : events[a].scan = n => \E b \in 1..Len(out) : f[b] = a
      /\ \A a \in 1..Len(out) : out[a] = events[f[a]]
  BY DEF Picks
<1>2. Len(out) \in Nat /\ Len(events) \in Nat /\ DOMAIN events = 1..Len(events)
  BY LenProperties
<1>3. Rank(events, n, Len(events)) = Len(out)
  <2>1. \A j \in 1..Len(out) : j <= Len(out) <=> f[j] <= Len(events)
    BY <1>1, <1>2
  <2>2. Len(out) \in 0..Len(out) /\ Len(events) \in 0..Len(events)
    BY <1>2
  <2> QED BY <2>1, <2>2, PickRank
<1>4. ASSUME NEW i \in 1..Len(events), events[i].scan = n
      PROVE  out[Rank(events, n, i)] = events[i]
  <2>1. PICK k \in 1..Len(out) : f[k] = i
    BY <1>1, <1>4
  <2>2. ASSUME NEW j \in 1..Len(out) PROVE j <= k <=> f[j] <= i
    <3>1. f[j] \in Int /\ j \in Int /\ k \in Int /\ i \in Int
      BY <1>1
    <3>2. (j < k => f[j] < f[k]) /\ (k < j => f[k] < f[j])
      BY <1>1
    <3> QED BY <2>1, <3>1, <3>2
  <2>3. k \in 0..Len(out) /\ i \in 0..Len(events)
    BY <1>2
  <2>4. Rank(events, n, i) = k
    BY <2>2, <2>3, PickRank
  <2> QED BY <1>1, <2>1, <2>4
<1> QED BY <1>2, <1>3, <1>4 DEF Projects

\* An event of the scan is picked when it is added to both.
LEMMA PicksOwn ==
  ASSUME NEW T, NEW out \in Seq(T), NEW events \in Seq(T), NEW n, NEW f,
         Picks(f, out, events, n), NEW e \in T, e.scan = n
  PROVE  \E g : Picks(g, Append(out, e), Append(events, e), n)
<1> DEFINE o == Append(out, e)
           v == Append(events, e)
           g == [k \in 1..(Len(out) + 1) |-> IF k = Len(out) + 1 THEN Len(events) + 1 ELSE f[k]]
<1>1. /\ f \in [1..Len(out) -> 1..Len(events)]
      /\ \A a, b \in 1..Len(out) : a < b => f[a] < f[b]
      /\ \A a \in 1..Len(events) : events[a].scan = n => \E b \in 1..Len(out) : f[b] = a
      /\ \A a \in 1..Len(out) : out[a] = events[f[a]] /\ events[f[a]].scan = n
  BY DEF Picks
<1>2. Len(out) \in Nat /\ Len(events) \in Nat
  BY LenProperties
<1>3. /\ Len(o) = Len(out) + 1 /\ o[Len(out) + 1] = e
      /\ \A i \in 1..Len(out) : o[i] = out[i]
  BY AppendProperties
<1>4. /\ Len(v) = Len(events) + 1 /\ v[Len(events) + 1] = e
      /\ \A i \in 1..Len(events) : v[i] = events[i]
  BY AppendProperties
<1> HIDE DEF o, v
<1>5. /\ g[Len(out) + 1] = Len(events) + 1
      /\ \A k \in 1..Len(out) : g[k] = f[k] /\ g[k] \in 1..Len(events)
  BY <1>1, <1>2
<1>6. g \in [1..(Len(out) + 1) -> 1..(Len(events) + 1)]
  BY <1>1, <1>2
<1> HIDE DEF g
<1>7. ASSUME NEW a \in 1..(Len(out) + 1), NEW b \in 1..(Len(out) + 1), a < b
      PROVE  g[a] < g[b]
  <2>1. a \in 1..Len(out)
    BY <1>2, <1>7
  <2>2. CASE b \in 1..Len(out)
    BY <1>1, <1>5, <1>7, <2>1, <2>2
  <2>3. CASE b = Len(out) + 1
    BY <1>2, <1>5, <2>1, <2>3
  <2> QED BY <1>2, <2>2, <2>3
<1>8. ASSUME NEW i \in 1..(Len(events) + 1), v[i].scan = n
      PROVE  \E k \in 1..(Len(out) + 1) : g[k] = i
  <2>1. CASE i = Len(events) + 1
    <3>1. Len(out) + 1 \in 1..(Len(out) + 1)
      BY <1>2
    <3> QED BY <1>5, <2>1, <3>1
  <2>2. CASE i \in 1..Len(events)
    <3>1. PICK k \in 1..Len(out) : f[k] = i
      BY <1>1, <1>4, <1>8, <2>2
    <3>2. k \in 1..(Len(out) + 1)
      BY <1>2
    <3> QED BY <1>5, <3>1, <3>2
  <2> QED BY <1>2, <2>1, <2>2
<1>9. ASSUME NEW k \in 1..(Len(out) + 1)
      PROVE  o[k] = v[g[k]] /\ v[g[k]].scan = n
  <2>1. CASE k = Len(out) + 1
    BY <1>3, <1>4, <1>5, <2>1
  <2>2. CASE k \in 1..Len(out)
    BY <1>1, <1>3, <1>4, <1>5, <2>2
  <2> QED BY <1>2, <2>1, <2>2
<1>10. Picks(g, o, v, n)
  BY <1>3, <1>4, <1>6, <1>7, <1>8, <1>9 DEF Picks
<1> QED BY <1>10 DEF o, v

\* An event of another scan is not, when it is added ...
LEMMA PicksNotOther ==
  ASSUME NEW T, NEW out \in Seq(T), NEW events \in Seq(T), NEW n, NEW f,
         Picks(f, out, events, n), NEW e \in T, e.scan # n
  PROVE  Picks(f, out, Append(events, e), n)
<1> DEFINE v == Append(events, e)
<1>1. /\ f \in [1..Len(out) -> 1..Len(events)]
      /\ \A a, b \in 1..Len(out) : a < b => f[a] < f[b]
      /\ \A a \in 1..Len(events) : events[a].scan = n => \E b \in 1..Len(out) : f[b] = a
      /\ \A a \in 1..Len(out) : out[a] = events[f[a]] /\ events[f[a]].scan = n
  BY DEF Picks
<1>2. Len(out) \in Nat /\ Len(events) \in Nat
  BY LenProperties
<1>3. /\ Len(v) = Len(events) + 1 /\ v[Len(events) + 1] = e
      /\ \A i \in 1..Len(events) : v[i] = events[i]
  BY AppendProperties
<1> HIDE DEF v
<1>4. f \in [1..Len(out) -> 1..Len(v)]
  BY <1>1, <1>2, <1>3
<1>5. ASSUME NEW i \in 1..Len(v), v[i].scan = n PROVE \E k \in 1..Len(out) : f[k] = i
  <2>1. i \in 1..Len(events)
    BY <1>2, <1>3, <1>5
  <2> QED BY <1>1, <1>3, <1>5, <2>1
<1>6. Picks(f, out, v, n)
  BY <1>1, <1>3, <1>4, <1>5 DEF Picks
<1> QED BY <1>6 DEF v

\* ... nor missed when it is taken out.
LEMMA PicksWithout ==
  ASSUME NEW T, NEW out \in Seq(T), NEW events \in Seq(T), NEW less \in Seq(T), NEW n, NEW f,
         Picks(f, out, events, n), NEW m \in 1..Len(events), events[m].scan # n,
         Len(less) = Len(events) - 1,
         \A i \in 1..Len(less) : less[i] = IF i < m THEN events[i] ELSE events[i + 1]
  PROVE  \E g : Picks(g, out, less, n)
<1> DEFINE g == [k \in 1..Len(out) |-> IF f[k] < m THEN f[k] ELSE f[k] - 1]
<1>1. /\ f \in [1..Len(out) -> 1..Len(events)]
      /\ \A a, b \in 1..Len(out) : a < b => f[a] < f[b]
      /\ \A a \in 1..Len(events) : events[a].scan = n => \E b \in 1..Len(out) : f[b] = a
      /\ \A a \in 1..Len(out) : out[a] = events[f[a]] /\ events[f[a]].scan = n
  BY DEF Picks
<1>2. Len(out) \in Nat /\ Len(events) \in Nat /\ Len(less) \in Nat
  BY LenProperties
<1>3. \A k \in 1..Len(out) : f[k] \in 1..Len(events) /\ f[k] # m
  BY <1>1
<1>4. \A k \in 1..Len(out) : /\ f[k] < m => g[k] = f[k]
                             /\ f[k] > m => g[k] = f[k] - 1
                             /\ g[k] \in 1..Len(less)
  BY <1>2, <1>3
<1>5. g \in [1..Len(out) -> 1..Len(less)]
  BY <1>4
<1> HIDE DEF g
<1>6. ASSUME NEW a \in 1..Len(out), NEW b \in 1..Len(out), a < b PROVE g[a] < g[b]
  <2>1. f[a] < f[b] /\ f[a] \in Int /\ f[b] \in Int /\ f[a] # m /\ f[b] # m /\ m \in Int
    BY <1>1, <1>3, <1>6
  <2>2. (f[a] < m => g[a] = f[a]) /\ (f[a] > m => g[a] = f[a] - 1)
    BY <1>4
  <2>3. (f[b] < m => g[b] = f[b]) /\ (f[b] > m => g[b] = f[b] - 1)
    BY <1>4
  <2>4. g[a] \in Int /\ g[b] \in Int
    BY <1>4
  <2>5. CASE f[b] < m
    BY <2>1, <2>2, <2>3, <2>4, <2>5
  <2>6. CASE f[a] < m /\ f[b] > m
    <3>1. g[a] = f[a] /\ g[b] = f[b] - 1
      BY <2>2, <2>3, <2>6
    <3> QED BY <2>1, <2>6, <3>1
  <2>7. CASE f[a] > m
    <3>1. f[b] > m
      BY <2>1, <2>7
    <3>2. g[a] = f[a] - 1 /\ g[b] = f[b] - 1
      BY <2>2, <2>3, <2>7, <3>1
    <3> QED BY <2>1, <3>2
  <2> QED BY <2>1, <2>5, <2>6, <2>7
<1>7. ASSUME NEW i \in 1..Len(less), less[i].scan = n PROVE \E k \in 1..Len(out) : g[k] = i
  <2>1. CASE i < m
    <3>a. less[i] = events[i]
      BY <2>1
    <3>1. i \in 1..Len(events) /\ events[i].scan = n
      BY <1>2, <1>7, <3>a
    <3>2. PICK k \in 1..Len(out) : f[k] = i
      BY <1>1, <3>1
    <3> QED BY <1>4, <2>1, <3>2
  <2>2. CASE ~ (i < m)
    <3>a. less[i] = events[i + 1]
      BY <2>2
    <3>1. i + 1 \in 1..Len(events) /\ events[i + 1].scan = n
      BY <1>2, <1>7, <3>a
    <3>2. PICK k \in 1..Len(out) : f[k] = i + 1
      BY <1>1, <3>1
    <3>3. f[k] > m /\ f[k] - 1 = i
      BY <2>2, <3>2
    <3> QED BY <1>4, <3>3
  <2> QED BY <2>1, <2>2
<1>8. ASSUME NEW k \in 1..Len(out) PROVE less[g[k]] = events[f[k]]
  <2>1. f[k] \in Int /\ f[k] # m /\ m \in Int /\ g[k] \in 1..Len(less)
    BY <1>3, <1>4
  <2>2. CASE f[k] < m
    BY <1>4, <2>1, <2>2
  <2>3. CASE f[k] > m
    <3>1. g[k] = f[k] - 1 /\ ~ (g[k] < m) /\ g[k] + 1 = f[k]
      BY <1>4, <2>1, <2>3
    <3> QED BY <2>1, <3>1
  <2> QED BY <2>1, <2>2, <2>3
<1>9. Picks(g, out, less, n)
  BY <1>1, <1>5, <1>6, <1>7, <1>8 DEF Picks
<1> QED BY <1>9

Events == [scan : ScanIds, kind : EventKinds, what : Nat \cup Probes]

\* The events of a stream's scan since it subscribed, and all that has been
\* taken along for it and not been left out yet.
Since(s) == SubSeq(published[watch[s]], from[s] + 1, Len(published[watch[s]]))
Along(s) == sent[s] \o queue[s] \o calls[s]

FlowOf(s) ==
  /\ stream[s] # "open" => calls[s] = <<>> /\ queue[s] = <<>>
  /\ stream[s] = "connected" => sent[s] = <<>>
  /\ stream[s] # "off" => watch[s] \in ScanIds
  /\ stream[s] = "open" => from[s] \in 0..Len(published[watch[s]])
  /\ stream[s] = "open" /\ ~ dropped[s] => \E f : Picks(f, Since(s), Along(s), watch[s])

BusDomains == DOMAIN from = Streams /\ DOMAIN dropped = Streams
Publications == published \in [ScanIds -> Seq(Events)]

FlowInv == BusDomains /\ Publications /\ \A s \in Streams : FlowOf(s)

\* The sequences a stream is made of.
LEMMA FlowTypes ==
  ASSUME BusType, NEW s \in Streams
  PROVE  sent[s] \in Seq(Events) /\ queue[s] \in Seq(Events) /\ calls[s] \in Seq(Events)
<1>1. Told \subseteq Events
  BY DEF Told, Events
<1>2. sent[s] \in Seq(Told) /\ queue[s] \in Seq(Told) /\ calls[s] \in Seq(Told)
  BY DEF BusType
<1> QED BY <1>1, <1>2, SeqMonotonic

\* A subscriber's past: the events of its scan since it subscribed.
LEMMA SinceType ==
  ASSUME NEW all \in Seq(Events), NEW k \in 0..Len(all)
  PROVE  SubSeq(all, k + 1, Len(all)) \in Seq(Events)
<1>1. Len(all) \in Nat /\ k + 1 \in Int /\ k \in Nat
  BY LenProperties
<1>2. \A i \in (k + 1)..Len(all) : all[i] \in Events
  BY <1>1, ElementOfSeq
<1> QED BY <1>1, <1>2, SubSeqProperties

\* ... which grows with what is published.
LEMMA SinceGrows ==
  ASSUME NEW all \in Seq(Events), NEW k \in 0..Len(all), NEW e \in Events
  PROVE  SubSeq(Append(all, e), k + 1, Len(Append(all, e))) =
           Append(SubSeq(all, k + 1, Len(all)), e)
<1> DEFINE a == Append(all, e)
           l == SubSeq(a, k + 1, Len(a))
           b == SubSeq(all, k + 1, Len(all))
           r == Append(b, e)
<1>1. Len(all) \in Nat /\ k \in Nat /\ k <= Len(all)
  BY LenProperties
<1>2. /\ a \in Seq(Events) /\ Len(a) = Len(all) + 1 /\ a[Len(all) + 1] = e
      /\ \A i \in 1..Len(all) : a[i] = all[i]
  BY AppendProperties
<1>3. /\ b \in Seq(Events) /\ Len(b) = Len(all) - k
      /\ \A i \in 1..(Len(all) - k) : b[i] = all[k + i]
  <2>1. \A i \in (k + 1)..Len(all) : all[i] \in Events
    BY <1>1, ElementOfSeq
  <2>2. /\ b \in Seq(Events) /\ Len(b) = IF k + 1 <= Len(all) THEN Len(all) - (k + 1) + 1 ELSE 0
        /\ \A i \in 1..(Len(all) - (k + 1) + 1) : b[i] = all[k + 1 + i - 1]
    BY <1>1, <2>1, SubSeqProperties
  <2> HIDE DEF b
  <2>3. Len(b) = Len(all) - k
    BY <1>1, <2>2
  <2>4. ASSUME NEW i \in 1..(Len(all) - k) PROVE b[i] = all[k + i]
    <3>1. i \in 1..(Len(all) - (k + 1) + 1) /\ k + 1 + i - 1 = k + i
      BY <1>1
    <3>2. b[i] = all[k + 1 + i - 1]
      BY <2>2, <3>1
    <3> QED BY <3>1, <3>2
  <2> QED BY <2>2, <2>3, <2>4
<1> HIDE DEF a, b
<1>4. /\ r \in Seq(Events) /\ Len(r) = Len(b) + 1 /\ r[Len(b) + 1] = e
      /\ \A i \in 1..Len(b) : r[i] = b[i]
  BY <1>3, AppendProperties
<1>5. /\ l \in Seq(Events) /\ Len(l) = Len(all) + 1 - k
      /\ \A i \in 1..(Len(all) + 1 - k) : l[i] = a[k + i]
  <2>1. \A i \in (k + 1)..Len(a) : a[i] \in Events
    BY <1>1, <1>2, ElementOfSeq
  <2>2. /\ l \in Seq(Events) /\ Len(l) = IF k + 1 <= Len(a) THEN Len(a) - (k + 1) + 1 ELSE 0
        /\ \A i \in 1..(Len(a) - (k + 1) + 1) : l[i] = a[k + 1 + i - 1]
    BY <1>1, <1>2, <2>1, SubSeqProperties
  <2> HIDE DEF l
  <2>3. Len(l) = Len(all) + 1 - k
    BY <1>1, <1>2, <2>2
  <2>4. ASSUME NEW i \in 1..(Len(all) + 1 - k) PROVE l[i] = a[k + i]
    <3>1. i \in 1..(Len(a) - (k + 1) + 1) /\ k + 1 + i - 1 = k + i
      BY <1>1, <1>2
    <3>2. l[i] = a[k + 1 + i - 1]
      BY <2>2, <3>1
    <3> QED BY <3>1, <3>2
  <2> QED BY <2>2, <2>3, <2>4
<1> HIDE DEF l, r
<1>6. ASSUME NEW i \in 1..Len(l) PROVE l[i] = r[i]
  <2>1. CASE i = Len(all) + 1 - k
    <3>1. l[i] = a[Len(all) + 1] /\ i = Len(b) + 1
      BY <1>1, <1>3, <1>5, <2>1
    <3> QED BY <1>2, <1>4, <3>1
  <2>2. CASE i # Len(all) + 1 - k
    <3>a. i \in 1..(Len(all) + 1 - k)
      BY <1>5
    <3>1. i \in 1..(Len(all) - k) /\ k + i \in 1..Len(all)
      <4> DEFINE m == Len(all)
      <4>1. m \in Nat /\ k \in Nat /\ i \in 1..(m + 1 - k) /\ i # m + 1 - k
        BY <1>1, <2>2, <3>a
      <4> HIDE DEF m
      <4>2. i \in 1..(m - k) /\ k + i \in 1..m
        BY <4>1
      <4> QED BY <4>2 DEF m
    <3>b. l[i] = a[k + i]
      BY <1>5, <3>a
    <3>2. l[i] = a[k + i] /\ a[k + i] = all[k + i]
      BY <1>2, <3>1, <3>b
    <3>3. b[i] = all[k + i] /\ i \in 1..Len(b)
      BY <1>3, <3>1
    <3> QED BY <1>4, <3>2, <3>3
  <2> QED BY <2>1, <2>2
<1>7. l = r
  BY <1>1, <1>3, <1>4, <1>5, <1>6, SeqEqual, SMTT(20)
<1> QED BY <1>7 DEF l, r, a, b

\* Handing the head of a sequence over to the one before it moves nothing.
LEMMA HandOver ==
  ASSUME NEW T, NEW s \in Seq(T), NEW q \in Seq(T), q # <<>>
  PROVE  Append(s, Head(q)) \o Tail(q) = s \o q
<1>1. Head(q) \in T /\ Tail(q) \in Seq(T) /\ Len(Tail(q)) = Len(q) - 1
      /\ \A i \in 1..Len(Tail(q)) : Tail(q)[i] = q[i + 1]
  BY HeadTailProperties
<1>2. Len(q) \in Nat /\ Len(q) >= 1 /\ Len(s) \in Nat /\ Head(q) = q[1]
  BY EmptySeq, LenProperties
<1> DEFINE a == Append(s, Head(q))
           l == a \o Tail(q)
           r == s \o q
<1>3. /\ a \in Seq(T) /\ Len(a) = Len(s) + 1 /\ a[Len(s) + 1] = Head(q)
      /\ \A i \in 1..Len(s) : a[i] = s[i]
  BY <1>1, AppendProperties
<1> HIDE DEF a
<1>4. /\ l \in Seq(T) /\ Len(l) = Len(a) + Len(Tail(q))
      /\ \A i \in 1..(Len(a) + Len(Tail(q))) :
           l[i] = IF i <= Len(a) THEN a[i] ELSE Tail(q)[i - Len(a)]
  BY <1>1, <1>3, ConcatProperties
<1>5. /\ r \in Seq(T) /\ Len(r) = Len(s) + Len(q)
      /\ \A i \in 1..(Len(s) + Len(q)) : r[i] = IF i <= Len(s) THEN s[i] ELSE q[i - Len(s)]
  BY ConcatProperties
<1> HIDE DEF l, r
<1>6. Len(l) = Len(r)
  BY <1>1, <1>2, <1>3, <1>4, <1>5
<1>7. ASSUME NEW i \in 1..Len(l) PROVE l[i] = r[i]
  <2>1. CASE i <= Len(s)
    <3>1. i \in 1..Len(s) /\ i \in 1..(Len(s) + Len(q)) /\ i <= Len(a)
      BY <1>2, <1>3, <2>1
    <3>2. l[i] = a[i]
      BY <1>4, <3>1
    <3>3. r[i] = s[i]
      BY <1>5, <2>1, <3>1
    <3> QED BY <1>3, <3>1, <3>2, <3>3
  <2>2. CASE i = Len(s) + 1
    <3>1. l[i] = a[i] /\ r[i] = q[1]
      BY <1>1, <1>2, <1>3, <1>4, <1>5, <2>2
    <3> QED BY <1>2, <1>3, <2>2, <3>1
  <2>3. CASE i > Len(s) + 1
    <3>1. l[i] = Tail(q)[i - (Len(s) + 1)] /\ r[i] = q[i - Len(s)]
      BY <1>1, <1>2, <1>3, <1>4, <1>5, <2>3
    <3>2. i - (Len(s) + 1) \in 1..Len(Tail(q)) /\ i - (Len(s) + 1) + 1 = i - Len(s)
      BY <1>1, <1>2, <1>3, <1>4, <2>3
    <3> QED BY <1>1, <3>1, <3>2
  <2> QED BY <1>2, <2>1, <2>2, <2>3
<1>8. l = r
  BY <1>4, <1>5, <1>6, <1>7, SeqEqual
<1> QED BY <1>8 DEF l, r, a

\* Adding to the last of two sequences adds to both together.
LEMMA AddLast ==
  ASSUME NEW T, NEW s \in Seq(T), NEW q \in Seq(T), NEW e \in T
  PROVE  s \o Append(q, e) = Append(s \o q, e)
<1>1. <<e>> \in Seq(T) /\ s \o q \in Seq(T)
  BY ConcatProperties
<1>2. Append(q, e) = q \o <<e>> /\ Append(s \o q, e) = (s \o q) \o <<e>>
  BY <1>1, AppendIsConcat
<1>3. (s \o q) \o <<e>> = s \o (q \o <<e>>)
  BY <1>1, ConcatAssociative
<1> QED BY <1>2, <1>3

\* Taking the head of the middle one of three sequences away.
LEMMA TakeOut ==
  ASSUME NEW T, NEW s \in Seq(T), NEW q \in Seq(T), NEW c \in Seq(T), q # <<>>
  PROVE  LET events == s \o q \o c
             less == s \o Tail(q) \o c
         IN  /\ Len(s) + 1 \in 1..Len(events) /\ events[Len(s) + 1] = Head(q)
             /\ Len(less) = Len(events) - 1
             /\ \A i \in 1..Len(less) :
                  less[i] = IF i < Len(s) + 1 THEN events[i] ELSE events[i + 1]
<1> DEFINE r == Tail(q)
           u == s \o q
           v == s \o r
           events == u \o c
           less == v \o c
<1>1. /\ r \in Seq(T) /\ Len(r) = Len(q) - 1
      /\ \A i \in 1..Len(r) : r[i] = q[i + 1]
  BY HeadTailProperties
<1>2. Len(q) \in Nat /\ Len(q) >= 1 /\ Len(s) \in Nat /\ Len(c) \in Nat /\ Head(q) = q[1]
  BY EmptySeq, LenProperties
<1> HIDE DEF r
<1>3. /\ u \in Seq(T) /\ Len(u) = Len(s) + Len(q)
      /\ \A i \in 1..(Len(s) + Len(q)) : u[i] = IF i <= Len(s) THEN s[i] ELSE q[i - Len(s)]
  BY ConcatProperties
<1>4. /\ v \in Seq(T) /\ Len(v) = Len(s) + Len(r)
      /\ \A i \in 1..(Len(s) + Len(r)) : v[i] = IF i <= Len(s) THEN s[i] ELSE r[i - Len(s)]
  BY <1>1, ConcatProperties
<1> HIDE DEF u, v
<1>a. u \in Seq(T) /\ v \in Seq(T)
  BY <1>3, <1>4
<1>5. /\ Len(events) = Len(u) + Len(c)
      /\ \A i \in 1..(Len(u) + Len(c)) : events[i] = IF i <= Len(u) THEN u[i] ELSE c[i - Len(u)]
  BY <1>a, ConcatProperties
<1>6. /\ Len(less) = Len(v) + Len(c)
      /\ \A i \in 1..(Len(v) + Len(c)) : less[i] = IF i <= Len(v) THEN v[i] ELSE c[i - Len(v)]
  BY <1>a, ConcatProperties
<1> HIDE DEF events, less
<1> DEFINE a == Len(s)
           b == Len(q)
           d == Len(c)
<1>7. /\ a \in Nat /\ b \in Nat /\ d \in Nat /\ b >= 1
      /\ Len(r) = b - 1 /\ Len(u) = a + b /\ Len(v) = a + b - 1
      /\ Len(events) = a + b + d /\ Len(less) = a + b + d - 1
  BY <1>1, <1>2, <1>3, <1>4, <1>5, <1>6
<1>8. /\ \A i \in 1..(a + b) : u[i] = IF i <= a THEN s[i] ELSE q[i - a]
      /\ \A i \in 1..(a + b - 1) : v[i] = IF i <= a THEN s[i] ELSE r[i - a]
      /\ \A i \in 1..(b - 1) : r[i] = q[i + 1]
      /\ \A i \in 1..(a + b + d) : events[i] = IF i <= a + b THEN u[i] ELSE c[i - (a + b)]
      /\ \A i \in 1..(a + b + d - 1) :
           less[i] = IF i <= a + b - 1 THEN v[i] ELSE c[i - (a + b - 1)]
  <2>1. \A i \in 1..(a + b) : u[i] = IF i <= a THEN s[i] ELSE q[i - a]
    BY <1>3
  <2>2. \A i \in 1..(a + b - 1) : v[i] = IF i <= a THEN s[i] ELSE r[i - a]
    BY <1>4, <1>7
  <2>3. \A i \in 1..(b - 1) : r[i] = q[i + 1]
    BY <1>1, <1>7
  <2>4. \A i \in 1..(a + b + d) : events[i] = IF i <= a + b THEN u[i] ELSE c[i - (a + b)]
    BY <1>5, <1>7
  <2>5. \A i \in 1..(a + b + d - 1) :
          less[i] = IF i <= a + b - 1 THEN v[i] ELSE c[i - (a + b - 1)]
    BY <1>6, <1>7
  <2> QED BY <2>1, <2>2, <2>3, <2>4, <2>5
<1> HIDE DEF a, b, d
<1>9. a + 1 \in 1..(a + b + d) /\ events[a + 1] = q[1]
  <2>1. PICK k \in Nat : k = a + 1
    BY <1>7
  <2>2. k \in 1..(a + b) /\ k \in 1..(a + b + d) /\ k - a = 1 /\ ~ (k <= a) /\ k <= a + b
    BY <1>7, <2>1
  <2>3. events[k] = u[k]
    BY <1>8, <2>2
  <2>4. u[k] = q[k - a]
    BY <1>8, <2>2
  <2>5. events[k] = q[1]
    BY <2>2, <2>3, <2>4
  <2> QED BY <2>1, <2>2, <2>5
<1>10. ASSUME NEW i \in 1..(a + b + d - 1)
       PROVE  less[i] = IF i < a + 1 THEN events[i] ELSE events[i + 1]
  <2>a. PICK k \in Nat : k = i + 1
    BY <1>7
  <2>1. CASE i < a + 1
    <3>1. i \in 1..(a + b) /\ i \in 1..(a + b - 1) /\ i \in 1..(a + b + d) /\ i <= a
          /\ i <= a + b /\ i <= a + b - 1
      BY <1>7, <2>1
    <3>2. less[i] = v[i] /\ events[i] = u[i]
      BY <1>8, <3>1
    <3>3. v[i] = s[i] /\ u[i] = s[i]
      BY <1>8, <3>1
    <3> QED BY <2>1, <3>2, <3>3
  <2>2. CASE a + 1 <= i /\ i <= a + b - 1
    <3>1. /\ k \in 1..(a + b) /\ i \in 1..(a + b - 1) /\ k \in 1..(a + b + d)
          /\ ~ (i <= a) /\ ~ (k <= a) /\ k <= a + b /\ i - a \in 1..(b - 1)
          /\ i - a + 1 = k - a /\ ~ (i < a + 1)
      BY <1>7, <2>2, <2>a
    <3>2. less[i] = v[i] /\ events[k] = u[k]
      BY <1>8, <2>2, <3>1
    <3>3. v[i] = r[i - a]
      BY <1>8, <3>1
    <3>4. u[k] = q[k - a]
      BY <1>8, <3>1
    <3>5. r[i - a] = q[i - a + 1]
      BY <1>8, <3>1
    <3>6. less[i] = events[k]
      BY <3>1, <3>2, <3>3, <3>4, <3>5
    <3> QED BY <2>a, <3>1, <3>6
  <2>3. CASE i > a + b - 1
    <3>1. /\ k \in 1..(a + b + d) /\ ~ (i <= a + b - 1) /\ ~ (k <= a + b)
          /\ i - (a + b - 1) = k - (a + b) /\ ~ (i < a + 1)
      BY <1>7, <2>3, <2>a
    <3>2. less[i] = c[i - (a + b - 1)]
      BY <1>8, <3>1
    <3>3. events[k] = c[k - (a + b)]
      BY <1>8, <3>1
    <3>4. less[i] = events[k]
      BY <3>1, <3>2, <3>3
    <3> QED BY <2>a, <3>1, <3>4
  <2>4. i < a + 1 \/ (a + 1 <= i /\ i <= a + b - 1) \/ i > a + b - 1
    BY <1>7
  <2> QED BY <2>1, <2>2, <2>3, <2>4
<1>b. \A i \in 1..(a + b + d - 1) : less[i] = IF i < a + 1 THEN events[i] ELSE events[i + 1]
  BY <1>10
<1>11. /\ Len(s) + 1 \in 1..Len(events) /\ events[Len(s) + 1] = Head(q)
       /\ Len(less) = Len(events) - 1
       /\ \A i \in 1..Len(less) :
            less[i] = IF i < Len(s) + 1 THEN events[i] ELSE events[i + 1]
  <2>1. Len(s) = a /\ Len(events) = a + b + d /\ Len(less) = a + b + d - 1 /\ Head(q) = q[1]
    BY <1>2, <1>7 DEF a
  <2>2. Len(less) = Len(events) - 1
    BY <1>7, <2>1
  <2> QED BY <1>9, <1>b, <2>1, <2>2
<1> QED BY <1>11 DEF events, less, u, v, r

\* A stream whose state a step leaves alone keeps its flow.
LEMMA FlowStays ==
  ASSUME NEW CONSTANT s \in Streams, FlowOf(s), UNCHANGED published,
         stream'[s] = stream[s], watch'[s] = watch[s], calls'[s] = calls[s],
         queue'[s] = queue[s], sent'[s] = sent[s], from'[s] = from[s], dropped'[s] = dropped[s]
  PROVE  FlowOf(s)'
BY DEF FlowOf, Since, Along

\* A stream that is not open carries nothing.
LEMMA FlowClosed ==
  ASSUME NEW CONSTANT s \in Streams, stream'[s] # "open", calls'[s] = <<>>, queue'[s] = <<>>,
         stream'[s] = "connected" => sent'[s] = <<>>,
         stream'[s] # "off" => watch'[s] \in ScanIds
  PROVE  FlowOf(s)'
BY DEF FlowOf

\* A published event of the scan joins the stream, one of another scan passes.
LEMMA PublishFlows ==
  ASSUME BusType, FlowInv, NEW e \in Events, Publish(e)
  PROVE  FlowInv'
<1>1. BusDomains'
  BY DEF Publish, FlowInv, BusDomains
<1>2. published \in [ScanIds -> Seq(Events)] /\ e.scan \in ScanIds
  BY DEF FlowInv, Publications, Events
<1>3. published' = [published EXCEPT ![e.scan] = Append(@, e)]
      /\ UNCHANGED <<stream, watch, queue, sent, from, dropped>>
      /\ \A s \in Streams : calls'[s] = IF stream[s] = "open" THEN Append(calls[s], e) ELSE calls[s]
  BY DEF Publish, Subscribed
<1>4. Publications'
  BY <1>2, <1>3 DEF Publications
<1>5. ASSUME NEW CONSTANT s \in Streams PROVE FlowOf(s)'
  <2>0. FlowOf(s)
    BY DEF FlowInv
  <2>1. CASE stream[s] # "open"
    BY <1>3, <2>0, <2>1, FlowClosed DEF FlowOf
  <2>2. CASE stream[s] = "open"
    <3> DEFINE n == watch[s]
               all == published[n]
               out == SubSeq(all, from[s] + 1, Len(all))
               front == sent[s] \o queue[s]
               along == front \o calls[s]
    <3>1. n \in ScanIds /\ all \in Seq(Events) /\ from[s] \in 0..Len(all)
      BY <1>2, <2>0, <2>2 DEF FlowOf
    <3>2. sent[s] \in Seq(Events) /\ queue[s] \in Seq(Events) /\ calls[s] \in Seq(Events)
      BY FlowTypes
    <3>3. front \in Seq(Events) /\ along \in Seq(Events)
      BY <3>2, ConcatProperties
    <3>4. out \in Seq(Events)
      BY <3>1, SinceType
    <3>5. Along(s)' = Append(along, e)
      <4>1. Along(s)' = front \o Append(calls[s], e)
        BY <1>3, <2>2 DEF Along
      <4> HIDE DEF front
      <4> QED BY <3>2, <3>3, <4>1, AddLast
    <3>6. published'[n] = IF e.scan = n THEN Append(all, e) ELSE all
      BY <1>2, <1>3, <3>1
    <3>7. from[s] \in 0..Len(published'[n])
      BY <3>1, <3>6
    <3>8. ASSUME ~ dropped[s] PROVE \E f : Picks(f, Since(s)', Along(s)', n)
      <4>1. PICK f : Picks(f, out, along, n)
        BY <2>0, <2>2, <3>8 DEF FlowOf, Since, Along
      <4>2. CASE e.scan = n
        <5>1. Since(s)' = SubSeq(Append(all, e), from[s] + 1, Len(Append(all, e)))
          BY <1>3, <3>6, <4>2 DEF Since
        <5> HIDE DEF n, all
        <5>2. Since(s)' = Append(out, e)
          BY <3>1, <5>1, SinceGrows
        <5> HIDE DEF out, along
        <5> QED BY <3>3, <3>4, <3>5, <4>1, <4>2, <5>2, PicksOwn
      <4>3. CASE e.scan # n
        <5>1. Since(s)' = out
          BY <1>3, <3>6, <4>3 DEF Since
        <5> HIDE DEF n, out, along
        <5> QED BY <3>3, <3>4, <3>5, <4>1, <4>3, <5>1, PicksNotOther
      <4> QED BY <4>2, <4>3
    <3> QED BY <1>3, <2>2, <3>1, <3>7, <3>8 DEF FlowOf
  <2> QED BY <2>1, <2>2
<1> QED BY <1>1, <1>4, <1>5 DEF FlowInv

\* A new subscriber has nothing to catch up with.
LEMMA SubscribeFlows ==
  ASSUME BusType, FlowInv, NEW CONSTANT s \in Streams, Subscribe(s)
  PROVE  FlowOf(s)'
<1>1. /\ stream \in [Streams -> {"off", "connected", "open", "kept", "ended"}]
      /\ DOMAIN from = Streams /\ DOMAIN dropped = Streams
      /\ published \in [ScanIds -> Seq(Events)] /\ FlowOf(s)
  BY DEF BusType, FlowInv, BusDomains, Publications
<1>2. /\ stream'[s] = "open" /\ from'[s] = Len(published[watch[s]])
      /\ UNCHANGED <<watch, calls, queue, sent, published>>
  BY <1>1 DEF Subscribe
<1>3. /\ calls[s] = <<>> /\ queue[s] = <<>> /\ sent[s] = <<>> /\ watch[s] \in ScanIds
  BY <1>1 DEF FlowOf, Subscribe
<1>4. published[watch[s]] \in Seq(Events) /\ Len(published[watch[s]]) \in Nat
  BY <1>1, <1>3
<1>5. Since(s)' = <<>>
  <2>1. Since(s)' = SubSeq(published[watch[s]], Len(published[watch[s]]) + 1,
                           Len(published[watch[s]]))
    BY <1>2 DEF Since
  <2> QED BY <1>4, <2>1, SubSeqEmpty
<1>6. Along(s)' = <<>>
  <2>1. <<>> \in Seq(Events)
    BY EmptySeq
  <2>2. Along(s)' = <<>> \o <<>> \o <<>>
    BY <1>2, <1>3 DEF Along
  <2> QED BY <2>1, <2>2, ConcatEmptySeq
<1>7. Picks([i \in 1..0 |-> 0], <<>>, <<>>, watch'[s])
  <2>1. Len(<<>>) = 0 /\ 1..0 = {}
    BY EmptySeq
  <2> QED BY <2>1 DEF Picks
<1> QED BY <1>2, <1>3, <1>4, <1>5, <1>6, <1>7 DEF FlowOf

\* The loop's callback hands the event over to the queue, or overflows it.
LEMMA OfferFlows ==
  ASSUME BusType, FlowInv, NEW CONSTANT s \in Streams, Offer(s)
  PROVE  FlowOf(s)'
<1>1. /\ calls \in [Streams -> Seq(Told)] /\ queue \in [Streams -> Seq(Told)]
      /\ DOMAIN dropped = Streams /\ FlowOf(s)
  BY DEF BusType, FlowInv, BusDomains
<1>2. /\ calls'[s] = Tail(calls[s]) /\ calls[s] # <<>>
      /\ UNCHANGED <<stream, watch, sent, published, from>>
  BY <1>1 DEF Offer
<1>3. stream[s] = "open"
  BY <1>1, <1>2 DEF FlowOf
<1>4. CASE Len(queue[s]) < QueueMax
  <2>1. queue'[s] = Append(queue[s], Head(calls[s])) /\ UNCHANGED dropped
    BY <1>1, <1>4 DEF Offer
  <2>2. sent[s] \in Seq(Events) /\ queue[s] \in Seq(Events) /\ calls[s] \in Seq(Events)
    BY FlowTypes
  <2>3. Head(calls[s]) \in Events /\ sent[s] \o queue[s] \in Seq(Events)
    BY <1>2, <2>2, HeadTailProperties, ConcatProperties
  <2>4. sent[s] \o Append(queue[s], Head(calls[s])) = Append(sent[s] \o queue[s], Head(calls[s]))
    <3> DEFINE h == Head(calls[s])
               a == sent[s]
               q == queue[s]
    <3>1. a \in Seq(Events) /\ q \in Seq(Events) /\ h \in Events
      BY <2>2, <2>3
    <3> HIDE DEF a, q, h
    <3>2. a \o Append(q, h) = Append(a \o q, h)
      BY ONLY <3>1, AddLast
    <3> QED BY <3>2 DEF a, q, h
  <2>5. Append(sent[s] \o queue[s], Head(calls[s])) \o Tail(calls[s]) =
          (sent[s] \o queue[s]) \o calls[s]
    <3> DEFINE front == sent[s] \o queue[s]
    <3>1. front \in Seq(Events)
      BY <2>3
    <3> HIDE DEF front
    <3>2. Append(front, Head(calls[s])) \o Tail(calls[s]) = front \o calls[s]
      BY <1>2, <2>2, <3>1, HandOver
    <3> QED BY <3>2 DEF front
  <2>6. Along(s)' = Along(s)
    BY <1>2, <2>1, <2>4, <2>5 DEF Along
  <2>7. Since(s)' = Since(s)
    BY <1>2 DEF Since
  <2> QED BY <1>1, <1>2, <1>3, <2>1, <2>6, <2>7 DEF FlowOf
<1>5. CASE ~ (Len(queue[s]) < QueueMax)
  <2>1. dropped'[s]
    BY <1>1, <1>5 DEF Offer
  <2> QED BY <1>1, <1>2, <1>3, <2>1 DEF FlowOf
<1> QED BY <1>4, <1>5

\* The stream sends the next event, or leaves it out if it is another scan's.
LEMMA DeliverFlows ==
  ASSUME BusType, FlowInv, NEW CONSTANT s \in Streams, Deliver(s)
  PROVE  FlowOf(s)'
<1>1. /\ sent \in [Streams -> Seq(Told)] /\ queue \in [Streams -> Seq(Told)]
      /\ published \in [ScanIds -> Seq(Events)] /\ FlowOf(s)
  BY DEF BusType, FlowInv, Publications
<1>2. /\ queue'[s] = Tail(queue[s]) /\ queue[s] # <<>> /\ stream[s] = "open"
      /\ UNCHANGED <<stream, watch, calls, published, from, dropped>>
  BY <1>1 DEF Deliver, Subscribed
<1>3. sent[s] \in Seq(Events) /\ queue[s] \in Seq(Events) /\ calls[s] \in Seq(Events)
  BY FlowTypes
<1>4. Since(s)' = Since(s)
  BY <1>2 DEF Since
<1>5. CASE EventForScan(Head(queue[s]), watch[s])
  <2>1. sent'[s] = Append(sent[s], Head(queue[s]))
    BY <1>1, <1>5 DEF Deliver
  <2>2. Append(sent[s], Head(queue[s])) \o Tail(queue[s]) = sent[s] \o queue[s]
    BY <1>2, <1>3, HandOver
  <2>3. Along(s)' = Along(s)
    BY <1>2, <2>1, <2>2 DEF Along
  <2> QED BY <1>1, <1>2, <1>4, <2>3 DEF FlowOf
<1>6. CASE ~ EventForScan(Head(queue[s]), watch[s])
  <2>1. sent' = sent /\ Head(queue[s]).scan # watch[s]
    BY <1>6 DEF Deliver, EventForScan
  <2> DEFINE events == sent[s] \o queue[s] \o calls[s]
             less == sent[s] \o Tail(queue[s]) \o calls[s]
             m == Len(sent[s]) + 1
  <2>2. Along(s) = events /\ Along(s)' = less
    BY <1>2, <2>1 DEF Along
  <2>3. events \in Seq(Events) /\ less \in Seq(Events)
    BY <1>2, <1>3, HeadTailProperties, ConcatProperties
  <2>4. /\ m \in 1..Len(events) /\ events[m] = Head(queue[s])
        /\ Len(less) = Len(events) - 1
        /\ \A i \in 1..Len(less) : less[i] = IF i < m THEN events[i] ELSE events[i + 1]
    <3> DEFINE a == sent[s]
               q == queue[s]
               c == calls[s]
    <3>1. a \in Seq(Events) /\ q \in Seq(Events) /\ c \in Seq(Events) /\ q # <<>>
      BY <1>2, <1>3
    <3> HIDE DEF a, q, c
    <3>2. /\ Len(a) + 1 \in 1..Len(a \o q \o c) /\ (a \o q \o c)[Len(a) + 1] = Head(q)
          /\ Len(a \o Tail(q) \o c) = Len(a \o q \o c) - 1
          /\ \A i \in 1..Len(a \o Tail(q) \o c) :
               (a \o Tail(q) \o c)[i] = IF i < Len(a) + 1 THEN (a \o q \o c)[i]
                                                         ELSE (a \o q \o c)[i + 1]
      BY ONLY <3>1, TakeOut
    <3> QED BY <3>2 DEF a, q, c
  <2>5. Since(s) \in Seq(Events)
    <3>1. watch[s] \in ScanIds /\ from[s] \in 0..Len(published[watch[s]])
      BY <1>1, <1>2 DEF FlowOf
    <3>2. published[watch[s]] \in Seq(Events)
      BY <1>1, <3>1
    <3> QED BY <3>1, <3>2, SinceType DEF Since
  <2> HIDE DEF events, less, m
  <2>6. ASSUME ~ dropped[s] PROVE \E g : Picks(g, Since(s), less, watch[s])
    <3>1. PICK f : Picks(f, Since(s), events, watch[s])
      BY <1>1, <1>2, <2>2, <2>6 DEF FlowOf
    <3>2. events[m].scan # watch[s]
      BY <2>1, <2>4
    <3> QED BY <2>3, <2>4, <2>5, <3>1, <3>2, PicksWithout
  <2> QED BY <1>1, <1>2, <1>4, <2>2, <2>6 DEF FlowOf
<1> QED BY <1>5, <1>6

\* Every step of the bus keeps every stream's flow.
LEMMA BusFlows ==
  ASSUME BusType, FlowInv,
         \/ UNCHANGED busVars
         \/ \E e \in Events : Publish(e)
         \/ \E s \in Streams : \/ \E n \in ScanIds : Connect(s, n)
                              \/ StreamStep(s) \/ ClientLeaves(s)
         \/ BusCrash
  PROVE  FlowInv'
<1>a. /\ stream \in [Streams -> {"off", "connected", "open", "kept", "ended"}]
      /\ watch \in [Streams -> ScanIds \cup {0}]
      /\ calls \in [Streams -> Seq(Told)] /\ queue \in [Streams -> Seq(Told)]
      /\ sent \in [Streams -> Seq(Told)]
      /\ DOMAIN from = Streams /\ DOMAIN dropped = Streams /\ Publications
      /\ \A u \in Streams : FlowOf(u)
  BY DEF BusType, FlowInv, BusDomains
<1>b. ASSUME NEW CONSTANT s \in Streams, UNCHANGED published, BusDomains', FlowOf(s)',
             \A u \in Streams \ {s} :
               /\ stream'[u] = stream[u] /\ watch'[u] = watch[u] /\ calls'[u] = calls[u]
               /\ queue'[u] = queue[u] /\ sent'[u] = sent[u] /\ from'[u] = from[u]
               /\ dropped'[u] = dropped[u]
      PROVE  FlowInv'
  <2>1. ASSUME NEW CONSTANT u \in Streams PROVE FlowOf(u)'
    <3>1. CASE u = s
      BY <1>b, <3>1
    <3>2. CASE u # s
      <4>1. FlowOf(u)
        BY <1>a
      <4> QED BY <1>b, <3>2, <4>1, FlowStays
    <3> QED BY <3>1, <3>2
  <2>2. Publications'
    BY <1>a, <1>b DEF Publications
  <2> QED BY <1>b, <2>1, <2>2 DEF FlowInv
<1>1. CASE UNCHANGED busVars
  BY <1>1, FlowStays DEF busVars, FlowInv, BusDomains, Publications
<1>2. CASE \E e \in Events : Publish(e)
  BY <1>2, PublishFlows
<1>3. ASSUME NEW CONSTANT s \in Streams, NEW n \in ScanIds, Connect(s, n) PROVE FlowInv'
  <2>1. FlowOf(s)'
    BY <1>3, <1>a, FlowClosed DEF Connect, FlowOf
  <2> QED BY <1>3, <1>a, <1>b, <2>1 DEF Connect, BusDomains
<1>4. ASSUME NEW CONSTANT s \in Streams, Subscribe(s) PROVE FlowInv'
  BY <1>4, <1>a, <1>b, SubscribeFlows DEF Subscribe, BusDomains
<1>5. ASSUME NEW CONSTANT s \in Streams, Offer(s) PROVE FlowInv'
  BY <1>5, <1>a, <1>b, OfferFlows DEF Offer, BusDomains
<1>6. ASSUME NEW CONSTANT s \in Streams, Deliver(s) PROVE FlowInv'
  BY <1>6, <1>a, <1>b, DeliverFlows DEF Deliver, BusDomains
<1>7. ASSUME NEW CONSTANT s \in Streams, Keepalive(s) PROVE FlowInv'
  <2>1. FlowOf(s)'
    BY <1>7, <1>a, FlowClosed DEF Keepalive, Unsubscribe, Subscribed, FlowOf
  <2> QED BY <1>7, <1>a, <1>b, <2>1 DEF Keepalive, Unsubscribe, BusDomains
<1>8. ASSUME NEW CONSTANT s \in Streams, StreamEnds(s) PROVE FlowInv'
  <2>1. FlowOf(s)'
    BY <1>8, <1>a, FlowClosed DEF StreamEnds, FlowOf
  <2> QED BY <1>8, <1>a, <1>b, <2>1 DEF StreamEnds, BusDomains
<1>9. ASSUME NEW CONSTANT s \in Streams, ClientLeaves(s) PROVE FlowInv'
  <2>1. FlowOf(s)'
    BY <1>9, <1>a, FlowClosed DEF ClientLeaves, Unsubscribe
  <2> QED BY <1>9, <1>a, <1>b, <2>1 DEF ClientLeaves, Unsubscribe, BusDomains
<1>10. CASE BusCrash
  BY <1>10, <1>a, FlowClosed DEF BusCrash, FlowInv, BusDomains, Publications
<1> QED
  BY <1>1, <1>2, <1>3, <1>4, <1>5, <1>6, <1>7, <1>8, <1>9, <1>10 DEF StreamStep

\* ... and so does every step of the system.
LEMMA NextFlow ==
  JobInv /\ JobInv' /\ TellInv /\ FlowInv /\ [Next]_vars => FlowInv'
<1> SUFFICES ASSUME JobInv, JobInv', TellInv, FlowInv, [Next]_vars PROVE FlowInv'
  OBVIOUS
<1>1. Told' \subseteq Events
  BY DEF Told, Events
<1> QED BY <1>1, NextBus, BusFlows DEF TellInv

\* A stream whose queue has not overflowed misses no event of its scan, repeats
\* none, reorders none and lets none of another scan through, whatever is
\* published, offered and delivered in whatever order (event_bus.publish and
\* _offer, sse_stream), for any number of streams, scans and restarts.
THEOREM StreamsMissNothing == Spec => []NothingMissed
<1>1. Init => TellInv /\ FlowInv
  <2> SUFFICES ASSUME Init PROVE TellInv /\ FlowInv
    OBVIOUS
  <2>1. TellInv
    BY DEF Init, BusInit, TellInv, BusType, OwnEvents, Silence, Announces, Runs
  <2>2. BusDomains
    BY DEF Init, BusInit, BusDomains
  <2>3. Publications
    BY EmptySeq DEF Init, BusInit, Publications
  <2>4. \A s \in Streams : FlowOf(s)
    BY DEF Init, BusInit, FlowOf
  <2> QED BY <2>1, <2>2, <2>3, <2>4 DEF FlowInv
<1>2. TellInv /\ FlowInv => NothingMissed
  <2> SUFFICES ASSUME TellInv, FlowInv, NEW s \in Streams, stream[s] = "open", ~ dropped[s]
               PROVE  /\ \A i \in DOMAIN sent[s] : sent[s][i].scan = watch[s]
                      /\ Projects(Since(s), Along(s), watch[s])
    BY DEF NothingMissed, Subscribed, Since, Along
  <2>1. sent[s] \in Seq(Events) /\ queue[s] \in Seq(Events) /\ calls[s] \in Seq(Events)
    BY FlowTypes DEF TellInv
  <2>2. \A i \in DOMAIN sent[s] : sent[s][i].scan = watch[s]
    BY <2>1, LenProperties DEF TellInv, OwnEvents
  <2>3. PICK f : Picks(f, Since(s), Along(s), watch[s])
    BY DEF FlowInv, FlowOf
  <2>4. Along(s) \in Seq(Events)
    BY <2>1, ConcatProperties DEF Along
  <2>5. watch[s] \in ScanIds /\ from[s] \in 0..Len(published[watch[s]])
    BY DEF FlowInv, FlowOf
  <2>6. published[watch[s]] \in Seq(Events)
    BY <2>5 DEF FlowInv, Publications
  <2>7. Since(s) \in Seq(Events)
    BY <2>5, <2>6, SinceType DEF Since
  <2> QED BY <2>2, <2>3, <2>4, <2>7, PicksProject
<1> QED BY <1>1, <1>2, NextTell, NextFlow, JobInvariance, PTL DEF Spec

=============================================================================
