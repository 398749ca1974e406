-------------------------------- MODULE Fleet --------------------------------
(***************************************************************************)
(* One host reporting to the collector: the processes of Agent, the hosts  *)
(* table of Enrollment and the scans table of Collector, joined by HTTP    *)
(* requests that can be lost before or after they are handled.             *)
(*                                                                         *)
(* Every fault (a lost request or answer, a throttled request, a busy      *)
(* store, a failed trim, a killed agent or daemon, a spool that cannot be  *)
(* written, a spool file that cannot be removed, an operator's revoke)     *)
(* spends one of MaxFaults.                                                *)
(***************************************************************************)
EXTENDS Integers, Sequences, FiniteSets, SequencesExt

CONSTANTS
  \* Agent
  Procs, MaxScans,
  \* Enrollment and Collector
  Machines, None, MaxTokens, Bundles, Keys, Reqs, Cli, Keep, CliKeep, ParseSlots,
  MaxPosts, MaxExports, MaxBaselines, MaxCrashes, SlowRender, MaxTrims, Faults,
  \* Composition
  Host,         \* the machine the processes run on
  BundleOf(_),  \* the bundle dumped from the n-th scan
  Torn,         \* what the collector receives of a half-written spool file
  MaxFaults     \* bound: faults

VARIABLES
  taken, spool, partial, rejected, tokenFile, hasEnroll, at, scan, list, hand, again,
  acked, refused, lost,
  hosts, token, revoked, minted, enrolling, retired, banned, cleared,
  scans, baselines, pc, who, body, prev, drift, newest, old, code, todo,
  exporter, basing, posts, exports, crashes, trims, ever, unpruned, cover, misfired,
  conn,         \* where the request a process waits for is handled
  faults        \* faults so far

A == INSTANCE Agent
E == INSTANCE Enrollment
C == INSTANCE Collector

agentVars == <<taken, spool, partial, rejected, tokenFile, hasEnroll, at, scan, list, hand,
               again, acked, refused, lost>>
enrollVars == <<hosts, token, revoked, minted, enrolling, retired, banned, cleared>>
collectorVars ==
  <<scans, baselines, pc, who, body, prev, drift, newest, old, code, todo, exporter,
    basing, posts, exports, crashes, trims, ever, unpruned, cover, misfired>>
vars == <<agentVars, enrollVars, collectorVars, conn, faults>>

Pending == "pending"    \* sent, not yet received by the daemon
Checked == "checked"    \* an enroll request past its check
Broken == "broken"      \* the daemon that had it was killed

\* A process has one request at most, and its connection is no other thing.
ASSUME ConnAssumption ==
  /\ {Pending, Checked, Broken} \cap Reqs = {}
  /\ Cli \notin Reqs
  /\ Host \in Machines /\ None \notin Machines

\* Bundles are dumped from finished scans of this host, each under a scan_uuid
\* of its own; a half-written one does not parse.
ASSUME ScansAssumption ==
  /\ MaxScans \in Nat
  /\ \A n \in 1..MaxScans :
       /\ BundleOf(n) \in Bundles /\ BundleOf(n).form = "ok"
       /\ BundleOf(n).machine = Host /\ BundleOf(n).status \in C!Statuses
       /\ BundleOf(n).uuid # None
  /\ \A m, n \in 1..MaxScans : BundleOf(m).uuid = BundleOf(n).uuid => m = n
  /\ Torn \in Bundles /\ Torn.form = "bad"

Init ==
  /\ A!Init
  /\ E!Init
  /\ C!Init
  /\ conn = [p \in Procs |-> Pending]
  /\ faults = 0

Fault == faults < MaxFaults /\ faults' = faults + 1

-----------------------------------------------------------------------------
(* The agent on its own.                                                     *)

AgentStep(p) ==
  /\ A!Step(p)
  /\ UNCHANGED <<enrollVars, collectorVars, conn, faults>>

StartCycle(p) ==
  /\ A!StartCycle(p)
  /\ UNCHANGED <<enrollVars, collectorVars, conn, faults>>

StartTick(p) ==
  /\ A!StartTick(p)
  /\ UNCHANGED <<enrollVars, collectorVars, conn, faults>>

DropEnrollToken ==
  /\ A!DropEnrollToken
  /\ UNCHANGED <<enrollVars, collectorVars, conn, faults>>

AgentCrash(p) ==
  /\ Fault
  /\ A!Crash(p)
  /\ conn' = [conn EXCEPT ![p] = Pending]
  /\ UNCHANGED <<enrollVars, collectorVars>>

SpoolFull(p) ==
  /\ Fault
  /\ A!SaveFails(p)
  /\ UNCHANGED <<enrollVars, collectorVars, conn>>

-----------------------------------------------------------------------------
(* Enrollment.                                                               *)

\* The daemon receives an enroll request and lets it past the check.
EnrollReceived(p) ==
  /\ at[p] = "enrolling"
  /\ conn[p] = Pending
  /\ E!EnrollCheck(Host)
  /\ conn' = [conn EXCEPT ![p] = Checked]
  /\ UNCHANGED <<agentVars, collectorVars, faults>>

\* 403: the host is revoked.
EnrollForbidden(p) ==
  /\ conn[p] = Pending
  /\ E!EnrollRefused(Host)
  /\ A!EnrollFails(p)
  /\ UNCHANGED <<collectorVars, conn, faults>>

EnrollAnswered(p) ==
  /\ conn[p] = Checked
  /\ E!EnrollUpsert
  /\ A!Enrolled(p, minted + 1)
  /\ conn' = [conn EXCEPT ![p] = Pending]
  /\ UNCHANGED <<collectorVars, faults>>

\* Nobody waits for the token that is minted.
EnrollOrphaned ==
  /\ \A p \in Procs : conn[p] # Checked
  /\ E!EnrollUpsert
  /\ UNCHANGED <<agentVars, collectorVars, conn, faults>>

-----------------------------------------------------------------------------
(* Ingest.                                                                   *)

Posting(p) == at[p] \in {"spooled", "torn", "posted"}

Posted(p) ==
  CASE at[p] = "posted"  -> BundleOf(scan[p])
    [] at[p] = "spooled" -> BundleOf(Head(list[p]))
    [] at[p] = "torn"    -> Torn

Reply(p, c) == A!SpooledReply(p, c) \/ A!PostReply(p, c)

\* The daemon receives a request and authenticates it.
Authenticated(p, r) ==
  /\ Posting(p)
  /\ conn[p] = Pending
  /\ E!Authenticates(hand[p], Host)
  /\ conn' = [conn EXCEPT ![p] = r]
  /\ UNCHANGED <<agentVars, enrollVars>>

Receive(p, r) ==
  /\ Authenticated(p, r)
  /\ C!Arrive(r, Host, Posted(p))
  /\ UNCHANGED faults

ReceiveThrottled(p, r) ==
  /\ Fault
  /\ Authenticated(p, r)
  /\ C!Throttle(r, Host, Posted(p))

ReceiveUnauthorised(p) ==
  /\ Posting(p)
  /\ conn[p] = Pending
  /\ E!Unauthorised(hand[p])
  /\ Reply(p, 401)
  /\ UNCHANGED <<enrollVars, collectorVars, conn, faults>>

\* The handler's answer reaches the process that waits for it.
Answered(p, r) ==
  /\ conn[p] = r
  /\ C!Respond(r)
  /\ Reply(p, code[r])
  /\ conn' = [conn EXCEPT ![p] = Pending]
  /\ UNCHANGED <<enrollVars, faults>>

AnsweredFileStays(p, r) ==
  /\ Fault
  /\ conn[p] = r
  /\ C!Respond(r)
  /\ A!FileStays(p, code[r])
  /\ conn' = [conn EXCEPT ![p] = Pending]
  /\ UNCHANGED enrollVars

\* Nobody waits for the answer any more.
AnswerDropped(r) ==
  /\ \A p \in Procs : conn[p] # r
  /\ C!Respond(r)
  /\ UNCHANGED <<agentVars, enrollVars, conn, faults>>

Disconnect(p) ==
  /\ Reply(p, 0) \/ A!EnrollFails(p)
  /\ conn' = [conn EXCEPT ![p] = Pending]
  /\ UNCHANGED <<enrollVars, collectorVars>>

\* The request never arrives, or its answer is lost or too late; a request
\* the daemon has received is handled all the same.
ConnectionLost(p) == Fault /\ conn[p] # Broken /\ Disconnect(p)

\* The daemon died with the request.
ConnectionBroken(p) == conn[p] = Broken /\ Disconnect(p) /\ UNCHANGED faults

-----------------------------------------------------------------------------
(* The daemon on its own, and the operators.                                 *)

HandlerStep(r) ==
  /\ \/ C!Parse(r) \/ C!PickPrevious(r) \/ C!Compare(r) \/ C!CheckUuid(r)
     \/ C!Insert(r) \/ C!InsertConflict(r) \/ C!ResolveConflict(r)
     \/ C!ReadNewestDone(r) \/ C!ReadOld(r) \/ C!DeleteOld(r) \/ C!PruneDone(r)
     \/ C!ReadStale(r) \/ C!DeleteRollup(r) \/ C!SweepDone(r)
  /\ UNCHANGED <<agentVars, enrollVars, conn, faults>>

HandlerFault(r) ==
  /\ Fault
  /\ C!StoreBusy(r) \/ C!TrimFails(r)
  /\ UNCHANGED <<agentVars, enrollVars, conn>>

DaemonCrash ==
  /\ Fault
  /\ E!Crash
  /\ C!CrashRestart
  /\ conn' = [p \in Procs |-> IF conn[p] = Pending THEN Pending ELSE Broken]
  /\ UNCHANGED agentVars

Revoke ==
  /\ Fault
  /\ E!RevokeHost(Host)
  /\ UNCHANGED <<agentVars, collectorVars, conn>>

Unrevoke ==
  /\ Host \in revoked
  /\ E!UnrevokeHost(Host)
  /\ UNCHANGED <<agentVars, collectorVars, conn, faults>>

-----------------------------------------------------------------------------
\* What a process does without a fault, once it has started something.
Working(p) ==
  \/ AgentStep(p)
  \/ EnrollReceived(p) \/ EnrollForbidden(p) \/ EnrollAnswered(p)
  \/ \E r \in Reqs : Receive(p, r) \/ Answered(p, r)
  \/ ReceiveUnauthorised(p)
  \/ ConnectionBroken(p)

Faulty ==
  \/ \E p \in Procs :
       \/ AgentCrash(p) \/ SpoolFull(p) \/ ConnectionLost(p)
       \/ \E r \in Reqs : ReceiveThrottled(p, r) \/ AnsweredFileStays(p, r)
  \/ \E r \in Reqs : HandlerFault(r)
  \/ DaemonCrash
  \/ Revoke

Next ==
  \/ \E p \in Procs : StartCycle(p) \/ StartTick(p) \/ Working(p)
  \/ \E r \in Reqs : HandlerStep(r) \/ AnswerDropped(r)
  \/ EnrollOrphaned
  \/ Unrevoke \/ DropEnrollToken
  \/ Faulty

\* Processes and handlers that can go on do; the agent loop ticks while its
\* spool is not empty.  Nothing makes an operator act or a fault happen.
Fairness ==
  /\ \A p \in Procs : WF_vars(Working(p)) /\ WF_vars(StartTick(p))
  /\ \A r \in Reqs : WF_vars(HandlerStep(r)) /\ WF_vars(AnswerDropped(r))
  /\ WF_vars(EnrollOrphaned)

Spec == Init /\ [][Next]_vars /\ Fairness

-----------------------------------------------------------------------------
\* Where a scan can be short of having reached the store: held by a process,
\* in the spool, set aside or refused as hopeless, or taken by a crash or a
\* full disk.
Held == {scan[p] : p \in Procs} \cup ToSet(spool)
GivenUp == rejected \cup refused \cup lost

\* "a dumped bundle must never be lost" (cli/_report.py:232): whatever
\* connections, daemon or store do in the middle of a report, every scan has
\* been stored, or is still held, or was given up for a reason the agent knows.
NoBundleLost ==
  \A n \in 1..taken : BundleOf(n) \in ever \/ n \in Held \cup GivenUp

\* A success answer is true: the agent deletes its only copy on it.
AckedWasStored ==
  \A n \in acked : BundleOf(n) \in ever

\* The agent gives a bundle up only if it was killed or could not write: no
\* answer of the collector, to a first try or to a retry, makes it drop one
\* that has not been stored.
OnlyCrashesGiveUp ==
  \A n \in GivenUp \ lost : BundleOf(n) \in ever

\* The token in the file opens the host, or a new one can be had.
Welcome ==
  /\ Host \notin revoked
  /\ IF tokenFile = 0 THEN hasEnroll ELSE token[Host] = tokenFile

\* While the collector keeps the agent's token valid, the spool drains.
SpoolDrains == <>[]Welcome => []<>(spool = <<>>)

\* spool_bundle: "replay is oldest-first and the newest scan stays the host's
\* latest" (cli/_report.py:144), for scans no crash has taken.
NewestStaysLatest ==
  \A i, j \in DOMAIN scans :
    \A m, n \in 1..taken :
      /\ scans[i].uuid = BundleOf(m).uuid
      /\ scans[j].uuid = BundleOf(n).uuid
      /\ m < n /\ {m, n} \cap lost = {}
      => i < j

=============================================================================
