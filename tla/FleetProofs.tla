----------------------------- MODULE FleetProofs -----------------------------
(***************************************************************************)
(* Proofs about Fleet: what an answer of the collector means to the agent  *)
(* that waits for it, across lost connections, retries, killed daemons and *)
(* killed agents.  For any processes, scans, requests in flight, retention *)
(* limits and number of faults.                                            *)
(*                                                                         *)
(* The argument follows the connection.  LinkInv: a request that a process *)
(* waits for has that process's bundle, and nobody else waits for it.      *)
(* SaidInv: a handler that answers 200, or refuses a bundle that parses,   *)
(* does so because a scan with its scan_uuid has been stored, and a        *)
(* scan_uuid stands for one scan.  KeptInv: until then a scan is in the    *)
(* hands of its process or in the spool.                                   *)
(***************************************************************************)
EXTENDS Fleet, FiniteSetTheorems, SequenceTheorems, TLAPS

Fresh == {BundleOf(n) : n \in 1..MaxScans}
Numbers == 1..MaxScans

\* The agent's own state.
AgentInv ==
  /\ taken \in 0..MaxScans
  /\ spool \in Seq(Numbers)
  /\ at \in [Procs -> {"idle", "token", "enrolling", "flush", "spooled", "torn", "posted",
                       "save", "write"}]
  /\ scan \in [Procs -> 0..MaxScans]
  /\ list \in [Procs -> Seq(Numbers)]
  /\ \A p \in Procs : at[p] \in {"spooled", "torn"} => list[p] # <<>>
  /\ \A p \in Procs : at[p] \in {"posted", "save", "write"} => scan[p] # 0
  /\ \A p \in Procs : at[p] = "idle" => scan[p] = 0

\* What is stored is remembered, and the table holds nothing else.
Remembered ==
  /\ ever \subseteq Fresh
  /\ \A i \in DOMAIN scans :
       scans[i].uuid # None => \E b \in ever : b.uuid = scans[i].uuid

\* The collector's, as far as it is needed here.
ServerInv ==
  /\ pc \in [C!Workers -> C!Places]
  /\ who \in [C!Workers -> Machines \cup {None}]
  /\ body \in [C!Workers -> Bundles \cup {None}]
  /\ code \in [C!Workers -> Int]
  /\ Remembered

\* A request a process waits for has its bundle, and is its own.
LinkInv ==
  /\ conn \in [Procs -> Reqs \cup {Pending, Checked, Broken}]
  /\ \A p \in Procs : conn[p] \in Reqs =>
       Posting(p) /\ pc[conn[p]] # "idle" /\ body[conn[p]] = Posted(p)
  /\ \A p, q \in Procs : conn[p] \in Reqs /\ conn[p] = conn[q] => p = q

\* Handlers know what they say: a bundle that is pruned for, that conflicts,
\* that is answered 200, or that is refused although it parses, is stored.
SaidBy(r) ==
  /\ pc[r] # "idle" => who[r] = Host /\ body[r] \in Fresh \cup {Torn}
  /\ pc[r] \in C!Parsing \cup C!Retaining => body[r] \in Fresh
  /\ pc[r] \in C!Retaining \cup {"conflict"} => body[r] \in ever
  /\ pc[r] = "answer" /\ code[r] = 200 => body[r] \in ever
  /\ pc[r] = "answer" /\ code[r] \in A!PERMANENT_REJECTS /\ body[r] \in Fresh =>
       body[r] \in ever

SaidInv == \A r \in Reqs : SaidBy(r)

\* A scan that has not been stored is on disk or with a process that has still
\* to save it.
KeptInv ==
  \A n \in 1..taken :
    \/ BundleOf(n) \in ever
    \/ n \in ToSet(spool) \cup GivenUp
    \/ \E p \in Procs : scan[p] = n /\ at[p] # "write"

FleetInv == AgentInv /\ ServerInv /\ LinkInv /\ SaidInv

-----------------------------------------------------------------------------
(* What a step is to each side.                                              *)

\* Moves of a process that no answer of the ingest handler causes.
QuietMove(p) ==
  \/ A!UseToken(p) \/ A!AskEnroll(p) \/ A!NoToken(p) \/ A!SendSpooled(p)
  \/ A!FlushDone(p) \/ A!SaveOpen(p) \/ A!SaveWrite(p)
  \/ A!StartCycle(p) \/ A!StartTick(p) \/ A!Crash(p) \/ A!SaveFails(p)
  \/ A!EnrollFails(p) \/ \E t : A!Enrolled(p, t)

\* Moves that one does.
Told(p, c) == A!SpooledReply(p, c) \/ A!PostReply(p, c) \/ A!FileStays(p, c)

\* What an answer tells a process is true of the bundle it has posted.
TrueOf(p, c) ==
  /\ c \in Int
  /\ c = 200 => at[p] # "torn" /\ Posted(p) \in ever
  /\ c \in A!PERMANENT_REJECTS /\ at[p] # "torn" => Posted(p) \in ever

\* Moves of a request handler.
ServerMove(r) ==
  \/ \E b \in Fresh \cup {Torn} : C!Arrive(r, Host, b) \/ C!Throttle(r, Host, b)
  \/ C!Parse(r) \/ C!PickPrevious(r) \/ C!Compare(r) \/ C!CheckUuid(r)
  \/ C!Insert(r) \/ C!InsertConflict(r) \/ C!ResolveConflict(r)
  \/ C!ReadNewestDone(r) \/ C!ReadOld(r) \/ C!DeleteOld(r) \/ C!PruneDone(r)
  \/ C!ReadStale(r) \/ C!DeleteRollup(r) \/ C!SweepDone(r)
  \/ C!StoreBusy(r) \/ C!TrimFails(r) \/ C!Respond(r)

\* What a process posts is the bundle of a scan, or half of one.
LEMMA PostedBundle ==
  ASSUME AgentInv, NEW p \in Procs, Posting(p)
  PROVE  /\ Posted(p) \in Fresh \cup {Torn}
         /\ at[p] # "torn" => Posted(p) \in Fresh
<1>1. CASE at[p] = "posted"
  <2>1. scan[p] \in 1..MaxScans
    BY <1>1, ScansAssumption DEF AgentInv
  <2> QED BY <1>1, <2>1 DEF Posted, Fresh
<1>2. CASE at[p] = "spooled"
  <2>a. list[p] \in Seq(Numbers) /\ list[p] # <<>>
    BY <1>2 DEF AgentInv
  <2>1. Head(list[p]) \in 1..MaxScans
    BY <2>a, HeadTailProperties DEF Numbers
  <2> QED BY <1>2, <2>1 DEF Posted, Fresh
<1>3. CASE at[p] = "torn"
  BY <1>3 DEF Posted
<1> QED BY <1>1, <1>2, <1>3 DEF Posting

\* Half a bundle is no bundle.
LEMMA TornNotFresh == Torn \notin Fresh
BY ScansAssumption DEF Fresh

\* The answer a process waits for is true of what it has posted.
LEMMA AnswersAreTrue ==
  ASSUME FleetInv, NEW p \in Procs, NEW r \in Reqs, conn[p] = r, C!Respond(r)
  PROVE  TrueOf(p, code[r])
<1>1. pc[r] = "answer"
  BY DEF C!Respond, C!At
<1>2. Posting(p) /\ body[r] = Posted(p)
  BY DEF FleetInv, LinkInv
<1>3. code[r] \in Int
  BY DEF FleetInv, ServerInv, C!Workers
<1>4. code[r] = 200 => body[r] \in ever
  BY <1>1 DEF FleetInv, SaidInv, SaidBy
<1>5. code[r] \in A!PERMANENT_REJECTS /\ body[r] \in Fresh => body[r] \in ever
  BY <1>1 DEF FleetInv, SaidInv, SaidBy
<1>6. ever \subseteq Fresh
  BY DEF FleetInv, ServerInv, Remembered
<1>7. at[p] = "torn" => Posted(p) = Torn
  BY DEF Posted
<1>8. at[p] # "torn" => Posted(p) \in Fresh
  BY <1>2, PostedBundle DEF FleetInv
<1> QED BY <1>2, <1>3, <1>4, <1>5, <1>6, <1>7, <1>8, TornNotFresh DEF TrueOf

\* Every step is one of a process, of the enroll token, or none of the agent.
LEMMA AgentSide ==
  ASSUME FleetInv, [Next]_vars
  PROVE  \/ UNCHANGED agentVars
         \/ A!DropEnrollToken
         \/ \E p \in Procs : QuietMove(p) \/ \E c : TrueOf(p, c) /\ Told(p, c)
<1> DEFINE Goal == \/ UNCHANGED agentVars
                   \/ A!DropEnrollToken
                   \/ \E p \in Procs : QuietMove(p) \/ \E c : TrueOf(p, c) /\ Told(p, c)
<1>1. ASSUME NEW p \in Procs, QuietMove(p) PROVE Goal
  BY <1>1
<1>2. ASSUME NEW p \in Procs, NEW r \in Reqs, conn[p] = r, C!Respond(r),
             Reply(p, code[r]) \/ A!FileStays(p, code[r])
      PROVE  Goal
  BY <1>2, AnswersAreTrue DEF Reply, Told
<1>3. ASSUME NEW p \in Procs, Reply(p, 401) \/ Reply(p, 0) PROVE Goal
  <2>1. TrueOf(p, 401) /\ TrueOf(p, 0)
    BY DEF TrueOf, A!PERMANENT_REJECTS
  <2> QED BY <1>3, <2>1 DEF Reply, Told
<1>4. ASSUME UNCHANGED agentVars \/ A!DropEnrollToken PROVE Goal
  BY <1>4
<1>5. ASSUME NEW p \in Procs, A!EnrollFails(p) \/ A!StartCycle(p) \/ A!StartTick(p)
                             \/ A!Step(p) \/ A!Crash(p) \/ A!SaveFails(p)
                             \/ \E t : A!Enrolled(p, t)
      PROVE  Goal
  BY <1>1, <1>5 DEF QuietMove, A!Step
<1> HIDE DEF Goal
<1>6. ASSUME NEW p \in Procs, StartCycle(p) \/ StartTick(p) \/ Working(p) PROVE Goal
  BY <1>2, <1>3, <1>4, <1>5, <1>6
     DEF StartCycle, StartTick, Working, AgentStep, EnrollReceived, EnrollForbidden,
         EnrollAnswered, Receive, Authenticated, Answered, ReceiveUnauthorised,
         ConnectionBroken, Disconnect
<1>7. ASSUME Faulty PROVE Goal
  BY <1>2, <1>3, <1>4, <1>5, <1>7
     DEF Faulty, AgentCrash, SpoolFull, ConnectionLost, Disconnect, ReceiveThrottled,
         Authenticated, AnsweredFileStays, HandlerFault, DaemonCrash, Revoke
<1>8. Goal
  BY <1>4, <1>6, <1>7
     DEF Next, vars, HandlerStep, AnswerDropped, EnrollOrphaned, Unrevoke, DropEnrollToken
<1> QED BY <1>8 DEF Goal

\* Every step is one of a request handler, the daemon's death, or none of the
\* collector.
LEMMA ServerSide ==
  ASSUME FleetInv, [Next]_vars
  PROVE  \/ UNCHANGED collectorVars
         \/ C!CrashRestart
         \/ \E r \in Reqs : ServerMove(r)
<1> DEFINE Goal == \/ UNCHANGED collectorVars
                   \/ C!CrashRestart
                   \/ \E r \in Reqs : ServerMove(r)
<1>1. ASSUME NEW r \in Reqs, ServerMove(r) PROVE Goal
  BY <1>1
<1>2. ASSUME UNCHANGED collectorVars \/ C!CrashRestart PROVE Goal
  BY <1>2
<1>3. ASSUME NEW p \in Procs, NEW r \in Reqs, Posting(p),
             C!Arrive(r, Host, Posted(p)) \/ C!Throttle(r, Host, Posted(p))
      PROVE  Goal
  <2>1. Posted(p) \in Fresh \cup {Torn}
    BY <1>3, PostedBundle DEF FleetInv
  <2>2. ServerMove(r)
    BY <1>3, <2>1 DEF ServerMove
  <2> QED BY <2>2
<1>4. ASSUME NEW r \in Reqs, C!Respond(r) PROVE Goal
  BY <1>4, <1>1 DEF ServerMove
<1> HIDE DEF Goal
<1>5. ASSUME NEW r \in Reqs, HandlerStep(r) \/ HandlerFault(r) PROVE Goal
  BY <1>1, <1>5 DEF HandlerStep, HandlerFault, ServerMove
<1>6. ASSUME NEW p \in Procs, StartCycle(p) \/ StartTick(p) \/ Working(p) PROVE Goal
  BY <1>2, <1>3, <1>4, <1>6
     DEF StartCycle, StartTick, Working, AgentStep, EnrollReceived, EnrollForbidden,
         EnrollAnswered, Receive, Authenticated, Answered, ReceiveUnauthorised,
         ConnectionBroken, Disconnect
<1>7. ASSUME Faulty PROVE Goal
  BY <1>2, <1>3, <1>4, <1>5, <1>7
     DEF Faulty, AgentCrash, SpoolFull, ConnectionLost, Disconnect, ReceiveThrottled,
         Authenticated, AnsweredFileStays, DaemonCrash, Revoke
<1>8. Goal
  BY <1>2, <1>4, <1>5, <1>6, <1>7
     DEF Next, vars, AnswerDropped, EnrollOrphaned, Unrevoke, DropEnrollToken
<1> QED BY <1>8 DEF Goal

-----------------------------------------------------------------------------
(* The agent's state.                                                        *)

\* Removing a file from the listing of the spool removes nothing else.
LEMMA UnlinkOne ==
  ASSUME NEW s \in Seq(Numbers), NEW n
  PROVE  /\ A!Unlink(s, n) \in Seq(Numbers)
         /\ ToSet(s) \ {n} \subseteq ToSet(A!Unlink(s, n))
<1>1. CASE ~ Contains(s, n)
  BY <1>1 DEF A!Unlink, A!Contains, Contains
<1>2. CASE Contains(s, n)
  <2> DEFINE i == CHOOSE k \in 1..Len(s) : s[k] = n
             t == SubSeq(s, 1, i - 1) \o SubSeq(s, i + 1, Len(s))
  <2>1. i \in 1..Len(s) /\ s[i] = n
    BY <1>2 DEF Contains
  <2>2. A!Unlink(s, n) = t
    BY <1>2 DEF A!Unlink, A!Contains, A!RemoveAt, Contains
  <2> HIDE DEF i
  <2>3. /\ t \in Seq(Numbers) /\ Len(t) = Len(s) - 1
        /\ \A k \in 1..Len(t) : t[k] = IF k < i THEN s[k] ELSE s[k + 1]
    <3> DEFINE u == SubSeq(s, 1, i - 1)
               v == SubSeq(s, i + 1, Len(s))
    <3>1. Len(s) \in Nat /\ i \in Nat /\ i >= 1 /\ i <= Len(s)
      BY <2>1
    <3>2. /\ u \in Seq(Numbers) /\ Len(u) = i - 1
          /\ \A k \in 1..(i - 1) : u[k] = s[k]
      BY <3>1
    <3>3. /\ v \in Seq(Numbers) /\ Len(v) = Len(s) - i
          /\ \A k \in 1..(Len(s) - i) : v[k] = s[i + k]
      BY <3>1
    <3> HIDE DEF u, v
    <3>4. /\ u \o v \in Seq(Numbers) /\ Len(u \o v) = Len(s) - 1
          /\ \A k \in 1..Len(u \o v) : (u \o v)[k] = IF k <= Len(u) THEN u[k] ELSE v[k - Len(u)]
      <4>1. /\ u \o v \in Seq(Numbers) /\ Len(u \o v) = Len(u) + Len(v)
            /\ \A k \in 1..(Len(u) + Len(v)) :
                 (u \o v)[k] = IF k <= Len(u) THEN u[k] ELSE v[k - Len(u)]
        BY <3>2, <3>3, ConcatProperties
      <4>2. Len(u) + Len(v) = Len(s) - 1
        BY <3>1, <3>2, <3>3
      <4> QED BY <4>1, <4>2
    <3>5. ASSUME NEW k \in 1..Len(u \o v)
          PROVE  (u \o v)[k] = IF k < i THEN s[k] ELSE s[k + 1]
      <4>1. k \in Nat /\ k >= 1 /\ k <= Len(s) - 1
        BY <3>1, <3>4, <3>5
      <4>2. CASE k < i
        BY <3>1, <3>2, <3>4, <4>1, <4>2
      <4>3. CASE ~ (k < i)
        <5>1. k - (i - 1) \in 1..(Len(s) - i) /\ i + (k - (i - 1)) = k + 1
          BY <3>1, <4>1, <4>3
        <5> QED BY <3>1, <3>2, <3>3, <3>4, <4>1, <4>3, <5>1
      <4> QED BY <4>2, <4>3
    <3>6. t = u \o v
      BY DEF u, v
    <3> QED BY <3>4, <3>5, <3>6
  <2> HIDE DEF t
  <2>4. ASSUME NEW x \in ToSet(s), x # n PROVE x \in ToSet(t)
    <3>1. PICK k \in 1..Len(s) : x = s[k]
      BY DEF ToSet
    <3>2. k # i
      BY <2>1, <2>4, <3>1
    <3>3. CASE k < i
      <4>1. k \in 1..Len(t) /\ t[k] = x
        BY <2>1, <2>3, <3>1, <3>3
      <4> QED BY <2>3, <4>1 DEF ToSet
    <3>4. CASE k > i
      <4>1. k - 1 \in 1..Len(t) /\ t[k - 1] = x
        BY <2>1, <2>3, <3>1, <3>4
      <4> QED BY <2>3, <4>1 DEF ToSet
    <3> QED BY <2>1, <3>2, <3>3, <3>4
  <2> QED BY <2>2, <2>3, <2>4
<1> QED BY <1>1, <1>2

\* The agent's types and what its places promise are kept.
LEMMA NextAgentInv ==
  ASSUME FleetInv, [Next]_vars
  PROVE  AgentInv'
<1>a. AgentInv
  BY DEF FleetInv
<1>1. CASE UNCHANGED agentVars
  BY <1>1, <1>a DEF agentVars, AgentInv
<1>2. CASE A!DropEnrollToken
  BY <1>2, <1>a DEF A!DropEnrollToken, AgentInv
<1>b. ASSUME NEW p \in Procs, A!Finish(p), UNCHANGED <<taken, spool>> PROVE AgentInv'
  <2>1. <<>> \in Seq(Numbers) /\ 0 \in 0..MaxScans
    BY ScansAssumption
  <2> QED BY <1>a, <1>b, <2>1 DEF A!Finish, A!Goto, AgentInv
<1>c. ASSUME NEW p \in Procs, A!Fail(p), UNCHANGED <<taken, spool>> PROVE AgentInv'
  <2>1. CASE scan[p] = 0
    BY <1>b, <1>c, <2>1 DEF A!Fail
  <2>2. CASE scan[p] # 0
    BY <1>a, <1>c, <2>2 DEF A!Fail, A!Goto, AgentInv
  <2> QED BY <2>1, <2>2
<1>3. ASSUME NEW p \in Procs, QuietMove(p) PROVE AgentInv'
  <2> USE <1>a DEF A!Goto, A!disk, A!outcome
  <2>1. CASE A!UseToken(p)
    BY <2>1 DEF A!UseToken, AgentInv
  <2>2. CASE A!AskEnroll(p)
    BY <2>2 DEF A!AskEnroll, AgentInv
  <2>3. CASE A!NoToken(p)
    BY <1>c, <2>3 DEF A!NoToken
  <2>4. CASE A!SendSpooled(p)
    <3>1. Tail(list[p]) \in Seq(Numbers)
      BY <2>4, HeadTailProperties DEF A!SendSpooled, AgentInv
    <3> QED BY <2>4, <3>1 DEF A!SendSpooled, AgentInv
  <2>5. CASE A!FlushDone(p)
    <3>1. CASE scan[p] = 0
      BY <1>b, <2>5, <3>1 DEF A!FlushDone
    <3>2. CASE scan[p] # 0
      BY <2>5, <3>2 DEF A!FlushDone, AgentInv
    <3> QED BY <3>1, <3>2
  <2>6. CASE A!SaveOpen(p)
    <3>1. Append(spool, scan[p]) \in Seq(Numbers)
      BY <2>6 DEF A!SaveOpen, AgentInv, Numbers
    <3> QED BY <2>6, <3>1 DEF A!SaveOpen, AgentInv
  <2>7. CASE A!StartCycle(p)
    BY <2>7, ScansAssumption DEF A!StartCycle, AgentInv
  <2>8. CASE A!StartTick(p)
    BY <2>8 DEF A!StartTick, AgentInv
  <2>9. CASE A!SaveWrite(p) \/ A!Crash(p) \/ A!SaveFails(p)
    BY <1>b, <2>9 DEF A!SaveWrite, A!Crash, A!SaveFails
  <2>10. CASE A!EnrollFails(p)
    BY <1>c, <2>10 DEF A!EnrollFails
  <2>11. ASSUME NEW t, A!Enrolled(p, t) PROVE AgentInv'
    BY <2>11 DEF A!Enrolled, AgentInv
  <2> QED
    BY <1>3, <2>1, <2>2, <2>3, <2>4, <2>5, <2>6, <2>7, <2>8, <2>9, <2>10, <2>11
       DEF QuietMove
<1>4. ASSUME NEW p \in Procs, NEW c, Told(p, c) PROVE AgentInv'
  <2> USE <1>a DEF A!Goto, A!disk, A!outcome
  <2>1. <<>> \in Seq(Numbers)
    OBVIOUS
  <2>2. CASE A!SpooledReply(p, c) \/ A!FileStays(p, c)
    <3>1. Tail(list[p]) \in Seq(Numbers)
      BY <2>2, HeadTailProperties DEF A!SpooledReply, A!FileStays, A!SpoolPosted, AgentInv
    <3>2. spool \in Seq(Numbers) /\ A!Unlink(spool, Head(list[p])) \in Seq(Numbers)
      BY UnlinkOne DEF AgentInv
    <3>3. spool' \in Seq(Numbers)
      BY <2>2, <3>2 DEF A!SpooledReply, A!FileStays
    <3>4. UNCHANGED <<taken, scan>> /\ at' = [at EXCEPT ![p] = "flush"]
      BY <2>2 DEF A!SpooledReply, A!FileStays
    <3>a. PICK l \in Seq(Numbers) : list' = [list EXCEPT ![p] = l]
      BY <2>1, <2>2, <3>1 DEF A!SpooledReply, A!FileStays
    <3>b. list \in [Procs -> Seq(Numbers)]
      BY DEF AgentInv
    <3>5. list' \in [Procs -> Seq(Numbers)] /\ \A q \in Procs \ {p} : list'[q] = list[q]
      BY <3>a, <3>b
    <3> QED BY <3>3, <3>4, <3>5 DEF AgentInv
  <2>3. CASE A!PostReply(p, c)
    <3>1. UNCHANGED <<taken, spool>>
      BY <2>3 DEF A!PostReply
    <3>2. CASE A!Finish(p) \/ A!Fail(p)
      BY <1>b, <1>c, <3>1, <3>2
    <3>3. CASE at' = [at EXCEPT ![p] = "token"] /\ UNCHANGED <<scan, list>>
      BY <3>1, <3>3 DEF AgentInv
    <3> QED BY <2>3, <3>2, <3>3 DEF A!PostReply
  <2> QED BY <1>4, <2>2, <2>3 DEF Told
<1> QED BY <1>1, <1>2, <1>3, <1>4, AgentSide

-----------------------------------------------------------------------------
(* The collector's state and answers.                                        *)

\* A scan_uuid in the table is that of a scan that has been stored, and stands
\* for that scan only.
LEMMA KnownIsStored ==
  ASSUME ServerInv, NEW b \in Fresh, C!WithUuid(b.uuid) # {}
  PROVE  b \in ever
<1>1. PICK n \in 1..MaxScans : b = BundleOf(n)
  BY DEF Fresh
<1>2. b.uuid # None
  BY <1>1, ScansAssumption
<1>3. PICK i \in DOMAIN scans : scans[i].uuid = b.uuid
  BY DEF C!WithUuid
<1>4. PICK c \in ever : c.uuid = b.uuid
  BY <1>2, <1>3 DEF ServerInv, Remembered
<1>5. PICK k \in 1..MaxScans : c = BundleOf(k)
  BY DEF ServerInv, Remembered, Fresh
<1>6. k = n
  BY <1>1, <1>4, <1>5, ScansAssumption
<1> QED BY <1>1, <1>5, <1>6

\* A bundle that parses, from the host it names, is not refused at the door.
LEMMA FreshParses ==
  ASSUME NEW b \in Fresh
  PROVE  C!Verdict(Host, b) = 200
<1>1. b.form = "ok" /\ b.machine = Host /\ b.status \in C!Statuses
  BY ScansAssumption DEF Fresh
<1> QED BY <1>1 DEF C!Verdict

\* ... and half a bundle is.
LEMMA TornRefused == C!Verdict(Host, Torn) = 400
BY ScansAssumption DEF C!Verdict

\* What is stored stays remembered.
LEMMA NextRemembered ==
  ASSUME FleetInv, [Next]_vars
  PROVE  Remembered' /\ ever \subseteq ever'
<1>a. Remembered
  BY DEF FleetInv, ServerInv
<1>1. ASSUME UNCHANGED <<scans, ever>> PROVE Remembered' /\ ever \subseteq ever'
  BY <1>1, <1>a DEF Remembered
<1>2. ASSUME NEW k, C!DeleteScan(k), UNCHANGED ever PROVE Remembered' /\ ever \subseteq ever'
  BY <1>2, <1>a DEF C!DeleteScan, Remembered
<1>3. ASSUME C!CrashRestart PROVE Remembered' /\ ever \subseteq ever'
  BY <1>3, <1>a DEF C!CrashRestart, Remembered
<1>4. ASSUME NEW r \in Reqs, C!Insert(r) PROVE Remembered' /\ ever \subseteq ever'
  <2>1. body[r] \in Fresh
    BY <1>4 DEF C!Insert, C!At, FleetInv, SaidInv, SaidBy, C!Parsing
  <2>2. ever' = ever \cup {body[r]}
    BY <1>4 DEF C!Insert
  <2>3. PICK i : scans' = [j \in DOMAIN scans \cup {i} |->
                             IF j = i THEN C!RowOf(body[r], who[r], drift[r]) ELSE scans[j]]
    BY <1>4 DEF C!Insert, C!AddRow
  <2>4. C!RowOf(body[r], who[r], drift[r]).uuid = body[r].uuid
    BY DEF C!RowOf
  <2> HIDE DEF C!RowOf
  <2>5. ASSUME NEW j \in DOMAIN scans', scans'[j].uuid # None
        PROVE  \E b \in ever' : b.uuid = scans'[j].uuid
    <3>1. CASE j = i
      BY <2>2, <2>3, <2>4, <3>1
    <3>2. CASE j # i
      BY <1>a, <2>2, <2>3, <2>5, <3>2 DEF Remembered
    <3> QED BY <3>1, <3>2
  <2> QED BY <1>a, <2>1, <2>2, <2>5 DEF Remembered
<1> QED
  BY <1>1, <1>2, <1>3, <1>4, ServerSide
     DEF ServerMove, collectorVars, C!table, C!history, C!Arrive, C!Throttle, C!Parse,
         C!PickPrevious, C!Compare, C!CheckUuid, C!InsertConflict, C!ResolveConflict,
         C!ReadNewestDone, C!ReadOld, C!DeleteOld, C!PruneDone, C!ReadStale,
         C!DeleteRollup, C!SweepDone, C!StoreBusy, C!TrimFails, C!Respond

\* The verdict on a bundle is an HTTP status.
LEMMA VerdictIsStatus ==
  ASSUME NEW m, NEW b
  PROVE  C!Verdict(m, b) \in {200, 400, 403, 413}
<1>1. CASE b.form = "big"
  BY <1>1 DEF C!Verdict
<1>2. CASE b.form = "bad"
  BY <1>2 DEF C!Verdict
<1>3. CASE b.form = "ok" /\ b.machine # m
  BY <1>3 DEF C!Verdict
<1>4. CASE b.form = "ok" /\ b.machine = m /\ b.status \notin C!Statuses
  BY <1>4 DEF C!Verdict
<1>5. CASE /\ b.form # "big" /\ b.form # "bad"
           /\ ~ (b.form = "ok" /\ b.machine # m)
           /\ ~ (b.form = "ok" /\ b.machine = m /\ b.status \notin C!Statuses)
  BY <1>5 DEF C!Verdict
<1> QED BY <1>1, <1>2, <1>3, <1>4, <1>5

\* A handler's step is its own: it leaves the other requests alone.
LEMMA MovesAlone ==
  ASSUME ServerInv, NEW r \in Reqs, ServerMove(r)
  PROVE  /\ pc' \in [C!Workers -> C!Places]
         /\ who' \in [C!Workers -> Machines \cup {None}]
         /\ body' \in [C!Workers -> Bundles \cup {None}]
         /\ code' \in [C!Workers -> Int]
         /\ \A q \in Reqs \ {r} : /\ pc'[q] = pc[q] /\ who'[q] = who[q]
                                  /\ body'[q] = body[q] /\ code'[q] = code[q]
<1>a. /\ pc \in [C!Workers -> C!Places] /\ who \in [C!Workers -> Machines \cup {None}]
      /\ body \in [C!Workers -> Bundles \cup {None}] /\ code \in [C!Workers -> Int]
  BY DEF ServerInv
<1>b. r \in C!Workers /\ r # Cli /\ Reqs \subseteq C!Workers
  BY ConnAssumption DEF C!Workers
<1>c. PICK p : pc' = pc \/ (p \in C!Places /\ pc' = [pc EXCEPT ![r] = p])
  <2> USE DEF C!Goto, C!Answer, C!Places, C!Parsing, C!Retaining
  <2>1. CASE \E b : C!Arrive(r, Host, b) \/ C!Throttle(r, Host, b)
    BY <2>1 DEF C!Arrive, C!Throttle
  <2>2. CASE C!Parse(r) \/ C!PickPrevious(r) \/ C!Compare(r) \/ C!CheckUuid(r)
    BY <2>2 DEF C!Parse, C!PickPrevious, C!Compare, C!CheckUuid
  <2>3. CASE C!Insert(r) \/ C!InsertConflict(r) \/ C!ResolveConflict(r) \/ C!StoreBusy(r)
    BY <2>3 DEF C!Insert, C!InsertConflict, C!ResolveConflict, C!StoreBusy
  <2>4. CASE C!ReadNewestDone(r) \/ C!ReadOld(r) \/ C!DeleteOld(r) \/ C!PruneDone(r)
    BY <2>4, <1>b DEF C!ReadNewestDone, C!ReadOld, C!DeleteOld, C!PruneDone
  <2>5. CASE C!ReadStale(r) \/ C!DeleteRollup(r) \/ C!SweepDone(r) \/ C!TrimFails(r)
             \/ C!Respond(r)
    BY <2>5, <1>b DEF C!ReadStale, C!DeleteRollup, C!SweepDone, C!TrimFails, C!Respond
  <2> QED BY <2>1, <2>2, <2>3, <2>4, <2>5 DEF ServerMove
<1>d. PICK m \in Machines \cup {None} : who' = who \/ who' = [who EXCEPT ![r] = m]
  <2>1. CASE UNCHANGED who
    BY <2>1
  <2>2. ASSUME NEW m \in Machines \cup {None}, who' = [who EXCEPT ![r] = m]
        PROVE  \E k \in Machines \cup {None} : who' = who \/ who' = [who EXCEPT ![r] = k]
    BY <2>2
  <2>3. CASE C!TrimFails(r)
    BY <2>2, <2>3, <1>a, <1>b DEF C!TrimFails
  <2>4. CASE C!Respond(r) \/ \E b : C!Arrive(r, Host, b) \/ C!Throttle(r, Host, b)
    BY <2>2, <2>4, ConnAssumption DEF C!Respond, C!Arrive, C!Throttle
  <2> QED
    BY <2>1, <2>3, <2>4
       DEF ServerMove, C!work, C!Parse, C!PickPrevious, C!Compare, C!CheckUuid, C!Insert,
           C!InsertConflict, C!ResolveConflict, C!ReadNewestDone, C!ReadOld, C!DeleteOld,
           C!PruneDone, C!ReadStale, C!DeleteRollup, C!SweepDone, C!StoreBusy
<1>e. PICK b \in Bundles \cup {None} : body' = body \/ body' = [body EXCEPT ![r] = b]
  <2>1. CASE UNCHANGED body
    BY <2>1
  <2>2. Fresh \cup {Torn} \subseteq Bundles
    BY ScansAssumption DEF Fresh
  <2>3. CASE \E b \in Fresh \cup {Torn} : C!Arrive(r, Host, b) \/ C!Throttle(r, Host, b)
    BY <2>2, <2>3 DEF C!Arrive, C!Throttle
  <2>4. CASE C!Respond(r)
    BY <2>4 DEF C!Respond
  <2> QED
    BY <2>1, <2>3, <2>4
       DEF ServerMove, C!work, C!Parse, C!PickPrevious, C!Compare, C!CheckUuid, C!Insert,
           C!InsertConflict, C!ResolveConflict, C!ReadNewestDone, C!ReadOld, C!DeleteOld,
           C!PruneDone, C!ReadStale, C!DeleteRollup, C!SweepDone, C!StoreBusy, C!TrimFails
<1>f. PICK c \in Int : code' = code \/ code' = [code EXCEPT ![r] = c]
  <2>1. CASE UNCHANGED code
    BY <2>1
  <2>2. ASSUME NEW c \in {0, 200, 400, 429, 503}, code' = [code EXCEPT ![r] = c]
        PROVE  \E k \in Int : code' = code \/ code' = [code EXCEPT ![r] = k]
    <3>1. c \in Int
      OBVIOUS
    <3> QED BY <2>2, <3>1
  <2>3. C!Verdict(who[r], body[r]) \in {200, 400, 403, 413}
    BY VerdictIsStatus
  <2>4. CASE C!Parse(r)
    <3>1. CASE C!Verdict(who[r], body[r]) = 200
      BY <2>1, <2>4, <3>1 DEF C!Parse
    <3>2. CASE C!Verdict(who[r], body[r]) # 200
      BY <2>3, <2>4, <3>2 DEF C!Parse, C!Answer
    <3> QED BY <3>1, <3>2
  <2>5. CASE C!CheckUuid(r) \/ C!ResolveConflict(r) \/ C!StoreBusy(r)
             \/ \E posted : C!Throttle(r, Host, posted)
    BY <2>1, <2>2, <2>5
       DEF C!CheckUuid, C!ResolveConflict, C!StoreBusy, C!Throttle, C!Answer
  <2>6. CASE C!SweepDone(r) \/ C!TrimFails(r) \/ C!Respond(r)
    BY <2>2, <2>6, <1>b DEF C!SweepDone, C!TrimFails, C!Respond, C!Answer
  <2> QED
    BY <2>1, <2>4, <2>5, <2>6
       DEF ServerMove, C!work, C!Arrive, C!PickPrevious, C!Compare, C!Insert,
           C!InsertConflict, C!ReadNewestDone, C!ReadOld, C!DeleteOld,
           C!PruneDone, C!ReadStale, C!DeleteRollup
<1>1. pc' \in [C!Workers -> C!Places] /\ \A q \in Reqs \ {r} : pc'[q] = pc[q]
  BY <1>a, <1>b, <1>c
<1>2. who' \in [C!Workers -> Machines \cup {None}] /\ \A q \in Reqs \ {r} : who'[q] = who[q]
  BY <1>a, <1>b, <1>d
<1>3. body' \in [C!Workers -> Bundles \cup {None}] /\ \A q \in Reqs \ {r} : body'[q] = body[q]
  BY <1>a, <1>b, <1>e
<1>4. code' \in [C!Workers -> Int] /\ \A q \in Reqs \ {r} : code'[q] = code[q]
  BY <1>a, <1>b, <1>f
<1> QED BY <1>1, <1>2, <1>3, <1>4

\* A handler's next answer is as true as its last state.
LEMMA MovesSaid ==
  ASSUME FleetInv, NEW r \in Reqs, ServerMove(r), ever \subseteq ever'
  PROVE  SaidBy(r)'
<1>a. ServerInv /\ SaidBy(r)
  BY DEF FleetInv, SaidInv
<1>b. /\ pc \in [C!Workers -> C!Places] /\ who \in [C!Workers -> Machines \cup {None}]
      /\ body \in [C!Workers -> Bundles \cup {None}] /\ code \in [C!Workers -> Int]
      /\ ever \subseteq Fresh
  BY <1>a DEF ServerInv, Remembered
<1>c. r \in C!Workers /\ r # Cli
  BY ConnAssumption DEF C!Workers
\* The request goes on with its bundle.
<1>d. ASSUME NEW p, pc' = [pc EXCEPT ![r] = p], p \notin {"idle", "answer"}, pc[r] # "idle",
             UNCHANGED <<who, body>>,
             p \in C!Parsing \cup C!Retaining => body[r] \in Fresh,
             p \in C!Retaining \cup {"conflict"} => body[r] \in ever'
      PROVE  SaidBy(r)'
  <2>1. pc'[r] = p /\ who'[r] = who[r] /\ body'[r] = body[r]
    BY <1>b, <1>c, <1>d
  <2>2. who[r] = Host /\ body[r] \in Fresh \cup {Torn}
    BY <1>a, <1>d DEF SaidBy
  <2> QED BY <1>d, <2>1, <2>2 DEF SaidBy
\* The request is answered.
<1>e. ASSUME NEW c, pc' = [pc EXCEPT ![r] = "answer"], code' = [code EXCEPT ![r] = c],
             UNCHANGED <<who, body>>, pc[r] # "idle",
             c = 200 => body[r] \in ever',
             c \in A!PERMANENT_REJECTS /\ body[r] \in Fresh => body[r] \in ever'
      PROVE  SaidBy(r)'
  <2>1. pc'[r] = "answer" /\ code'[r] = c /\ who'[r] = who[r] /\ body'[r] = body[r]
    BY <1>b, <1>c, <1>e
  <2>2. who[r] = Host /\ body[r] \in Fresh \cup {Torn}
    BY <1>a, <1>e DEF SaidBy
  <2> QED BY <1>e, <2>1, <2>2 DEF SaidBy, C!Parsing, C!Retaining
<1>f. pc[r] \in C!Retaining => body[r] \in Fresh /\ body[r] \in ever'
  BY <1>a DEF SaidBy
<1>g. /\ {"drift", "insert"} \cap (C!Retaining \cup {"conflict"}) = {}
      /\ {"drift", "insert", "newest", "conflict", "body", "check"} \cap {"idle", "answer"} = {}
  BY DEF C!Retaining
<1> USE DEF C!At, C!Goto, C!Answer
<1>1. ASSUME NEW b \in Fresh \cup {Torn}, C!Arrive(r, Host, b) PROVE SaidBy(r)'
  <2>1. pc'[r] = "body" /\ who'[r] = Host /\ body'[r] = b
    BY <1>1, <1>b, <1>c DEF C!Arrive
  <2> QED BY <2>1 DEF SaidBy, C!Parsing, C!Retaining
<1>2. ASSUME NEW b \in Fresh \cup {Torn}, C!Throttle(r, Host, b) PROVE SaidBy(r)'
  <2>1. pc'[r] = "answer" /\ who'[r] = Host /\ body'[r] = b /\ code'[r] = 429
    BY <1>2, <1>b, <1>c DEF C!Throttle
  <2> QED BY <2>1 DEF SaidBy, C!Parsing, C!Retaining, A!PERMANENT_REJECTS
<1>3. CASE C!Parse(r)
  <2>1. pc[r] = "body" /\ UNCHANGED <<who, body>>
    BY <1>3 DEF C!Parse
  <2>2. who[r] = Host /\ body[r] \in Fresh \cup {Torn}
    BY <1>a, <2>1 DEF SaidBy
  <2>3. CASE body[r] \in Fresh
    <3>1. C!Verdict(who[r], body[r]) = 200
      BY <2>2, <2>3, FreshParses
    <3>2. pc' = [pc EXCEPT ![r] = "drift"]
      BY <1>3, <3>1 DEF C!Parse
    <3> QED BY <1>d, <1>g, <2>1, <2>3, <3>2
  <2>4. CASE body[r] = Torn
    <3>1. C!Verdict(who[r], body[r]) = 400
      BY <2>2, <2>4, TornRefused
    <3>2. pc' = [pc EXCEPT ![r] = "answer"] /\ code' = [code EXCEPT ![r] = 400]
      BY <1>3, <3>1 DEF C!Parse
    <3>3. pc'[r] = "answer" /\ code'[r] = 400 /\ who'[r] = Host /\ body'[r] = Torn
      BY <1>b, <1>c, <2>1, <2>2, <2>4, <3>2
    <3> QED BY <3>3, TornNotFresh DEF SaidBy, C!Parsing, C!Retaining
  <2> QED BY <2>2, <2>3, <2>4
<1>4. CASE C!PickPrevious(r) \/ C!Compare(r)
  <2>1. pc[r] \in {"drift", "compare"} /\ UNCHANGED <<who, body>>
    BY <1>4 DEF C!PickPrevious, C!Compare
  <2>2. PICK p \in {"check", "compare"} : pc' = [pc EXCEPT ![r] = p]
    BY <1>4 DEF C!PickPrevious, C!Compare
  <2>3. body[r] \in Fresh
    BY <1>a, <2>1 DEF SaidBy, C!Parsing
  <2> QED BY <1>d, <2>1, <2>2, <2>3 DEF C!Retaining
<1>5. CASE C!CheckUuid(r)
  <2>1. pc[r] = "check" /\ UNCHANGED <<who, body>>
    BY <1>5 DEF C!CheckUuid
  <2>2. body[r] \in Fresh
    BY <1>a, <2>1 DEF SaidBy, C!Parsing
  <2>3. CASE C!WithUuid(body[r].uuid) = {}
    <3>1. pc' = [pc EXCEPT ![r] = "insert"]
      BY <1>5, <2>3 DEF C!CheckUuid
    <3> QED BY <1>d, <1>g, <2>1, <2>2, <3>1
  <2>4. CASE C!WithUuid(body[r].uuid) # {}
    <3>1. body[r] \in ever'
      BY <1>a, <2>2, <2>4, KnownIsStored
    <3>2. PICK c : pc' = [pc EXCEPT ![r] = "answer"] /\ code' = [code EXCEPT ![r] = c]
      BY <1>5, <2>4 DEF C!CheckUuid
    <3> QED BY <1>e, <2>1, <3>1, <3>2
  <2> QED BY <2>3, <2>4
<1>6. CASE C!Insert(r)
  <2>1. /\ pc[r] = "insert" /\ UNCHANGED <<who, body>>
        /\ pc' = [pc EXCEPT ![r] = "newest"] /\ body[r] \in ever'
    BY <1>6 DEF C!Insert, C!work
  <2>2. body[r] \in Fresh
    BY <1>a, <2>1 DEF SaidBy, C!Parsing
  <2> QED BY <1>d, <1>g, <2>1, <2>2
<1>7. CASE C!InsertConflict(r)
  <2>1. /\ pc[r] = "insert" /\ UNCHANGED <<who, body>>
        /\ pc' = [pc EXCEPT ![r] = "conflict"]
        /\ C!WithUuid(body[r].uuid) # {}
    BY <1>7 DEF C!InsertConflict, C!work, C!IndexAllows
  <2>2. body[r] \in Fresh
    BY <1>a, <2>1 DEF SaidBy, C!Parsing
  <2>3. body[r] \in ever'
    BY <1>a, <2>1, <2>2, KnownIsStored
  <2> QED BY <1>d, <1>g, <2>1, <2>2, <2>3
<1>8. CASE C!ResolveConflict(r)
  <2>1. pc[r] = "conflict" /\ UNCHANGED <<who, body>>
    BY <1>8 DEF C!ResolveConflict
  <2>2. body[r] \in ever'
    BY <1>a, <2>1 DEF SaidBy
  <2>3. PICK c : pc' = [pc EXCEPT ![r] = "answer"] /\ code' = [code EXCEPT ![r] = c]
    BY <1>8 DEF C!ResolveConflict
  <2> QED BY <1>e, <2>1, <2>2, <2>3
<1>9. CASE C!StoreBusy(r)
  <2>1. /\ pc[r] = "insert" /\ UNCHANGED <<who, body>>
        /\ pc' = [pc EXCEPT ![r] = "answer"] /\ code' = [code EXCEPT ![r] = 503]
    BY <1>9 DEF C!StoreBusy
  <2>2. who[r] = Host /\ body[r] \in Fresh \cup {Torn}
    BY <1>a, <2>1 DEF SaidBy
  <2>3. pc'[r] = "answer" /\ code'[r] = 503 /\ who'[r] = who[r] /\ body'[r] = body[r]
    BY <1>b, <1>c, <2>1
  <2> QED BY <2>2, <2>3 DEF SaidBy, C!Parsing, C!Retaining, A!PERMANENT_REJECTS
<1>10. CASE C!ReadNewestDone(r) \/ C!ReadOld(r) \/ C!PruneDone(r) \/ C!ReadStale(r)
  <2>1. pc[r] \in C!Retaining /\ UNCHANGED <<who, body>>
    BY <1>10 DEF C!ReadNewestDone, C!ReadOld, C!PruneDone, C!ReadStale, C!work, C!Retaining
  <2>2. PICK p \in C!Retaining : pc' = [pc EXCEPT ![r] = p]
    BY <1>10, <1>c
       DEF C!ReadNewestDone, C!ReadOld, C!PruneDone, C!ReadStale, C!Retaining
  <2>3. body[r] \in Fresh /\ body[r] \in ever'
    BY <1>f, <2>1
  <2>4. pc[r] # "idle" /\ p \notin {"idle", "answer"}
    BY <2>1, <2>2 DEF C!Retaining
  <2> QED BY <1>d, <2>1, <2>2, <2>3, <2>4
<1>11. CASE C!DeleteOld(r) \/ C!DeleteRollup(r)
  <2>1. UNCHANGED <<pc, who, body, code>>
    BY <1>11 DEF C!DeleteOld, C!DeleteRollup
  <2> QED BY <1>a, <2>1 DEF SaidBy
<1>12. CASE C!SweepDone(r)
  <2>1. /\ pc[r] = "unroll" /\ UNCHANGED <<who, body>>
        /\ pc' = [pc EXCEPT ![r] = "answer"] /\ code' = [code EXCEPT ![r] = 200]
    BY <1>12, <1>c DEF C!SweepDone
  <2>2. body[r] \in ever'
    BY <1>f, <2>1 DEF C!Retaining
  <2> QED BY <1>e, <2>1, <2>2
<1>13. CASE C!TrimFails(r)
  <2>1. /\ pc[r] \in C!Retaining /\ UNCHANGED body
        /\ pc' = [pc EXCEPT ![r] = "answer"] /\ code' = [code EXCEPT ![r] = 200]
        /\ who' = [who EXCEPT ![r] = who[r]]
    BY <1>13, <1>c DEF C!TrimFails
  <2>2. body[r] \in ever' /\ pc[r] # "idle"
    BY <1>f, <2>1 DEF C!Retaining
  <2>3. who' = who
    BY <1>b, <1>c, <2>1
  <2> QED BY <1>e, <2>1, <2>2, <2>3
<1>14. CASE C!Respond(r)
  <2>1. pc'[r] = "idle"
    BY <1>14, <1>b, <1>c DEF C!Respond
  <2> QED BY <2>1 DEF SaidBy, C!Parsing, C!Retaining
<1> QED
  BY <1>1, <1>2, <1>3, <1>4, <1>5, <1>6, <1>7, <1>8, <1>9, <1>10, <1>11, <1>12, <1>13, <1>14
     DEF ServerMove

\* The collector's side of the invariant is kept.
LEMMA NextServerSide ==
  ASSUME FleetInv, [Next]_vars
  PROVE  ServerInv' /\ SaidInv'
<1>a. ServerInv /\ SaidInv
  BY DEF FleetInv
<1>b. Remembered' /\ ever \subseteq ever'
  BY NextRemembered
<1>1. CASE UNCHANGED collectorVars
  <2>1. UNCHANGED <<pc, who, body, code, ever>>
    BY <1>1 DEF collectorVars
  <2>2. ServerInv'
    BY <1>a, <1>b, <2>1 DEF ServerInv
  <2>3. SaidInv'
    BY <1>a, <2>1 DEF SaidInv, SaidBy
  <2> QED BY <2>2, <2>3
<1>2. CASE C!CrashRestart
  <2>1. /\ pc' = [w \in C!Workers |-> IF w = Cli THEN pc[w] ELSE "idle"]
        /\ who' = [w \in C!Workers |-> IF w = Cli THEN who[w] ELSE None]
        /\ body' = [w \in C!Workers |-> None]
        /\ code' = [w \in C!Workers |-> 0]
    BY <1>2 DEF C!CrashRestart
  <2>2. ServerInv'
    BY <1>a, <1>b, <2>1 DEF ServerInv, C!Places
  <2>3. \A q \in Reqs : pc'[q] = "idle"
    BY <2>1, ConnAssumption DEF C!Workers
  <2>4. SaidInv'
    BY <2>3 DEF SaidInv, SaidBy, C!Parsing, C!Retaining
  <2> QED BY <2>2, <2>4
<1>3. ASSUME NEW r \in Reqs, ServerMove(r) PROVE ServerInv' /\ SaidInv'
  <2>1. ServerInv'
    BY <1>3, <1>a, <1>b, MovesAlone DEF ServerInv
  <2>2. SaidBy(r)'
    BY <1>3, <1>b, MovesSaid
  <2>3. ASSUME NEW q \in Reqs \ {r} PROVE SaidBy(q)'
    <3>1. pc'[q] = pc[q] /\ who'[q] = who[q] /\ body'[q] = body[q] /\ code'[q] = code[q]
      BY <1>3, <1>a, MovesAlone
    <3>2. SaidBy(q)
      BY <1>a DEF SaidInv
    <3> QED BY <1>b, <3>1, <3>2 DEF SaidBy
  <2> QED BY <2>1, <2>2, <2>3 DEF SaidInv
<1> QED BY <1>1, <1>2, <1>3, ServerSide

-----------------------------------------------------------------------------
(* The connection between the two.                                           *)

\* A process's step is its own: it leaves the other processes alone.
LEMMA ProcsAlone ==
  ASSUME AgentInv, NEW p \in Procs, QuietMove(p) \/ \E c : Told(p, c)
  PROVE  \A q \in Procs \ {p} : at'[q] = at[q] /\ scan'[q] = scan[q] /\ list'[q] = list[q]
<1> DEFINE Alone == \A q \in Procs \ {p} :
                      at'[q] = at[q] /\ scan'[q] = scan[q] /\ list'[q] = list[q]
<1>a. /\ DOMAIN at = Procs /\ at = [q \in Procs |-> at[q]]
      /\ DOMAIN scan = Procs /\ scan = [q \in Procs |-> scan[q]]
      /\ DOMAIN list = Procs /\ list = [q \in Procs |-> list[q]]
  BY DEF AgentInv
<1>1. ASSUME NEW a, NEW s, NEW l,
             at' = at \/ at' = [at EXCEPT ![p] = a],
             scan' = scan \/ scan' = [scan EXCEPT ![p] = s],
             list' = list \/ list' = [list EXCEPT ![p] = l]
      PROVE  Alone
  BY <1>a, <1>1
<1>2. A!Finish(p) => Alone
  BY <1>1 DEF A!Finish, A!Goto
<1>3. A!Fail(p) => Alone
  BY <1>1, <1>2 DEF A!Fail, A!Goto
<1> HIDE DEF Alone
<1>4. ASSUME QuietMove(p) PROVE Alone
  <2>1. CASE A!UseToken(p) \/ A!AskEnroll(p) \/ A!StartCycle(p) \/ A!StartTick(p)
    BY <1>1, <2>1 DEF A!UseToken, A!AskEnroll, A!StartCycle, A!StartTick, A!Goto
  <2>2. CASE A!SendSpooled(p)
    BY <1>1, <2>2 DEF A!SendSpooled, A!Goto
  <2>3. CASE A!NoToken(p) \/ A!EnrollFails(p)
    BY <1>3, <2>3 DEF A!NoToken, A!EnrollFails
  <2>4. CASE A!SaveWrite(p) \/ A!Crash(p) \/ A!SaveFails(p)
    BY <1>2, <2>4 DEF A!SaveWrite, A!Crash, A!SaveFails
  <2>5. CASE A!FlushDone(p)
    BY <1>1, <1>2, <2>5 DEF A!FlushDone, A!Goto
  <2>6. CASE A!SaveOpen(p) \/ \E t : A!Enrolled(p, t)
    BY <1>1, <2>6 DEF A!SaveOpen, A!Enrolled, A!Goto
  <2> QED BY <1>4, <2>1, <2>2, <2>3, <2>4, <2>5, <2>6 DEF QuietMove
<1>5. ASSUME NEW c, Told(p, c) PROVE Alone
  <2>1. CASE A!SpooledReply(p, c) \/ A!FileStays(p, c)
    BY <1>1, <2>1 DEF A!SpooledReply, A!FileStays, A!Goto
  <2>2. CASE A!PostReply(p, c)
    <3>1. A!Finish(p) \/ A!Fail(p) \/ (A!Goto(p, "token") /\ UNCHANGED <<scan, list>>)
      BY <2>2 DEF A!PostReply
    <3>2. A!Goto(p, "token") /\ UNCHANGED <<scan, list>> => Alone
      BY <1>1 DEF A!Goto
    <3> QED BY <1>2, <1>3, <3>1, <3>2
  <2> QED BY <1>5, <2>1, <2>2 DEF Told
<1> QED BY <1>4, <1>5 DEF Alone

\* A handler at work keeps its bundle until it has answered.
LEMMA HandlersHold ==
  ASSUME ServerInv, NEW r \in Reqs, HandlerStep(r) \/ HandlerFault(r)
  PROVE  pc'[r] # "idle" /\ UNCHANGED body
<1>a. pc \in [C!Workers -> C!Places] /\ r \in C!Workers /\ r # Cli
  BY ConnAssumption DEF ServerInv, C!Workers
<1> USE <1>a DEF C!At, C!Goto, C!Answer
<1>1. CASE C!Parse(r) \/ C!PickPrevious(r) \/ C!Compare(r) \/ C!CheckUuid(r)
  BY <1>1 DEF C!Parse, C!PickPrevious, C!Compare, C!CheckUuid
<1>2. CASE C!Insert(r) \/ C!InsertConflict(r) \/ C!ResolveConflict(r) \/ C!StoreBusy(r)
  BY <1>2 DEF C!Insert, C!InsertConflict, C!ResolveConflict, C!StoreBusy, C!work
<1>3. CASE C!ReadNewestDone(r) \/ C!ReadOld(r) \/ C!DeleteOld(r) \/ C!PruneDone(r)
  BY <1>3 DEF C!ReadNewestDone, C!ReadOld, C!DeleteOld, C!PruneDone, C!work
<1>4. CASE C!ReadStale(r) \/ C!DeleteRollup(r) \/ C!SweepDone(r) \/ C!TrimFails(r)
  BY <1>4 DEF C!ReadStale, C!DeleteRollup, C!SweepDone, C!TrimFails
<1> QED BY <1>1, <1>2, <1>3, <1>4 DEF HandlerStep, HandlerFault

\* Connections that stay, or are closed, keep the invariant.
LEMMA LinkStays ==
  ASSUME LinkInv, conn' \in [Procs -> Reqs \cup {Pending, Checked, Broken}],
         \A q \in Procs : conn'[q] \in Reqs =>
           /\ conn'[q] = conn[q]
           /\ at'[q] = at[q] /\ scan'[q] = scan[q] /\ list'[q] = list[q]
           /\ pc'[conn[q]] # "idle" /\ body'[conn[q]] = body[conn[q]]
  PROVE  LinkInv'
<1>1. ASSUME NEW q \in Procs, conn'[q] \in Reqs
      PROVE  Posting(q)' /\ pc'[conn'[q]] # "idle" /\ body'[conn'[q]] = Posted(q)'
  <2>1. /\ conn'[q] = conn[q] /\ at'[q] = at[q] /\ scan'[q] = scan[q] /\ list'[q] = list[q]
        /\ pc'[conn[q]] # "idle" /\ body'[conn[q]] = body[conn[q]]
    BY <1>1
  <2>2. Posting(q) /\ body[conn[q]] = Posted(q)
    BY <1>1, <2>1 DEF LinkInv
  <2>3. Posting(q)' /\ Posted(q)' = Posted(q)
    BY <2>1, <2>2 DEF Posting, Posted
  <2> QED BY <2>1, <2>2, <2>3
<1>2. ASSUME NEW p \in Procs, NEW q \in Procs, conn'[p] \in Reqs, conn'[p] = conn'[q]
      PROVE  p = q
  BY <1>2 DEF LinkInv
<1> QED BY <1>1, <1>2 DEF LinkInv

\* A request belongs to the process that waits for it.
LEMMA NextLinkInv ==
  ASSUME FleetInv, [Next]_vars
  PROVE  LinkInv'
<1>a. AgentInv /\ ServerInv /\ LinkInv
  BY DEF FleetInv
<1>b. conn \in [Procs -> Reqs \cup {Pending, Checked, Broken}]
  BY <1>a DEF LinkInv
<1>c. Pending \notin Reqs /\ Checked \notin Reqs /\ Broken \notin Reqs
  BY ConnAssumption
<1>d. \A q \in Procs : conn[q] \in Reqs =>
        Posting(q) /\ pc[conn[q]] # "idle" /\ body[conn[q]] = Posted(q)
  BY <1>a DEF LinkInv
\* Nobody moves but the daemon's handler r, which answers nobody yet.
<1>1. ASSUME NEW r \in Reqs, ServerMove(r), UNCHANGED <<agentVars, conn>>,
             (pc'[r] # "idle" /\ UNCHANGED body) \/ \A q \in Procs : conn[q] # r
      PROVE  LinkInv'
  <2>1. UNCHANGED <<at, scan, list, conn>>
    BY <1>1 DEF agentVars
  <2>2. ASSUME NEW q \in Procs, conn[q] \in Reqs
        PROVE  pc'[conn[q]] # "idle" /\ body'[conn[q]] = body[conn[q]]
    <3>1. CASE conn[q] = r
      BY <1>1, <3>1
    <3>2. CASE conn[q] # r
      BY <1>1, <1>a, <1>d, <2>2, <3>2, MovesAlone
    <3> QED BY <3>1, <3>2
  <2> QED BY <1>a, <1>b, <2>1, <2>2, LinkStays
\* Process p moves on its own, and waits for no answer of a handler.
<1>2. ASSUME NEW p \in Procs, NEW t \in {Pending, Checked},
             QuietMove(p) \/ \E c : Told(p, c),
             UNCHANGED collectorVars,
             conn' = [conn EXCEPT ![p] = t] \/ (UNCHANGED conn /\ conn[p] \notin Reqs)
      PROVE  LinkInv'
  <2>1. conn' \in [Procs -> Reqs \cup {Pending, Checked, Broken}]
    BY <1>2, <1>b
  <2>2. conn'[p] \notin Reqs /\ \A q \in Procs \ {p} : conn'[q] = conn[q]
    BY <1>2, <1>b, <1>c
  <2>3. \A q \in Procs \ {p} : at'[q] = at[q] /\ scan'[q] = scan[q] /\ list'[q] = list[q]
    BY <1>2, <1>a, ProcsAlone
  <2>4. UNCHANGED <<pc, body>>
    BY <1>2 DEF collectorVars
  <2>5. ASSUME NEW q \in Procs, conn'[q] \in Reqs
        PROVE  /\ conn'[q] = conn[q]
               /\ at'[q] = at[q] /\ scan'[q] = scan[q] /\ list'[q] = list[q]
               /\ pc'[conn[q]] # "idle" /\ body'[conn[q]] = body[conn[q]]
    BY <1>d, <2>2, <2>3, <2>4, <2>5
  <2> QED BY <1>a, <2>1, <2>5, LinkStays
\* Process p takes the answer of handler r.
<1>3. ASSUME NEW p \in Procs, NEW r \in Reqs, \E c : Told(p, c), conn[p] = r,
             C!Respond(r), conn' = [conn EXCEPT ![p] = Pending]
      PROVE  LinkInv'
  <2>1. conn' \in [Procs -> Reqs \cup {Pending, Checked, Broken}]
    BY <1>3, <1>b
  <2>2. conn'[p] \notin Reqs /\ \A q \in Procs \ {p} : conn'[q] = conn[q]
    BY <1>3, <1>b, <1>c
  <2>3. \A q \in Procs \ {p} : at'[q] = at[q] /\ scan'[q] = scan[q] /\ list'[q] = list[q]
    BY <1>3, <1>a, ProcsAlone
  <2>4. \A q \in Reqs \ {r} : pc'[q] = pc[q] /\ body'[q] = body[q]
    <3>1. ServerMove(r)
      BY <1>3 DEF ServerMove
    <3> QED BY <1>a, <3>1, MovesAlone
  <2>5. ASSUME NEW q \in Procs, conn'[q] \in Reqs
        PROVE  /\ conn'[q] = conn[q]
               /\ at'[q] = at[q] /\ scan'[q] = scan[q] /\ list'[q] = list[q]
               /\ pc'[conn[q]] # "idle" /\ body'[conn[q]] = body[conn[q]]
    <3>1. q # p /\ conn'[q] = conn[q]
      BY <2>2, <2>5
    <3>2. conn[q] # r
      BY <1>3, <1>a, <2>5, <3>1 DEF LinkInv
    <3> QED BY <1>d, <2>3, <2>4, <2>5, <3>1, <3>2
  <2> QED BY <1>a, <2>1, <2>5, LinkStays
\* Handler r receives the request of process p.
<1>4. ASSUME NEW p \in Procs, NEW r \in Reqs, Authenticated(p, r),
             C!Arrive(r, Host, Posted(p)) \/ C!Throttle(r, Host, Posted(p))
      PROVE  LinkInv'
  <2>1. /\ Posting(p) /\ conn[p] = Pending /\ conn' = [conn EXCEPT ![p] = r]
        /\ UNCHANGED <<at, scan, list>>
    BY <1>4 DEF Authenticated, agentVars
  <2>2. pc[r] = "idle" /\ \A q \in Procs : conn[q] # r
    BY <1>4, <1>d DEF C!Arrive, C!Throttle, C!At
  <2>3. ServerMove(r)
    BY <1>4, <1>a, <2>1, PostedBundle DEF ServerMove
  <2>4. \A q \in Reqs \ {r} : pc'[q] = pc[q] /\ body'[q] = body[q]
    BY <1>a, <2>3, MovesAlone
  <2>5. pc'[r] # "idle" /\ body'[r] = Posted(p)
    <3>1. pc \in [C!Workers -> C!Places] /\ body \in [C!Workers -> Bundles \cup {None}]
      BY <1>a DEF ServerInv
    <3>2. r \in C!Workers
      BY DEF C!Workers
    <3>3. body' = [body EXCEPT ![r] = Posted(p)]
      BY <1>4 DEF C!Arrive, C!Throttle
    <3>4. pc' = [pc EXCEPT ![r] = "body"] \/ pc' = [pc EXCEPT ![r] = "answer"]
      BY <1>4 DEF C!Arrive, C!Throttle, C!Goto, C!Answer
    <3> QED BY <3>1, <3>2, <3>3, <3>4
  <2>6. \A q \in Procs : Posting(q)' = Posting(q) /\ Posted(q)' = Posted(q)
    BY <2>1 DEF Posting, Posted
  <2>7. /\ conn' \in [Procs -> Reqs \cup {Pending, Checked, Broken}]
        /\ conn'[p] = r /\ \A q \in Procs \ {p} : conn'[q] = conn[q]
    BY <1>b, <2>1
  <2>8. ASSUME NEW q \in Procs, conn'[q] \in Reqs
        PROVE  Posting(q)' /\ pc'[conn'[q]] # "idle" /\ body'[conn'[q]] = Posted(q)'
    <3>1. CASE q = p
      BY <2>1, <2>5, <2>6, <2>7, <3>1
    <3>2. CASE q # p
      <4>1. conn'[q] = conn[q] /\ conn[q] # r /\ conn[q] \in Reqs
        BY <2>2, <2>7, <2>8, <3>2
      <4> QED BY <1>d, <2>4, <2>6, <4>1
    <3> QED BY <3>1, <3>2
  <2>9. ASSUME NEW q \in Procs, NEW o \in Procs, conn'[q] \in Reqs, conn'[q] = conn'[o]
        PROVE  q = o
    BY <1>a, <2>2, <2>7, <2>9 DEF LinkInv
  <2> QED BY <2>7, <2>8, <2>9 DEF LinkInv
\* Neither moves.
<1>5. ASSUME UNCHANGED <<at, scan, list, pc, body>>,
             UNCHANGED conn \/ \E p \in Procs : conn' = [conn EXCEPT ![p] = Checked]
      PROVE  LinkInv'
  <2>1. conn' \in [Procs -> Reqs \cup {Pending, Checked, Broken}]
    BY <1>5, <1>b
  <2>2. \A q \in Procs : conn'[q] \in Reqs => conn'[q] = conn[q]
    BY <1>5, <1>b, <1>c
  <2>3. ASSUME NEW q \in Procs, conn'[q] \in Reqs
        PROVE  /\ conn'[q] = conn[q]
               /\ at'[q] = at[q] /\ scan'[q] = scan[q] /\ list'[q] = list[q]
               /\ pc'[conn[q]] # "idle" /\ body'[conn[q]] = body[conn[q]]
    BY <1>5, <1>d, <2>2, <2>3
  <2> QED BY <1>a, <2>1, <2>3, LinkStays
<1>6. CASE DaemonCrash
  <2>1. conn' = [q \in Procs |-> IF conn[q] = Pending THEN Pending ELSE Broken]
    BY <1>6 DEF DaemonCrash
  <2>2. /\ conn' \in [Procs -> Reqs \cup {Pending, Checked, Broken}]
        /\ \A q \in Procs : conn'[q] \notin Reqs
    BY <1>c, <2>1
  <2> QED BY <1>a, <2>2, LinkStays
\* Which step is which.
<1>7. ASSUME NEW p \in Procs, A!Step(p) \/ A!StartCycle(p) \/ A!StartTick(p)
                             \/ A!SaveFails(p) \/ A!EnrollFails(p)
      PROVE  conn[p] \notin Reqs /\ QuietMove(p)
  <2>1. ~ Posting(p)
    BY <1>7
       DEF Posting, A!Step, A!StartCycle, A!StartTick, A!SaveFails, A!EnrollFails, A!UseToken,
           A!AskEnroll, A!NoToken, A!SendSpooled, A!FlushDone, A!SaveOpen, A!SaveWrite
  <2> QED BY <1>7, <1>d, <2>1 DEF QuietMove, A!Step
<1>8. ASSUME NEW p \in Procs, StartCycle(p) \/ StartTick(p) \/ AgentStep(p) \/ SpoolFull(p)
      PROVE  LinkInv'
  BY <1>2, <1>7, <1>8 DEF StartCycle, StartTick, AgentStep, SpoolFull
<1>9. ASSUME NEW p \in Procs, EnrollReceived(p) \/ EnrollForbidden(p) \/ EnrollAnswered(p)
      PROVE  LinkInv'
  <2>1. CASE EnrollReceived(p)
    BY <1>5, <2>1 DEF EnrollReceived, agentVars, collectorVars
  <2>2. CASE EnrollForbidden(p)
    BY <1>2, <1>7, <2>2 DEF EnrollForbidden
  <2>3. CASE EnrollAnswered(p)
    <3>1. QuietMove(p)
      BY <2>3 DEF EnrollAnswered, QuietMove
    <3> QED BY <1>2, <2>3, <3>1 DEF EnrollAnswered
  <2> QED BY <1>9, <2>1, <2>2, <2>3
<1>10. ASSUME NEW p \in Procs, AgentCrash(p) \/ ConnectionLost(p) \/ ConnectionBroken(p)
       PROVE  LinkInv'
  <2>1. QuietMove(p) \/ \E c : Told(p, c)
    BY <1>10 DEF AgentCrash, ConnectionLost, ConnectionBroken, Disconnect, Reply, QuietMove, Told
  <2>2. UNCHANGED collectorVars /\ conn' = [conn EXCEPT ![p] = Pending]
    BY <1>10 DEF AgentCrash, ConnectionLost, ConnectionBroken, Disconnect
  <2> QED BY <1>2, <2>1, <2>2
<1>11. ASSUME NEW p \in Procs, ReceiveUnauthorised(p) PROVE LinkInv'
  <2>1. (\E c : Told(p, c)) /\ UNCHANGED <<collectorVars, conn>> /\ conn[p] \notin Reqs
    BY <1>11, <1>c DEF ReceiveUnauthorised, Reply, Told
  <2> QED BY <1>2, <2>1
<1>12. ASSUME NEW p \in Procs, NEW r \in Reqs,
              Receive(p, r) \/ ReceiveThrottled(p, r) \/ Answered(p, r)
              \/ AnsweredFileStays(p, r)
       PROVE  LinkInv'
  <2>1. CASE Receive(p, r) \/ ReceiveThrottled(p, r)
    BY <1>4, <2>1 DEF Receive, ReceiveThrottled
  <2>2. CASE Answered(p, r) \/ AnsweredFileStays(p, r)
    <3>1. /\ \E c : Told(p, c)
          /\ conn[p] = r /\ C!Respond(r) /\ conn' = [conn EXCEPT ![p] = Pending]
      BY <2>2 DEF Answered, AnsweredFileStays, Reply, Told
    <3> QED BY <1>3, <3>1
  <2> QED BY <1>12, <2>1, <2>2
<1>13. ASSUME NEW r \in Reqs, HandlerStep(r) \/ HandlerFault(r) \/ AnswerDropped(r)
       PROVE  LinkInv'
  <2>1. ServerMove(r) /\ UNCHANGED <<agentVars, conn>>
    BY <1>13 DEF HandlerStep, HandlerFault, AnswerDropped, ServerMove
  <2>2. (pc'[r] # "idle" /\ UNCHANGED body) \/ \A q \in Procs : conn[q] # r
    BY <1>13, <1>a, HandlersHold DEF AnswerDropped
  <2> QED BY <1>1, <2>1, <2>2
<1>14. ASSUME EnrollOrphaned \/ Unrevoke \/ Revoke \/ DropEnrollToken \/ UNCHANGED vars
       PROVE  LinkInv'
  BY <1>5, <1>14
     DEF EnrollOrphaned, Unrevoke, Revoke, DropEnrollToken, A!DropEnrollToken, vars,
         agentVars, collectorVars
<1> QED
  BY <1>6, <1>8, <1>9, <1>10, <1>11, <1>12, <1>13, <1>14 DEF Next, Working, Faulty

-----------------------------------------------------------------------------
\* The invariant holds throughout.
LEMMA FleetInvariance == Spec => []FleetInv
<1>1. Init => FleetInv
  <2> SUFFICES ASSUME Init PROVE FleetInv
    OBVIOUS
  <2>1. AgentInv
    <3>1. <<>> \in Seq(Numbers) /\ 0 \in 0..MaxScans
      BY ScansAssumption
    <3> QED BY <3>1 DEF Init, A!Init, AgentInv
  <2>2. ServerInv
    BY DEF Init, C!Init, ServerInv, Remembered, C!Places
  <2>3. LinkInv
    BY ConnAssumption DEF Init, LinkInv
  <2>4. \A r \in Reqs : pc[r] = "idle"
    BY DEF Init, C!Init, C!Workers
  <2>5. SaidInv
    BY <2>4 DEF SaidInv, SaidBy, C!Parsing, C!Retaining
  <2> QED BY <2>1, <2>2, <2>3, <2>5 DEF FleetInv
<1>2. FleetInv /\ [Next]_vars => FleetInv'
  BY NextAgentInv, NextServerSide, NextLinkInv DEF FleetInv
<1> QED BY <1>1, <1>2, PTL DEF Spec

-----------------------------------------------------------------------------
(* What the agent's outcomes say.                                            *)

\* What a quiet step of process p records: a scan it can no longer keep.
LEMMA QuietOutcome ==
  ASSUME NEW p \in Procs, QuietMove(p)
  PROVE  /\ UNCHANGED <<acked, refused, rejected>>
         /\ lost \subseteq lost'
<1> USE DEF A!disk, A!outcome
<1>1. CASE A!UseToken(p) \/ A!AskEnroll(p) \/ A!NoToken(p) \/ A!SendSpooled(p)
           \/ A!FlushDone(p)
  BY <1>1 DEF A!UseToken, A!AskEnroll, A!NoToken, A!SendSpooled, A!FlushDone
<1>2. CASE A!SaveOpen(p) \/ A!SaveWrite(p) \/ A!SaveFails(p) \/ A!Crash(p)
  BY <1>2 DEF A!SaveOpen, A!SaveWrite, A!SaveFails, A!Crash
<1>3. CASE A!StartCycle(p) \/ A!StartTick(p) \/ A!EnrollFails(p) \/ \E t : A!Enrolled(p, t)
  BY <1>3 DEF A!StartCycle, A!StartTick, A!EnrollFails, A!Enrolled
<1> QED BY <1>1, <1>2, <1>3 DEF QuietMove

\* The bundle of a file or of a fresh scan that has been posted.
LEMMA PostedScan ==
  ASSUME NEW p \in Procs
  PROVE  /\ at[p] = "spooled" => Posted(p) = BundleOf(Head(list[p]))
         /\ at[p] = "posted" => Posted(p) = BundleOf(scan[p])
BY DEF Posted

\* AckedWasStored for every number of processes, scans, requests in flight and
\* faults, whatever is retained: when flush_spool or report_scan is told that
\* a bundle is in, and its only copy goes, the collector has stored it
\* (cli/_report.py:184, daemon/fleet.py's ingest).
THEOREM AcksAreTrue == Spec => []AckedWasStored
<1>1. Init => AckedWasStored
  BY DEF Init, A!Init, AckedWasStored
<1>2. FleetInv /\ AckedWasStored /\ [Next]_vars => AckedWasStored'
  <2> SUFFICES ASSUME FleetInv, AckedWasStored, [Next]_vars PROVE AckedWasStored'
    OBVIOUS
  <2>1. ever \subseteq ever'
    BY NextRemembered
  <2>2. ASSUME UNCHANGED acked PROVE AckedWasStored'
    BY <2>1, <2>2 DEF AckedWasStored
  <2>3. ASSUME NEW p \in Procs, NEW c, TrueOf(p, c), Told(p, c) PROVE AckedWasStored'
    <3>1. CASE c # 200
      <4>1. UNCHANGED acked
        BY <2>3, <3>1
           DEF Told, A!SpooledReply, A!PostReply, A!FileStays
      <4> QED BY <2>2, <4>1
    <3>2. CASE c = 200
      <4>1. at[p] # "torn" /\ Posted(p) \in ever
        BY <2>3, <3>2 DEF TrueOf
      <4>2. PICK n : /\ acked' = acked \cup {n} /\ Posted(p) = BundleOf(n)
        <5>1. CASE A!SpooledReply(p, c) \/ A!FileStays(p, c)
          <6>1. at[p] = "spooled" /\ acked' = acked \cup {Head(list[p])}
            BY <3>2, <4>1, <5>1 DEF A!SpooledReply, A!FileStays, A!SpoolPosted
          <6> QED BY <6>1, PostedScan
        <5>2. CASE A!PostReply(p, c)
          <6>1. at[p] = "posted" /\ acked' = acked \cup {scan[p]}
            BY <3>2, <5>2 DEF A!PostReply, A!Refuses, A!PERMANENT_REJECTS
          <6> QED BY <6>1, PostedScan
        <5> QED BY <2>3, <5>1, <5>2 DEF Told
      <4> QED BY <2>1, <4>1, <4>2 DEF AckedWasStored
    <3> QED BY <3>1, <3>2
  <2>4. CASE UNCHANGED agentVars \/ A!DropEnrollToken
    BY <2>2, <2>4 DEF agentVars, A!DropEnrollToken, A!outcome
  <2>5. ASSUME NEW p \in Procs, QuietMove(p) PROVE AckedWasStored'
    BY <2>2, <2>5, QuietOutcome
  <2> QED BY <2>3, <2>4, <2>5, AgentSide
<1> QED BY <1>1, <1>2, FleetInvariance, PTL DEF Spec

\* A scan that is not stored yet is in the spool, with its process, or given up.
LEMMA NextKeptInv ==
  ASSUME FleetInv, KeptInv, [Next]_vars
  PROVE  KeptInv'
<1>a. AgentInv /\ taken \in Nat
  BY ScansAssumption DEF FleetInv, AgentInv
<1>b. ever \subseteq ever'
  BY NextRemembered
\* Files stay, what is given up stays so, other processes keep what they have.
<1>1. ASSUME NEW p \in Procs,
             \A q \in Procs \ {p} : at'[q] = at[q] /\ scan'[q] = scan[q],
             GivenUp \subseteq GivenUp',
             \A n \in ToSet(spool) : n \in ToSet(spool') \cup GivenUp' \/ BundleOf(n) \in ever,
             scan[p] # 0 /\ at[p] # "write" =>
               \/ scan'[p] = scan[p] /\ at'[p] # "write"
               \/ scan[p] \in ToSet(spool') \cup GivenUp'
               \/ BundleOf(scan[p]) \in ever,
             \/ taken' = taken
             \/ taken' = taken + 1 /\ scan'[p] = taken + 1 /\ at'[p] # "write"
      PROVE  KeptInv'
  <2> SUFFICES ASSUME NEW n \in 1..taken'
               PROVE  \/ BundleOf(n) \in ever' \/ n \in ToSet(spool') \cup GivenUp'
                      \/ \E q \in Procs : scan'[q] = n /\ at'[q] # "write"
    BY DEF KeptInv
  <2>1. CASE n \notin 1..taken
    <3>1. n = taken + 1 /\ taken' = taken + 1
      BY <1>1, <1>a, <2>1
    <3>2. scan'[p] = n /\ at'[p] # "write"
      BY <1>1, <1>a, <3>1
    <3> QED BY <3>2
  <2>2. CASE n \in 1..taken
    <3>1. n # 0
      BY <1>a, <2>2
    <3>2. \/ BundleOf(n) \in ever \/ n \in ToSet(spool) \cup GivenUp
          \/ \E q \in Procs : scan[q] = n /\ at[q] # "write"
      BY <2>2 DEF KeptInv
    <3>3. ASSUME NEW q \in Procs, scan[q] = n, at[q] # "write"
          PROVE  \/ BundleOf(n) \in ever' \/ n \in ToSet(spool') \cup GivenUp'
                 \/ \E o \in Procs : scan'[o] = n /\ at'[o] # "write"
      <4>1. CASE q = p
        BY <1>1, <1>b, <3>1, <3>3, <4>1
      <4>2. CASE q # p
        BY <1>1, <3>3, <4>2
      <4> QED BY <4>1, <4>2
    <3> QED BY <1>1, <1>b, <3>2, <3>3
  <2> QED BY <2>1, <2>2
<1>2. ASSUME UNCHANGED agentVars \/ A!DropEnrollToken PROVE KeptInv'
  <2>1. UNCHANGED <<taken, spool, at, scan, rejected, refused, lost>>
    BY <1>2 DEF agentVars, A!DropEnrollToken, A!outcome
  <2> QED BY <1>b, <2>1 DEF KeptInv, GivenUp
<1>3. ASSUME NEW p \in Procs, QuietMove(p) PROVE KeptInv'
  <2>1. \A q \in Procs \ {p} : at'[q] = at[q] /\ scan'[q] = scan[q]
    BY <1>3, <1>a, ProcsAlone
  <2>2. GivenUp \subseteq GivenUp'
    BY <1>3, QuietOutcome DEF GivenUp
  <2>3. DOMAIN at = Procs /\ DOMAIN scan = Procs /\ spool \in Seq(Numbers)
    BY <1>a DEF AgentInv
  <2>4. ASSUME UNCHANGED spool
        PROVE  \A n \in ToSet(spool) : n \in ToSet(spool') \cup GivenUp' \/ BundleOf(n) \in ever
    BY <2>4
  <2> USE DEF A!Goto, A!disk, A!outcome
  <2>5. CASE A!StartCycle(p)
    <3>1. /\ taken' = taken + 1 /\ scan' = [scan EXCEPT ![p] = taken + 1]
          /\ at[p] = "idle" /\ at' = [at EXCEPT ![p] = "token"] /\ UNCHANGED spool
      BY <2>5 DEF A!StartCycle
    <3>2. scan'[p] = taken + 1 /\ at'[p] # "write"
      BY <2>3, <3>1
    <3>3. scan[p] = 0
      BY <1>a, <3>1 DEF AgentInv
    <3> QED BY <1>1, <2>1, <2>2, <2>4, <3>1, <3>2, <3>3
  <2>6. CASE A!SaveOpen(p)
    <3>1. UNCHANGED taken /\ spool' = Append(spool, scan[p]) /\ at[p] = "save"
      BY <2>6 DEF A!SaveOpen
    <3>2. scan[p] \in Numbers
      BY <1>a, <3>1 DEF AgentInv, Numbers
    <3>a. /\ Len(spool') = Len(spool) + 1 /\ spool'[Len(spool) + 1] = scan[p]
          /\ \A i \in 1..Len(spool) : spool'[i] = spool[i]
      BY <2>3, <3>1, <3>2
    <3>b. Len(spool) \in Nat /\ DOMAIN spool' = 1..(Len(spool) + 1)
      BY <2>3, <3>1, <3>2
    <3>3. ToSet(spool) \cup {scan[p]} \subseteq ToSet(spool')
      BY <2>3, <3>1, <3>2, <3>a, <3>b DEF ToSet
    <3> QED BY <1>1, <2>1, <2>2, <3>1, <3>3
  <2>7. CASE A!Crash(p) \/ A!SaveFails(p)
    <3>1. UNCHANGED <<taken, spool>> /\ (scan[p] # 0 => scan[p] \in lost')
      BY <2>7 DEF A!Crash, A!SaveFails
    <3> QED BY <1>1, <2>1, <2>2, <2>4, <3>1 DEF GivenUp
  <2>8. CASE A!SaveWrite(p)
    BY <1>1, <2>1, <2>2, <2>4, <2>8 DEF A!SaveWrite
  <2>9. CASE UNCHANGED <<taken, spool>> /\ (scan[p] # 0 => scan'[p] = scan[p] /\ at'[p] # "write")
    BY <1>1, <2>1, <2>2, <2>4, <2>9
  <2>10. CASE A!NoToken(p) \/ A!EnrollFails(p)
    <3>1. UNCHANGED <<taken, spool>> /\ A!Fail(p)
      BY <2>10 DEF A!NoToken, A!EnrollFails
    <3> QED BY <2>3, <2>9, <3>1 DEF A!Fail
  <2>11. CASE A!FlushDone(p)
    BY <2>3, <2>9, <2>11 DEF A!FlushDone
  <2>12. CASE A!UseToken(p) \/ A!AskEnroll(p) \/ A!StartTick(p) \/ \E t : A!Enrolled(p, t)
    BY <2>3, <2>9, <2>12 DEF A!UseToken, A!AskEnroll, A!StartTick, A!Enrolled
  <2>13. CASE A!SendSpooled(p)
    BY <2>3, <2>9, <2>13 DEF A!SendSpooled
  <2> QED
    BY <1>3, <2>5, <2>6, <2>7, <2>8, <2>10, <2>11, <2>12, <2>13 DEF QuietMove
<1>4. ASSUME NEW p \in Procs, NEW c, TrueOf(p, c), Told(p, c) PROVE KeptInv'
  <2>1. \A q \in Procs \ {p} : at'[q] = at[q] /\ scan'[q] = scan[q]
    BY <1>4, <1>a, ProcsAlone
  <2>2. GivenUp \subseteq GivenUp' /\ UNCHANGED taken
    BY <1>4 DEF GivenUp, Told, A!SpooledReply, A!PostReply, A!FileStays, A!disk
  <2>3. DOMAIN at = Procs /\ DOMAIN scan = Procs /\ spool \in Seq(Numbers)
    BY <1>a DEF AgentInv
  <2>4. CASE A!SpooledReply(p, c) \/ A!FileStays(p, c)
    <3>1. scan' = scan /\ at' = [at EXCEPT ![p] = "flush"] /\ at[p] \in {"spooled", "torn"}
      BY <2>4 DEF A!SpooledReply, A!FileStays, A!Goto, A!SpoolPosted
    <3>2. scan'[p] = scan[p] /\ at'[p] # "write"
      BY <2>3, <3>1
    <3>3. ASSUME NEW n \in ToSet(spool)
          PROVE  n \in ToSet(spool') \cup GivenUp' \/ BundleOf(n) \in ever
      <4>1. CASE UNCHANGED spool
        BY <4>1
      <4>2. CASE A!SpooledReply(p, c) /\ spool' # spool
        <5>1. spool' = A!Unlink(spool, Head(list[p])) /\ (c = 200 \/ c \in A!PERMANENT_REJECTS)
          BY <4>2 DEF A!SpooledReply
        <5>2. CASE n # Head(list[p])
          <6>1. ToSet(spool) \ {Head(list[p])} \subseteq ToSet(A!Unlink(spool, Head(list[p])))
            BY <2>3, UnlinkOne
          <6> QED BY <5>1, <5>2, <6>1
        <5>3. CASE n = Head(list[p]) /\ c = 200
          <6>1. at[p] = "spooled" /\ Posted(p) \in ever
            BY <1>4, <3>1, <5>3 DEF TrueOf
          <6> QED BY <5>3, <6>1, PostedScan
        <5>4. CASE n = Head(list[p]) /\ c \in A!PERMANENT_REJECTS
          <6>1. A!Contains(spool, n)
            BY <2>3 DEF A!Contains, ToSet
          <6>2. rejected' = rejected \cup {n}
            BY <4>2, <5>4, <6>1 DEF A!SpooledReply
          <6> QED BY <6>2 DEF GivenUp
        <5> QED BY <5>1, <5>2, <5>3, <5>4
      <4>3. A!FileStays(p, c) => UNCHANGED spool
        BY DEF A!FileStays, A!disk
      <4> QED BY <2>4, <4>1, <4>2, <4>3
    <3> QED BY <1>1, <2>1, <2>2, <3>2, <3>3
  <2>5. CASE A!PostReply(p, c)
    <3>1. UNCHANGED spool /\ at[p] = "posted"
      BY <2>5 DEF A!PostReply
    <3>2. scan[p] # 0 => \/ scan'[p] = scan[p] /\ at'[p] # "write"
                         \/ scan[p] \in GivenUp' \/ BundleOf(scan[p]) \in ever
      <4>1. CASE c = 200
        BY <1>4, <3>1, <4>1, PostedScan DEF TrueOf
      <4>2. CASE A!Refuses(c)
        BY <1>4, <3>1, <4>2, PostedScan DEF TrueOf, A!Refuses
      <4>3. CASE c # 200 /\ ~ A!Refuses(c)
        <5>1. A!Fail(p) \/ (at' = [at EXCEPT ![p] = "token"] /\ UNCHANGED scan)
          BY <2>5, <4>3 DEF A!PostReply, A!Goto
        <5> QED BY <2>3, <5>1 DEF A!Fail, A!Goto
      <4> QED BY <4>1, <4>2, <4>3
    <3>3. \A n \in ToSet(spool) : n \in ToSet(spool') \cup GivenUp' \/ BundleOf(n) \in ever
      BY <3>1
    <3> QED BY <1>1, <2>1, <2>2, <3>2, <3>3
  <2> QED BY <1>4, <2>4, <2>5 DEF Told
<1> QED BY <1>2, <1>3, <1>4, AgentSide

\* NoBundleLost for every number of processes, scans, requests in flight and
\* faults: "a dumped bundle must never be lost" (cli/_report.py:232).
THEOREM NothingIsLost == Spec => []NoBundleLost
<1>1. Init => KeptInv
  BY DEF Init, A!Init, KeptInv
<1>2. FleetInv /\ KeptInv /\ [Next]_vars => KeptInv'
  BY NextKeptInv
<1>3. KeptInv => NoBundleLost
  BY DEF KeptInv, NoBundleLost, Held
<1> QED BY <1>1, <1>2, <1>3, FleetInvariance, PTL DEF Spec

-----------------------------------------------------------------------------
(* One process: what it reads half-written is what a crash left.  (A second  *)
(* one can read a file the first has still to write, and set it aside.)      *)

OneProcess == \A p, q \in Procs : p = q

TornIsLost ==
  /\ \A n \in partial : n \in lost \/ \E p \in Procs : at[p] = "write" /\ scan[p] = n
  /\ \A p \in Procs : at[p] = "torn" => Head(list[p]) \in lost

\* No process of a host's only one reads a file that is being written.
LEMMA NextTornIsLost ==
  ASSUME OneProcess, FleetInv, TornIsLost, [Next]_vars
  PROVE  TornIsLost' /\ lost \subseteq lost'
<1>a. AgentInv
  BY DEF FleetInv
<1>b. DOMAIN at = Procs /\ DOMAIN scan = Procs /\ DOMAIN list = Procs
  BY <1>a DEF AgentInv
<1>1. ASSUME UNCHANGED agentVars \/ A!DropEnrollToken PROVE TornIsLost' /\ lost \subseteq lost'
  <2>1. UNCHANGED <<partial, at, scan, list, lost>>
    BY <1>1 DEF agentVars, A!DropEnrollToken, A!outcome
  <2> QED BY <2>1 DEF TornIsLost
\* The process does not write, and is not given half a file.
<1>2. ASSUME NEW p \in Procs, lost \subseteq lost', partial' \subseteq partial, at'[p] # "torn",
             at[p] = "write" => scan[p] \notin partial' \/ scan[p] \in lost'
      PROVE  TornIsLost' /\ lost \subseteq lost'
  <2>1. \A q \in Procs : q = p
    BY DEF OneProcess
  <2>2. ASSUME NEW n \in partial' PROVE n \in lost'
    BY <1>2, <2>1, <2>2 DEF TornIsLost
  <2> QED BY <1>2, <2>1, <2>2 DEF TornIsLost
<1>3. ASSUME NEW p \in Procs, QuietMove(p) PROVE TornIsLost' /\ lost \subseteq lost'
  <2>1. lost \subseteq lost'
    BY <1>3, QuietOutcome
  <2> USE <1>b DEF A!Goto, A!disk, A!outcome
  <2>2. CASE A!UseToken(p) \/ A!AskEnroll(p) \/ A!StartCycle(p) \/ A!StartTick(p)
             \/ \E t : A!Enrolled(p, t)
    <3>1. UNCHANGED partial /\ at'[p] # "torn" /\ at[p] # "write"
      BY <2>2 DEF A!UseToken, A!AskEnroll, A!StartCycle, A!StartTick, A!Enrolled
    <3> QED BY <1>2, <2>1, <3>1
  <2>3. CASE A!NoToken(p) \/ A!EnrollFails(p)
    <3>1. UNCHANGED partial /\ at'[p] # "torn" /\ at[p] # "write"
      BY <2>3 DEF A!NoToken, A!EnrollFails, A!Fail, A!Finish
    <3> QED BY <1>2, <2>1, <3>1
  <2>4. CASE A!FlushDone(p)
    <3>1. UNCHANGED partial /\ at'[p] # "torn" /\ at[p] # "write"
      BY <2>4 DEF A!FlushDone, A!Finish
    <3> QED BY <1>2, <2>1, <3>1
  <2>5. CASE A!Crash(p) \/ A!SaveFails(p)
    <3>1. UNCHANGED partial /\ at'[p] # "torn"
      BY <2>5 DEF A!Crash, A!SaveFails, A!Finish
    <3>2. at[p] = "write" => scan[p] \in lost'
      BY <1>a, <2>5 DEF A!Crash, A!SaveFails, AgentInv
    <3> QED BY <1>2, <2>1, <3>1, <3>2
  <2>6. CASE A!SaveWrite(p)
    <3>1. partial' = partial \ {scan[p]} /\ at'[p] # "torn"
      BY <2>6 DEF A!SaveWrite, A!Finish
    <3> QED BY <1>2, <2>1, <3>1
  <2>7. CASE A!SaveOpen(p)
    <3>1. /\ at[p] = "save" /\ partial' = partial \cup {scan[p]}
          /\ at'[p] = "write" /\ scan' = scan
      BY <2>7 DEF A!SaveOpen
    <3>2. \A q \in Procs : q = p
      BY DEF OneProcess
    <3>3. \A n \in partial : n \in lost
      BY <3>1, <3>2 DEF TornIsLost
    <3> QED BY <2>1, <3>1, <3>2, <3>3 DEF TornIsLost
  <2>8. CASE A!SendSpooled(p)
    <3>1. at[p] = "flush" /\ UNCHANGED <<partial, lost>>
      BY <2>8 DEF A!SendSpooled
    <3>2. \A q \in Procs : q = p
      BY DEF OneProcess
    <3>3. \A n \in partial : n \in lost
      BY <3>1, <3>2 DEF TornIsLost
    <3>4. at'[p] = "torn" => Head(list[p]) \in partial /\ list' = list
      BY <2>8, <3>1 DEF A!SendSpooled
    <3> QED BY <3>1, <3>2, <3>3, <3>4 DEF TornIsLost
  <2> QED
    BY <1>3, <2>2, <2>3, <2>4, <2>5, <2>6, <2>7, <2>8 DEF QuietMove
<1>4. ASSUME NEW p \in Procs, NEW c, Told(p, c) PROVE TornIsLost' /\ lost \subseteq lost'
  <2> USE <1>b DEF A!Goto, A!disk
  <2>1. CASE A!SpooledReply(p, c) \/ A!FileStays(p, c)
    <3>1. UNCHANGED <<partial, lost>> /\ at'[p] # "torn" /\ at[p] # "write"
      BY <2>1 DEF A!SpooledReply, A!FileStays, A!SpoolPosted
    <3> QED BY <1>2, <3>1
  <2>2. CASE A!PostReply(p, c)
    <3>1. UNCHANGED <<partial, lost>> /\ at[p] = "posted"
      BY <2>2 DEF A!PostReply
    <3>2. at'[p] # "torn"
      BY <2>2 DEF A!PostReply, A!Fail, A!Finish
    <3> QED BY <1>2, <3>1, <3>2
  <2> QED BY <1>4, <2>1, <2>2 DEF Told
<1> QED BY <1>1, <1>3, <1>4, AgentSide

\* OnlyCrashesGiveUp for a host with one reporting process, and any number of
\* scans, requests in flight and faults: PERMANENT_REJECTS (cli/_report.py)
\* never costs a bundle that was neither stored nor half-written by a process
\* that was killed.
THEOREM GivesUpOnlyForCause ==
  OneProcess => (Spec => []OnlyCrashesGiveUp)
<1> SUFFICES ASSUME OneProcess PROVE Spec => []OnlyCrashesGiveUp
  OBVIOUS
<1>1. Init => TornIsLost /\ OnlyCrashesGiveUp
  BY DEF Init, A!Init, TornIsLost, OnlyCrashesGiveUp, GivenUp
<1>2. FleetInv /\ TornIsLost /\ [Next]_vars => TornIsLost'
  BY NextTornIsLost
<1>3. FleetInv /\ TornIsLost /\ OnlyCrashesGiveUp /\ [Next]_vars => OnlyCrashesGiveUp'
  <2> SUFFICES ASSUME FleetInv, TornIsLost, OnlyCrashesGiveUp, [Next]_vars
               PROVE  OnlyCrashesGiveUp'
    OBVIOUS
  <2>1. ever \subseteq ever' /\ lost \subseteq lost'
    BY NextRemembered, NextTornIsLost
  <2>2. ASSUME NEW n, BundleOf(n) \in ever \/ n \in lost,
               rejected' \cup refused' \subseteq rejected \cup refused \cup {n}
        PROVE  OnlyCrashesGiveUp'
    BY <2>1, <2>2 DEF OnlyCrashesGiveUp, GivenUp
  <2>3. ASSUME rejected' \cup refused' \subseteq rejected \cup refused
        PROVE  OnlyCrashesGiveUp'
    BY <2>1, <2>3 DEF OnlyCrashesGiveUp, GivenUp
  <2>4. CASE UNCHANGED agentVars \/ A!DropEnrollToken
    BY <2>3, <2>4 DEF agentVars, A!DropEnrollToken, A!outcome
  <2>5. ASSUME NEW p \in Procs, QuietMove(p) PROVE OnlyCrashesGiveUp'
    BY <2>3, <2>5, QuietOutcome
  <2>6. ASSUME NEW p \in Procs, NEW c, TrueOf(p, c), Told(p, c) PROVE OnlyCrashesGiveUp'
    <3>1. CASE c \notin A!PERMANENT_REJECTS
      <4>1. UNCHANGED <<rejected, refused>>
        BY <2>6, <3>1
           DEF Told, A!SpooledReply, A!PostReply, A!FileStays, A!disk, A!Refuses
      <4> QED BY <2>3, <4>1
    <3>2. CASE c \in A!PERMANENT_REJECTS /\ A!FileStays(p, c)
      BY <2>3, <3>2 DEF A!FileStays, A!disk
    <3>3. CASE c \in A!PERMANENT_REJECTS /\ A!SpooledReply(p, c)
      <4>1. /\ rejected' \cup refused' \subseteq rejected \cup refused \cup {Head(list[p])}
            /\ at[p] \in {"spooled", "torn"}
        BY <3>3 DEF A!SpooledReply, A!SpoolPosted
      <4>2. BundleOf(Head(list[p])) \in ever \/ Head(list[p]) \in lost
        BY <2>6, <3>3, <4>1, PostedScan DEF TrueOf, TornIsLost
      <4> QED BY <2>2, <4>1, <4>2
    <3>4. CASE c \in A!PERMANENT_REJECTS /\ A!PostReply(p, c)
      <4>1. /\ rejected' \cup refused' \subseteq rejected \cup refused \cup {scan[p]}
            /\ at[p] = "posted"
        BY <3>4 DEF A!PostReply
      <4>2. BundleOf(scan[p]) \in ever
        BY <2>6, <3>4, <4>1, PostedScan DEF TrueOf
      <4> QED BY <2>2, <4>1, <4>2
    <3> QED BY <2>6, <3>1, <3>2, <3>3, <3>4 DEF Told
  <2> QED BY <2>4, <2>5, <2>6, AgentSide
<1> QED BY <1>1, <1>2, <1>3, FleetInvariance, PTL DEF Spec

-----------------------------------------------------------------------------
(* The parts in the whole.                                                   *)

\* Fleet composes Enrollment and Collector without doing anything else to
\* their state: enrolling agents, retries, lost connections and killed
\* processes are steps of the hosts table's specification and of the scans
\* table's, so what EnrollmentProofs, CollectorProofs and HistoryProofs
\* prove holds of the composition.
THEOREM FleetImplementsParts == Spec => E!Spec /\ C!Spec
<1>1. Init => E!Init /\ C!Init
  BY DEF Init
<1>2. FleetInv /\ [Next]_vars => [C!Next]_(C!vars)
  <2> SUFFICES ASSUME FleetInv, [Next]_vars PROVE C!Next \/ UNCHANGED C!vars
    OBVIOUS
  <2>1. CASE UNCHANGED collectorVars
    BY <2>1 DEF collectorVars, C!vars, C!work, C!history
  <2>2. CASE C!CrashRestart
    BY <2>2 DEF C!Next
  <2>3. ASSUME NEW r \in Reqs, ServerMove(r) PROVE C!Next
    <3>1. Fresh \cup {Torn} \subseteq Bundles /\ Host \in Machines
      BY ScansAssumption, ConnAssumption DEF Fresh
    <3>2. ASSUME NEW b \in Fresh \cup {Torn}, C!Arrive(r, Host, b) \/ C!Throttle(r, Host, b)
          PROVE  C!Next
      BY <3>1, <3>2 DEF C!Next
    <3>3. C!Handle(r) => C!Next
      BY DEF C!Next
    <3>4. C!Retain(r) => C!Next
      BY DEF C!Next, C!Workers
    <3> QED BY <2>3, <3>2, <3>3, <3>4 DEF ServerMove, C!Handle, C!Retain
  <2> QED BY <2>1, <2>2, <2>3, ServerSide
<1>3. [Next]_vars => [E!Next]_(E!vars)
  <2> SUFFICES ASSUME [Next]_vars PROVE E!Next \/ UNCHANGED E!vars
    OBVIOUS
  <2>1. ASSUME UNCHANGED enrollVars PROVE UNCHANGED E!vars
    BY <2>1 DEF enrollVars, E!vars, E!auditVars
  <2>2. Host \in Machines
    BY ConnAssumption
  <2>3. ASSUME \/ E!EnrollCheck(Host) \/ E!EnrollRefused(Host) \/ E!RevokeHost(Host)
               \/ E!UnrevokeHost(Host) \/ E!EnrollUpsert \/ E!Crash
        PROVE  E!Next
    BY <2>2, <2>3 DEF E!Next
  <2>4. ASSUME NEW p \in Procs, StartCycle(p) \/ StartTick(p) \/ Working(p)
        PROVE  E!Next \/ UNCHANGED E!vars
    BY <2>1, <2>3, <2>4
       DEF StartCycle, StartTick, Working, AgentStep, EnrollReceived, EnrollForbidden,
           EnrollAnswered, Receive, Authenticated, Answered, ReceiveUnauthorised,
           ConnectionBroken, Disconnect
  <2>5. CASE Faulty
    BY <2>1, <2>3, <2>5
       DEF Faulty, AgentCrash, SpoolFull, ConnectionLost, Disconnect, ReceiveThrottled,
           Authenticated, AnsweredFileStays, HandlerFault, DaemonCrash, Revoke
  <2> QED
    BY <2>1, <2>3, <2>4, <2>5
       DEF Next, vars, HandlerStep, AnswerDropped, EnrollOrphaned, Unrevoke, DropEnrollToken
<1>4. Spec => C!Spec
  BY <1>1, <1>2, FleetInvariance, PTL DEF Spec, C!Spec
<1>5. Spec => E!Spec
  BY <1>1, <1>3, PTL DEF Spec, E!Spec
<1> QED BY <1>4, <1>5

=============================================================================
