----------------------------- MODULE AgentLoop -----------------------------
(***************************************************************************)
(* The schedule of `pqcscan agent`: the loop of cli/agent.py that scans,   *)
(* reports and, between scans, retries the spool on a backoff, against the *)
(* two gates of the daemon that answer it: the hosts table of Enrollment   *)
(* and the token bucket of daemon/fleet.py.                                *)
(*                                                                         *)
(* Time is counted in units of which Minute make 60 s, the refill interval *)
(* of the bucket and the first step of the backoff.  It passes while the   *)
(* loop sleeps, scans or waits for an answer.  The spool is a number of    *)
(* files: which bundle is where, and files that cannot be read or removed, *)
(* are Agent's.  A request and its answer are one step; ~ up stands for a  *)
(* collector that cannot be reached, is busy, or whose answer is lost.     *)
(***************************************************************************)
EXTENDS Enrollment

CONSTANTS
  Host,         \* the machine whose agent this is
  Minute,       \* units of time in INGEST_MIN_INTERVAL_S and in 60 s
  Burst,        \* INGEST_BURST
  Base,         \* --interval
  Jitter,       \* --jitter
  MaxBackoff,   \* _MAX_BACKOFF_S
  Ladder,       \* bound: failures and retries are counted up to here
  MaxSpool      \* bound: files the disk has room for in the spool

ASSUME HostAssumption == Host \in Machines
ASSUME ClockAssumption ==
  /\ Minute \in Nat \ {0} /\ Burst \in Nat \ {0}
  /\ Base \in Nat \ {0} /\ Jitter \in Nat
  /\ MaxBackoff \in Nat \ {0} /\ Ladder \in Nat \ {0} /\ MaxSpool \in Nat

VARIABLES
  at,           \* "sleep", "scan", "token", "enroll", "upsert", "flush", "post" or "ended"
  fresh,        \* whether this is a scan cycle, and not a flush tick
  again,        \* whether it has already replaced a rejected token
  tokenFile,    \* agent.token, 0 when there is none
  spool,        \* files in spool/
  left,         \* files this flush has still to send
  sent,         \* whether this flush has delivered a file
  kept,         \* whether this flush has kept one
  failures, retries,
  due,          \* next_scan - now, 0 when it has passed
  wait,         \* what is left of the sleep
  up,           \* whether the collector answers
  level, age,   \* the bucket of Host: tokens in units of time, now - then
  \* History, for the properties:
  owes,         \* whether the last cycle spooled its report
  load          \* accepted requests that a steady refill has not paid for

cycle == <<fresh, again, left, sent, kept>>
schedule == <<failures, retries, due, wait, owes>>
bucket == <<level, age, load>>
loopVars == <<at, cycle, tokenFile, spool, schedule, up, bucket>>
allVars == <<vars, loopVars>>

Full == Burst * Minute

AtMost(a, b) == IF a <= b THEN a ELSE b
OneLess(a) == IF a > 0 THEN a - 1 ELSE 0

LoopInit ==
  /\ Init
  /\ at = "sleep" /\ owes = FALSE
  /\ fresh = FALSE /\ again = FALSE /\ sent = FALSE /\ kept = FALSE
  /\ tokenFile = 0 /\ spool = 0 /\ left = 0
  /\ failures = 0 /\ retries = 0 /\ due = 0 /\ wait = 0
  /\ up = TRUE
  /\ level = Full /\ age = 0 /\ load = 0

-----------------------------------------------------------------------------
\* next_delay for failures > 0: 60 s, doubled for each further failure, up to
\* _MAX_BACKOFF_S; the exponent is capped before the power is taken.
Backoff(n) == AtMost(Minute * 2 ^ AtMost(n - 1, 16), MaxBackoff)

\* next_delay: the backoff, or the interval and a random part of the jitter.
NextDelay(n) == IF n > 0 THEN {Backoff(n)} ELSE {Base + j : j \in 0..Jitter}

\* The end of the loop's body: sleep until the next scan, or the next retry of
\* the spool if that comes first.
Sleep(d, r) ==
  /\ wait' = IF r > 0 THEN AtMost(d, Backoff(r)) ELSE d
  /\ at' = "sleep"

\* What a cycle or tick remembered is dropped.
Idle ==
  /\ fresh' = FALSE /\ again' = FALSE /\ sent' = FALSE /\ kept' = FALSE
  /\ left' = 0

\* What the loop does with a cycle that was reported, spooled or rejected for
\* good, or that raised.
CycleEnds(how) ==
  /\ owes' = (how = "spooled")
  /\ failures' = IF how = "raised" THEN AtMost(failures + 1, Ladder) ELSE 0
  /\ retries' = IF how = "spooled" THEN 1 ELSE 0
  /\ due' \in NextDelay(failures')
  /\ Sleep(due', retries')
  /\ Idle

\* Mutated: the next scan is put off from a flush tick as well.
TickEndsReschedules(drained) ==
  /\ retries' = IF drained THEN 0 ELSE IF sent THEN 1 ELSE AtMost(retries + 1, Ladder)
  /\ due' \in NextDelay(failures)
  /\ Sleep(due', retries')
  /\ Idle
  /\ UNCHANGED <<failures, owes>>

\* Mutated: a tick that made progress is taken for one that drained the spool.
TickEndsContent(drained) ==
  /\ retries' = IF drained \/ sent THEN 0 ELSE AtMost(retries + 1, Ladder)
  /\ Sleep(due, retries')
  /\ Idle
  /\ UNCHANGED <<failures, due, owes>>

\* ... and with a flush tick: a spool that drained needs no retry, progress
\* restarts the ladder, and anything else climbs it.
TickEnds(drained) ==
  /\ retries' = IF drained THEN 0 ELSE IF sent THEN 1 ELSE AtMost(retries + 1, Ladder)
  /\ Sleep(due, retries')
  /\ Idle
  /\ UNCHANGED <<failures, due, owes>>

\* An error other than a permanent rejection of the fresh bundle: report_scan
\* spools the bundle, or raises if the disk has no room for it; flush_only says
\* that the spool has not drained.
Fail ==
  \/ /\ fresh
     /\ spool < MaxSpool
     /\ spool' = spool + 1
     /\ CycleEnds("spooled")
  \/ /\ fresh
     /\ spool = MaxSpool
     /\ CycleEnds("raised")
     /\ UNCHANGED spool
  \/ /\ ~ fresh
     /\ TickEnds(FALSE)
     /\ UNCHANGED spool

\* SIGTERM sets `stop` and wakes the sleep; one that comes during a cycle or a
\* tick is seen at the head of the loop.
Terminate ==
  /\ at = "sleep"
  /\ at' = "ended"
  /\ UNCHANGED <<vars, cycle, tokenFile, spool, schedule, up, bucket>>

\* The head of the loop: scan if it is time to, else retry the spool.
Begin ==
  /\ at = "sleep" /\ wait = 0
  /\ fresh' = (due = 0)
  /\ at' = IF due = 0 THEN "scan" ELSE "token"
  /\ UNCHANGED <<vars, again, left, sent, kept, tokenFile, spool, schedule, up, bucket>>

\* run_local_scan, and a scan or a spool directory that raises.
Scan ==
  /\ at = "scan"
  /\ at' = "token"
  /\ UNCHANGED <<vars, cycle, tokenFile, spool, schedule, up, bucket>>

ScanRaises ==
  /\ at = "scan"
  /\ CycleEnds("raised")
  /\ UNCHANGED <<vars, tokenFile, spool, up, bucket>>

\* ensure_agent_token with a token on file; flush_spool lists the spool.
UseToken ==
  /\ at = "token" /\ tokenFile # 0
  /\ at' = "flush"
  /\ left' = spool
  /\ UNCHANGED <<vars, fresh, again, sent, kept, tokenFile, spool, schedule, up, bucket>>

AskEnroll ==
  /\ at = "token" /\ tokenFile = 0
  /\ at' = "enroll"
  /\ UNCHANGED <<vars, cycle, tokenFile, spool, schedule, up, bucket>>

\* The enroll request: the handler's check, then its upsert, whose answer is
\* the token; a revoked host is refused with 403, which is not permanent here.
\* So is every host once the bound on tokens is reached.
EnrollArrives ==
  /\ at = "enroll" /\ up
  /\ EnrollCheck(Host)
  /\ at' = "upsert"
  /\ UNCHANGED <<cycle, tokenFile, spool, schedule, up, bucket>>

EnrollAnswered ==
  /\ at = "upsert" /\ up
  /\ EnrollUpsert
  /\ tokenFile' = token'[Host]
  /\ at' = "flush"
  /\ left' = spool
  /\ UNCHANGED <<fresh, again, sent, kept, spool, schedule, up, bucket>>

\* ... or the answer is lost, and the token in the row with it.
EnrollLost ==
  /\ at = "upsert" /\ ~ up
  /\ EnrollUpsert
  /\ Fail
  /\ UNCHANGED <<tokenFile, up, bucket>>

EnrollFails ==
  /\ at = "enroll"
  /\ ~ up \/ EnrollRefused(Host) \/ (LoopFree /\ minted = MaxTokens)
  /\ Fail
  /\ UNCHANGED <<vars, tokenFile, up, bucket>>

-----------------------------------------------------------------------------
\* _TokenBucket.take: refill for the time since the last call, up to Burst.
Refilled == AtMost(level + age, Full)

\* Mutated: a refusal stores the refill and keeps the old time stamp.
RefuseAgain ==
  /\ Refilled < Minute
  /\ level' = Refilled
  /\ UNCHANGED <<age, load>>

Refuse ==
  /\ Refilled < Minute
  /\ level' = Refilled /\ age' = 0
  /\ UNCHANGED load

Accept ==
  /\ Refilled >= Minute
  /\ level' = Refilled - Minute /\ age' = 0
  /\ load' = load + Minute

\* POST /api/ingest with the token on file, and its status.  The bearer is
\* looked up before the bucket is asked, and every later outcome has spent a
\* token.  0 also stands for an answer that is lost and 503 for a busy store.
Answer(c) ==
  \/ c = 0 /\ ~ up /\ UNCHANGED bucket
  \/ c \in {0, 503} /\ ~ up /\ Authenticates(tokenFile, Host) /\ Accept
  \/ c = 0 /\ ~ up /\ Authenticates(tokenFile, Host) /\ Refuse
  \/ c = 401 /\ up /\ Unauthorised(tokenFile) /\ UNCHANGED bucket
  \/ c = 429 /\ up /\ Authenticates(tokenFile, Host) /\ Refuse
  \/ c \in {200, 400} /\ up /\ Authenticates(tokenFile, Host) /\ Accept

\* flush_spool: one file.  A delivered one is removed, a permanently rejected
\* one moved away; any other answer keeps it and stops the pass.
SendSpooled ==
  /\ at = "flush" /\ left > 0
  /\ \E c \in {0, 200, 400, 401, 429, 503} :
       /\ Answer(c)
       /\ sent' = (sent \/ c = 200)
       /\ \/ /\ c \in {200, 400}
             /\ spool' = spool - 1 /\ left' = left - 1
             /\ UNCHANGED kept
          \/ /\ c \notin {200, 400}
             /\ left' = 0 /\ kept' = TRUE
             /\ UNCHANGED spool
  /\ UNCHANGED <<vars, at, fresh, again, tokenFile, schedule, up>>

\* The pass is over.  A cycle posts its bundle whatever the pass did.
FlushDone ==
  /\ at = "flush" /\ left = 0
  /\ \/ /\ fresh
        /\ at' = "post"
        /\ UNCHANGED <<fresh, again, left, schedule>>
        /\ sent' = FALSE /\ kept' = FALSE
     \/ /\ ~ fresh
        /\ TickEnds(~ kept)
  /\ UNCHANGED <<vars, tokenFile, spool, up, bucket>>

\* Mutated: a rejected token is never replaced.
ReplacesNone(c) == FALSE

\* Only a rejected token is replaced, and only once in a cycle.
Replaces(c) == c = 401 /\ ~ again

\* The fresh bundle.  A rejected token is replaced once, through all of send().
Post ==
  /\ at = "post"
  /\ \E c \in {0, 200, 400, 401, 429, 503} :
       /\ Answer(c)
       /\ \/ c = 200 /\ CycleEnds("reported") /\ UNCHANGED <<tokenFile, spool>>
          \/ c = 400 /\ CycleEnds("rejected") /\ UNCHANGED <<tokenFile, spool>>
          \/ /\ Replaces(c)
             /\ tokenFile' = 0 /\ again' = TRUE
             /\ at' = "token"
             /\ UNCHANGED <<fresh, left, sent, kept, spool, schedule>>
          \/ /\ c \in {0, 401, 429, 503} /\ ~ Replaces(c)
             /\ Fail
             /\ UNCHANGED tokenFile
  /\ UNCHANGED <<vars, up>>

-----------------------------------------------------------------------------
\* A unit of time passes; the sleep does not outlast its timer.
Pass ==
  /\ at # "ended"
  /\ at = "sleep" => wait > 0
  /\ due' = OneLess(due)
  /\ wait' = OneLess(wait)
  /\ age' = AtMost(age + 1, Full)
  /\ load' = OneLess(load)
  /\ UNCHANGED <<vars, at, cycle, tokenFile, spool, failures, retries, owes, up, level>>

\* The collector's process dies, with the request it was enrolling and its
\* buckets; later it, or the network, is back.
Down ==
  /\ up /\ up' = FALSE
  /\ Crash
  /\ level' = Full /\ age' = 0 /\ load' = 0
  /\ \/ at = "upsert" /\ Fail
     \/ at # "upsert" /\ UNCHANGED <<at, cycle, spool, schedule>>
  /\ UNCHANGED tokenFile

Lost ==
  /\ up /\ up' = FALSE
  /\ UNCHANGED <<vars, at, cycle, tokenFile, spool, schedule, bucket>>

Back ==
  /\ ~ up /\ up' = TRUE
  /\ UNCHANGED <<vars, at, cycle, tokenFile, spool, schedule, bucket>>

\* Operators, and enrollments of other machines or of another process of Host.
Others ==
  /\ \/ \E m \in Machines : EnrollCheck(m) \/ RevokeHost(m) \/ UnrevokeHost(m)
     \/ at # "upsert" /\ EnrollUpsert
  /\ UNCHANGED loopVars

\* The steps of the agent's own process.
Advance ==
  \/ Begin \/ Scan \/ ScanRaises \/ UseToken \/ AskEnroll
  \/ EnrollArrives \/ EnrollAnswered \/ EnrollLost \/ EnrollFails
  \/ SendSpooled \/ FlushDone \/ Post

LoopNext == Advance \/ Terminate \/ Pass \/ Down \/ Lost \/ Back \/ Others

\* The process is scheduled and the clock runs.  A request waits for the event
\* loop, which other enrollments hold now and then, hence strong fairness.
LoopSpec ==
  /\ LoopInit /\ [][LoopNext]_allVars
  /\ SF_allVars(Advance)
  /\ WF_allVars(Pass)
  /\ WF_allVars(at # "upsert" /\ EnrollUpsert /\ UNCHANGED loopVars)

-----------------------------------------------------------------------------
\* However the host spends its requests, waits and comes back, in no stretch
\* of t seconds does one daemon process let in more than INGEST_BURST bundles
\* and one for every INGEST_MIN_INTERVAL_S of it (_TokenBucket's docstring).
BurstBound == load <= Full

\* While the last cycle's report waits in the spool, the loop sleeps no longer
\* than _MAX_BACKOFF_S before the spool is tried again.
SpoolOnBackoff ==
  at = "sleep" /\ spool > 0 /\ owes => wait <= MaxBackoff

\* Scans recur whatever the collector does and however often a scan raises:
\* flush ticks, which a dead collector keeps going, never put a scan off.
ScansRecur == []<>(at \in {"scan", "ended"})

\* Once the collector stays up, the host approved (with a token, or the bound
\* on tokens leaving it one) and scans do not raise, the spool empties again
\* and again, although a flush tick never replaces a rejected token, a cycle's
\* flush may be throttled, and no tick follows a cycle that was reported.
Served ==
  /\ up
  /\ Host \notin revoked
  /\ minted < MaxTokens \/ Host \in HostOf(tokenFile)

SpoolEmpties ==
  <>[]Served /\ <>[][~ ScanRaises]_allVars => []<>(spool = 0 \/ at = "ended")

=============================================================================
