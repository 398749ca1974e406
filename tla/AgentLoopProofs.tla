--------------------------- MODULE AgentLoopProofs ---------------------------
(***************************************************************************)
(* Proofs about AgentLoop, for any intervals, burst and backoff, and any   *)
(* number of hosts, tokens and spooled files.                              *)
(*                                                                         *)
(* The bucket: the refill is lazy, so what bounds the accepted requests is *)
(* not the stored level but what it would be if it were refilled now; that *)
(* and the load never exceed the burst together.                           *)
(*                                                                         *)
(* The backoff: a pass that has kept no file has sent all it has listed,   *)
(* so a tick that reports a drained spool leaves none, and as long as the  *)
(* spool holds the last cycle's report `retries` is positive.              *)
(***************************************************************************)
EXTENDS AgentLoop, EnrollmentProofs

LoopTypes ==
  /\ at \in {"sleep", "scan", "token", "enroll", "upsert", "flush", "post", "ended"}
  /\ fresh \in BOOLEAN /\ kept \in BOOLEAN /\ sent \in BOOLEAN /\ owes \in BOOLEAN
  /\ spool \in Nat /\ left \in Nat
  /\ failures \in Nat /\ retries \in Nat
  /\ due \in Nat /\ wait \in Nat

\* A pass has listed the whole spool, and sent what is gone.
PassInv == at = "flush" => left <= spool /\ (~ kept => left = spool)

\* The last cycle's report is retried.
RetryInv == owes /\ spool > 0 => retries > 0

\* A retry is not far away.
SleepInv == at = "sleep" /\ retries > 0 => wait <= MaxBackoff

\* The inductive invariant of the schedule.
LoopInv == LoopTypes /\ PassInv /\ RetryInv /\ SleepInv

\* The inductive invariant of the bucket.
BucketInv ==
  /\ level \in Nat /\ age \in Nat /\ load \in Nat
  /\ load + Refilled <= Full

-----------------------------------------------------------------------------
\* The powers the backoff takes; its exponent is capped at 16.
LEMMA PowerNat == \A k \in 0..16 : 2^k \in Nat
<1>1. /\ 2^0 \in Nat /\ 2^1 \in Nat /\ 2^2 \in Nat /\ 2^3 \in Nat /\ 2^4 \in Nat
      /\ 2^5 \in Nat /\ 2^6 \in Nat /\ 2^7 \in Nat /\ 2^8 \in Nat /\ 2^9 \in Nat
      /\ 2^10 \in Nat /\ 2^11 \in Nat /\ 2^12 \in Nat /\ 2^13 \in Nat
      /\ 2^14 \in Nat /\ 2^15 \in Nat /\ 2^16 \in Nat
  OBVIOUS
<1>2. \A k \in 0..16 : \/ k = 0 \/ k = 1 \/ k = 2 \/ k = 3 \/ k = 4 \/ k = 5 \/ k = 6
                       \/ k = 7 \/ k = 8 \/ k = 9 \/ k = 10 \/ k = 11 \/ k = 12
                       \/ k = 13 \/ k = 14 \/ k = 15 \/ k = 16
  OBVIOUS
<1>3. QED
  BY <1>1, <1>2, Zenon

\* next_delay of a positive count is a delay of at most _MAX_BACKOFF_S.
LEMMA BackoffFacts ==
  ASSUME NEW n \in Nat, n > 0
  PROVE  Backoff(n) \in Nat /\ Backoff(n) <= MaxBackoff
<1> DEFINE k == AtMost(n - 1, 16)
<1>1. k \in 0..16
  BY DEF AtMost
<1>2. 2^k \in Nat
  <2> HIDE DEF k
  <2> QED BY <1>1, PowerNat
<1>3. Minute * 2^k \in Nat
  <2> HIDE DEF k
  <2>1. \A a, b \in Nat : a * b \in Nat
    OBVIOUS
  <2> QED BY <1>2, <2>1, ClockAssumption
<1>4. Backoff(n) = AtMost(Minute * 2^k, MaxBackoff)
  BY DEF Backoff
<1> HIDE DEF k
<1> QED
  <2> DEFINE x == Minute * 2^k
  <2>1. x \in Nat
    BY <1>3
  <2>2. Backoff(n) = AtMost(x, MaxBackoff)
    BY <1>4
  <2> HIDE DEF x
  <2> QED BY <2>1, <2>2, ClockAssumption DEF AtMost

LEMMA NextDelayNat ==
  ASSUME NEW n \in Nat, NEW d \in NextDelay(n)
  PROVE  d \in Nat
<1>1. CASE n > 0
  BY <1>1, BackoffFacts DEF NextDelay
<1>2. CASE n = 0
  BY <1>2, ClockAssumption DEF NextDelay
<1> QED BY <1>1, <1>2

\* The loop sleeps at most until the next scan, and a retry within the bound.
LEMMA SleepFacts ==
  ASSUME NEW d \in Nat, NEW r \in Nat, Sleep(d, r)
  PROVE  at' = "sleep" /\ wait' \in Nat /\ (r > 0 => wait' <= MaxBackoff)
<1>1. CASE r > 0
  BY <1>1, BackoffFacts, ClockAssumption DEF Sleep, AtMost
<1>2. CASE r = 0
  BY <1>2 DEF Sleep
<1> QED BY <1>1, <1>2

\* What the end of a cycle leaves.
LEMMA CycleEndsInv ==
  ASSUME LoopTypes, NEW how, CycleEnds(how), spool' \in Nat
  PROVE  LoopInv'
<1>0. owes' \in BOOLEAN /\ (owes' => how = "spooled")
  BY Zenon DEF CycleEnds
<1>a. failures' \in Nat /\ retries' \in Nat /\ (how = "spooled" => retries' > 0)
  BY ClockAssumption DEF CycleEnds, LoopTypes, AtMost
<1>1. failures' \in Nat /\ retries' \in Nat /\ owes' \in BOOLEAN /\ (owes' => retries' > 0)
  BY <1>0, <1>a, Zenon
<1>2. due' \in Nat
  BY <1>1, NextDelayNat DEF CycleEnds
<1>3. at' = "sleep" /\ wait' \in Nat /\ (retries' > 0 => wait' <= MaxBackoff)
  BY <1>1, <1>2, SleepFacts DEF CycleEnds
<1>4. fresh' = FALSE /\ kept' = FALSE /\ sent' = FALSE /\ left' = 0
  BY DEF CycleEnds, Idle
<1> QED
  BY <1>1, <1>2, <1>3, <1>4 DEF LoopInv, LoopTypes, PassInv, RetryInv, SleepInv

\* What the end of a tick leaves, if `drained` is said of an empty spool only.
LEMMA TickEndsInv ==
  ASSUME LoopTypes, NEW drained \in BOOLEAN, TickEnds(drained),
         spool' = spool, drained => spool = 0
  PROVE  LoopInv'
<1>1. retries' \in Nat /\ (~ drained => retries' > 0)
  BY ClockAssumption DEF TickEnds, LoopTypes, AtMost
<1>2. due' = due /\ failures' = failures /\ owes' = owes
  BY DEF TickEnds
<1>3. at' = "sleep" /\ wait' \in Nat /\ (retries' > 0 => wait' <= MaxBackoff)
  BY <1>1, SleepFacts DEF TickEnds, LoopTypes
<1>4. fresh' = FALSE /\ kept' = FALSE /\ sent' = FALSE /\ left' = 0
  BY DEF TickEnds, Idle
<1>5. LoopTypes'
  BY <1>1, <1>2, <1>3, <1>4 DEF LoopTypes
<1>6. spool' > 0 => retries' > 0
  <2>1. CASE drained
    BY <2>1 DEF LoopTypes
  <2>2. CASE ~ drained
    BY <1>1, <2>2
  <2> QED BY <2>1, <2>2
<1>7. PassInv' /\ RetryInv' /\ SleepInv'
  BY <1>3, <1>6 DEF PassInv, RetryInv, SleepInv
<1> QED
  BY <1>5, <1>7 DEF LoopInv

LEMMA FailInv == LoopTypes /\ Fail => LoopInv'
<1> SUFFICES ASSUME LoopTypes, Fail PROVE LoopInv'
  OBVIOUS
<1>1. ASSUME fresh, spool' = spool + 1, CycleEnds("spooled") PROVE LoopInv'
  BY <1>1, CycleEndsInv DEF LoopTypes
<1>2. ASSUME fresh, spool' = spool, CycleEnds("raised") PROVE LoopInv'
  BY <1>2, CycleEndsInv DEF LoopTypes
<1>3. ASSUME TickEnds(FALSE), spool' = spool PROVE LoopInv'
  BY <1>3, TickEndsInv
<1> QED BY <1>1, <1>2, <1>3 DEF Fail

-----------------------------------------------------------------------------
\* The schedule's invariant holds of a loop that has just started.
LEMMA InitLoopInv == LoopInit => LoopInv
<1> SUFFICES ASSUME LoopInit PROVE LoopInv
  OBVIOUS
<1>1. LoopTypes /\ at = "sleep" /\ owes = FALSE /\ retries = 0
  BY DEF LoopInit, LoopTypes
<1>2. PassInv /\ SleepInv
  BY <1>1 DEF PassInv, SleepInv
<1>3. RetryInv
  BY <1>1, Zenon DEF RetryInv
<1> QED BY <1>1, <1>2, <1>3 DEF LoopInv

\* ... and every step of the agent, the collector and the clock preserves it.
LEMMA NextLoopInv == LoopInv /\ [LoopNext]_allVars => LoopInv'
<1> SUFFICES ASSUME LoopInv, [LoopNext]_allVars PROVE LoopInv'
  OBVIOUS
<1> USE DEF LoopInv, LoopTypes, PassInv, RetryInv, SleepInv, cycle, schedule, bucket
<1>1. CASE Begin
  BY <1>1 DEF Begin
<1>2. CASE Scan
  BY <1>2 DEF Scan
<1>3. CASE ScanRaises
  BY <1>3, CycleEndsInv DEF ScanRaises
<1>4. CASE UseToken
  BY <1>4 DEF UseToken
<1>5. CASE AskEnroll
  BY <1>5 DEF AskEnroll
<1>6. CASE EnrollArrives
  BY <1>6 DEF EnrollArrives
<1>7. CASE EnrollAnswered
  BY <1>7 DEF EnrollAnswered
<1>8. CASE EnrollFails \/ EnrollLost
  BY <1>8, FailInv DEF EnrollFails, EnrollLost
<1>9. CASE SendSpooled
  <2>1. PICK c \in {0, 200, 400, 401, 429, 503} :
          /\ sent' = (sent \/ c = 200)
          /\ \/ spool' = spool - 1 /\ left' = left - 1 /\ UNCHANGED kept
             \/ left' = 0 /\ kept' = TRUE /\ UNCHANGED spool
    BY <1>9 DEF SendSpooled
  <2>2. at = "flush" /\ left > 0 /\ UNCHANGED <<at, fresh, again, tokenFile, schedule, up>>
    BY <1>9 DEF SendSpooled
  <2>3. CASE spool' = spool - 1 /\ left' = left - 1 /\ UNCHANGED kept
    BY <2>1, <2>2, <2>3
  <2>4. CASE left' = 0 /\ kept' = TRUE /\ UNCHANGED spool
    BY <2>1, <2>2, <2>4
  <2> QED BY <2>1, <2>3, <2>4
<1>10. CASE FlushDone
  <2>1. CASE fresh
    <3>1. /\ at' = "post" /\ sent' = FALSE /\ kept' = FALSE
          /\ UNCHANGED <<fresh, left, spool, schedule>>
      BY <1>10, <2>1, Zenon DEF FlushDone
    <3> QED BY <3>1
  <2>2. CASE ~ fresh
    <3>1. TickEnds(~ kept) /\ spool' = spool /\ (~ kept => spool = 0)
      BY <1>10, <2>2 DEF FlushDone
    <3> QED BY <3>1, TickEndsInv
  <2> QED BY <2>1, <2>2
<1>11. CASE Post
  <2>1. CASE \E how \in {"reported", "rejected"} : CycleEnds(how) /\ spool' = spool
    BY <2>1, CycleEndsInv
  <2>2. CASE Fail
    BY <2>2, FailInv
  <2>3. CASE at' = "token" /\ UNCHANGED <<fresh, left, sent, kept, spool, schedule>>
    BY <2>3
  <2> QED BY <1>11, <2>1, <2>2, <2>3 DEF Post
<1>12. CASE Terminate
  BY <1>12 DEF Terminate
<1>13. CASE Pass
  BY <1>13, ClockAssumption DEF Pass, OneLess
<1>14. CASE Down
  <2>1. CASE Fail
    BY <2>1, FailInv
  <2>2. CASE UNCHANGED <<at, cycle, spool, schedule>>
    BY <2>2
  <2> QED BY <1>14, <2>1, <2>2 DEF Down
<1>15. CASE Lost \/ Back
  BY <1>15 DEF Lost, Back
<1>16. CASE Others
  BY <1>16 DEF Others, loopVars
<1>17. CASE UNCHANGED allVars
  BY <1>17 DEF allVars, loopVars
<1> QED
  BY <1>1, <1>2, <1>3, <1>4, <1>5, <1>6, <1>7, <1>8, <1>9, <1>10, <1>11, <1>12,
     <1>13, <1>14, <1>15, <1>16, <1>17 DEF LoopNext, Advance

\* Whatever the intervals: while the last cycle's report is in the spool, the
\* loop of cli/agent.py is never asleep for longer than _MAX_BACKOFF_S.
THEOREM SpoolRetried == LoopSpec => []SpoolOnBackoff
<1>1. LoopInv => SpoolOnBackoff
  BY DEF LoopInv, LoopTypes, RetryInv, SleepInv, SpoolOnBackoff
<1> QED BY <1>1, InitLoopInv, NextLoopInv, PTL DEF LoopSpec

-----------------------------------------------------------------------------
LEMMA FullNat == Full \in Nat
<1>1. \A a, b \in Nat : a * b \in Nat
  OBVIOUS
<1> QED BY <1>1, ClockAssumption DEF Full

\* A step of take: nothing, a refusal or a token spent.
LEMMA TakeInv ==
  ASSUME BucketInv, Accept \/ Refuse \/ UNCHANGED bucket
  PROVE  BucketInv'
BY FullNat, ClockAssumption DEF BucketInv, Accept, Refuse, Refilled, AtMost, bucket, Full

\* Every answer of the ingest endpoint is a step of take.
LEMMA AnswerTakes == \A c : Answer(c) => Accept \/ Refuse \/ UNCHANGED bucket
BY DEF Answer

\* The bucket's invariant is inductive: time repays what take has spent, the
\* cap forgets the rest, and a new daemon process starts afresh.
LEMMA NextBucketInv == BucketInv /\ [LoopNext]_allVars => BucketInv'
<1> SUFFICES ASSUME BucketInv, [LoopNext]_allVars PROVE BucketInv'
  OBVIOUS
<1>1. CASE SendSpooled \/ Post
  <2>1. \E c : Answer(c)
    BY <1>1 DEF SendSpooled, Post
  <2> QED BY <2>1, AnswerTakes, TakeInv
<1>2. CASE Pass
  BY <1>2, FullNat DEF Pass, BucketInv, Refilled, AtMost, OneLess
<1>3. CASE Down
  BY <1>3, FullNat DEF Down, BucketInv, Refilled, AtMost
<1>4. CASE UNCHANGED bucket
  BY <1>4, TakeInv
<1> QED
  BY <1>1, <1>2, <1>3, <1>4
     DEF LoopNext, Advance, Begin, Scan, ScanRaises, UseToken, AskEnroll, EnrollArrives,
         EnrollAnswered, EnrollLost, EnrollFails, FlushDone, Terminate, Lost, Back, Others,
         loopVars, allVars

\* For every burst and interval, no schedule of requests makes _TokenBucket
\* let in more than its burst and one request per interval.
THEOREM BurstNeverExceeded == LoopSpec => []BurstBound
<1>1. LoopInit => BucketInv
  BY FullNat DEF LoopInit, BucketInv, Refilled, AtMost
<1>2. BucketInv => BurstBound
  BY FullNat DEF BucketInv, BurstBound, Refilled, AtMost
<1> QED BY <1>1, <1>2, NextBucketInv, PTL DEF LoopSpec

-----------------------------------------------------------------------------
\* The agent beside the operators does nothing to the hosts table that
\* Enrollment does not allow: every step of the composition is a step of
\* Enrollment or leaves its variables alone.
THEOREM LoopImplementsEnrollment == LoopSpec => Spec
<1>1. LoopInit => Init
  BY DEF LoopInit
<1>2. [LoopNext]_allVars => [Next]_vars
  <2> SUFFICES ASSUME [LoopNext]_allVars PROVE Next \/ UNCHANGED vars
    OBVIOUS
  <2>1. CASE EnrollArrives
    BY <2>1, HostAssumption DEF EnrollArrives, Next
  <2>2. CASE EnrollAnswered \/ EnrollLost
    BY <2>2 DEF EnrollAnswered, EnrollLost, Next
  <2>3. CASE Down
    BY <2>3 DEF Down, Next
  <2>4. CASE Others
    BY <2>4 DEF Others, Next
  <2>5. CASE UNCHANGED vars
    BY <2>5
  <2> QED
    BY <2>1, <2>2, <2>3, <2>4, <2>5
       DEF LoopNext, Advance, Begin, Scan, ScanRaises, UseToken, AskEnroll, EnrollFails,
           SendSpooled, FlushDone, Post, Terminate, Pass, Lost, Back, allVars
<1> QED BY <1>1, <1>2, PTL DEF LoopSpec, Spec

\* So the operators' word stands beside a running agent too, which enrolls
\* again by itself whenever its token is rejected.
THEOREM RevocationHoldsInLoop == LoopSpec => []OperatorWordStands
BY LoopImplementsEnrollment, RevocationHolds, PTL

=============================================================================
