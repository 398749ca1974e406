-------------------------------- MODULE Agent --------------------------------
(***************************************************************************)
(* The reporting side of a host: report_scan, flush_spool and flush_only   *)
(* of cli/_report.py and cli/agent.py.  Each process of Procs (the agent   *)
(* loop, a cron `agent --once`, a `scan --report-to`) runs one cycle or    *)
(* one flush tick at a time; all share the state directory: the token file *)
(* and the spool.                                                          *)
(*                                                                         *)
(* The n-th scan taken on the host is the number n.  A request in flight   *)
(* is a process waiting at "enrolling", "spooled", "torn" or "posted"; the *)
(* module says what the process does with an answer, Fleet where answers   *)
(* come from.  Status 0 is a lost connection, a timeout or a garbled       *)
(* reply.                                                                  *)
(***************************************************************************)
EXTENDS Integers, Sequences, SequencesExt

CONSTANTS
  Procs,            \* processes that report from this host
  MaxScans          \* bound: scans taken

VARIABLES
  taken,        \* number of scans taken so far
  spool,        \* files of spool/ in name order, which is creation order
  partial,      \* scans whose spool file is created and not yet written
  rejected,     \* files of spool/rejected/
  tokenFile,    \* agent.token, 0 when there is none
  hasEnroll,    \* whether processes are still run with --enroll-token
  at,           \* what each process is doing
  scan,         \* the scan it reports, 0 on a flush tick
  list,         \* spool files its flush has still to send
  hand,         \* the token it sends
  again,        \* whether it has already replaced a rejected token
  \* History, for the properties:
  acked,        \* scans answered with success
  refused,      \* fresh scans the collector refused for good
  lost          \* scans a crash or a full disk took

disk == <<spool, partial, rejected, tokenFile, hasEnroll>>
outcome == <<acked, refused, lost>>
vars == <<taken, disk, at, scan, list, hand, again, outcome>>

PERMANENT_REJECTS == {400, 403, 413}

\* flush_spool gives up the pass: server down, throttling, token rejected.
StopsPass(c) == c \in {0, 401, 429} \/ c >= 500

Init ==
  /\ taken = 0
  /\ spool = <<>>
  /\ partial = {}
  /\ rejected = {}
  /\ tokenFile = 0
  /\ hasEnroll = TRUE
  /\ at = [p \in Procs |-> "idle"]
  /\ scan = [p \in Procs |-> 0]
  /\ list = [p \in Procs |-> <<>>]
  /\ hand = [p \in Procs |-> 0]
  /\ again = [p \in Procs |-> FALSE]
  /\ acked = {}
  /\ refused = {}
  /\ lost = {}

Goto(p, there) == at' = [at EXCEPT ![p] = there]

\* The end of a cycle or tick.
Finish(p) ==
  /\ Goto(p, "idle")
  /\ scan' = [scan EXCEPT ![p] = 0]
  /\ list' = [list EXCEPT ![p] = <<>>]
  /\ hand' = [hand EXCEPT ![p] = 0]
  /\ again' = [again EXCEPT ![p] = FALSE]

\* Any error other than a permanent rejection: a fresh bundle is spooled, a
\* tick just ends.
Fail(p) ==
  IF scan[p] = 0
  THEN Finish(p)
  ELSE Goto(p, "save") /\ UNCHANGED <<scan, list, hand, again>>

-----------------------------------------------------------------------------
\* agent_cycle or scan --report-to: scan, dump the bundle, start to send.
StartCycle(p) ==
  /\ at[p] = "idle"
  /\ taken < MaxScans
  /\ taken' = taken + 1
  /\ scan' = [scan EXCEPT ![p] = taken + 1]
  /\ Goto(p, "token")
  /\ UNCHANGED <<disk, list, hand, again, outcome>>

\* flush_only: the loop retries the spool between scans.
StartTick(p) ==
  /\ at[p] = "idle"
  /\ spool # <<>>
  /\ Goto(p, "token")
  /\ UNCHANGED <<taken, disk, scan, list, hand, again, outcome>>

\* ensure_agent_token, when the file holds one; flush_spool then lists the
\* spool.
UseToken(p) ==
  /\ at[p] = "token"
  /\ tokenFile # 0
  /\ hand' = [hand EXCEPT ![p] = tokenFile]
  /\ list' = [list EXCEPT ![p] = spool]
  /\ Goto(p, "flush")
  /\ UNCHANGED <<taken, disk, scan, again, outcome>>

\* ... and when it does not: enroll, or give up without --enroll-token.
AskEnroll(p) ==
  /\ at[p] = "token"
  /\ tokenFile = 0
  /\ hasEnroll
  /\ Goto(p, "enrolling")
  /\ UNCHANGED <<taken, disk, scan, list, hand, again, outcome>>

NoToken(p) ==
  /\ at[p] = "token"
  /\ tokenFile = 0
  /\ ~ hasEnroll
  /\ Fail(p)
  /\ UNCHANGED <<taken, disk, outcome>>

Enrolled(p, t) ==
  /\ at[p] = "enrolling"
  /\ tokenFile' = t
  /\ hand' = [hand EXCEPT ![p] = t]
  /\ list' = [list EXCEPT ![p] = spool]
  /\ Goto(p, "flush")
  /\ UNCHANGED <<taken, spool, partial, rejected, hasEnroll, scan, again, outcome>>

\* Enroll-time errors never count as permanent, whatever their status.
EnrollFails(p) ==
  /\ at[p] = "enrolling"
  /\ Fail(p)
  /\ UNCHANGED <<taken, disk, outcome>>

-----------------------------------------------------------------------------
\* flush_spool: read and post the next file of the listing, if it is still
\* there.  A file another process is still writing is read as it is.
SendSpooled(p) ==
  /\ at[p] = "flush"
  /\ list[p] # <<>>
  /\ IF Contains(spool, Head(list[p]))
     THEN /\ Goto(p, IF Head(list[p]) \in partial THEN "torn" ELSE "spooled")
          /\ UNCHANGED list
     ELSE UNCHANGED at /\ list' = [list EXCEPT ![p] = Tail(@)]
  /\ UNCHANGED <<taken, disk, scan, hand, again, outcome>>

SpoolPosted(p) == at[p] \in {"spooled", "torn"}

\* The directory without the file of scan n, if another process has left it.
Unlink(files, n) ==
  IF Contains(files, n)
  THEN RemoveAt(files, CHOOSE i \in 1..Len(files) : files[i] = n)
  ELSE files

\* Mutated: the file is removed whatever the answer.
SpooledReplyDrops(p, c) ==
  /\ SpoolPosted(p)
  /\ spool' = Unlink(spool, Head(list[p]))
  /\ acked' = IF c = 200 THEN acked \cup {Head(list[p])} ELSE acked
  /\ list' = [list EXCEPT ![p] = IF StopsPass(c) THEN <<>> ELSE Tail(@)]
  /\ Goto(p, "flush")
  /\ UNCHANGED <<taken, partial, rejected, tokenFile, hasEnroll, scan, hand, again, refused, lost>>

\* Mutated: a sent file is left in the spool.
SpooledReplyKeeps(p, c) ==
  /\ SpoolPosted(p)
  /\ acked' = IF c = 200 THEN acked \cup {Head(list[p])} ELSE acked
  /\ list' = [list EXCEPT ![p] = IF StopsPass(c) THEN <<>> ELSE Tail(@)]
  /\ Goto(p, "flush")
  /\ UNCHANGED <<taken, disk, scan, hand, again, refused, lost>>

\* The answer to a spooled bundle: sent files are removed, permanently
\* rejected ones moved aside, anything else stays where it is.
SpooledReply(p, c) ==
  LET n == Head(list[p])
  IN  /\ SpoolPosted(p)
      /\ spool' = IF c = 200 \/ c \in PERMANENT_REJECTS THEN Unlink(spool, n) ELSE spool
      /\ acked' = IF c = 200 THEN acked \cup {n} ELSE acked
      /\ rejected' = IF c \in PERMANENT_REJECTS /\ Contains(spool, n)
                     THEN rejected \cup {n} ELSE rejected
      /\ list' = [list EXCEPT ![p] = IF StopsPass(c) THEN <<>> ELSE Tail(@)]
      /\ Goto(p, "flush")
      /\ UNCHANGED <<taken, partial, tokenFile, hasEnroll, scan, hand, again, refused, lost>>

\* Sent, or rejected for good, but the file can be neither removed nor moved:
\* it will be sent again.
FileStays(p, c) ==
  /\ SpoolPosted(p)
  /\ c = 200 \/ c \in PERMANENT_REJECTS
  /\ acked' = IF c = 200 THEN acked \cup {Head(list[p])} ELSE acked
  /\ list' = [list EXCEPT ![p] = Tail(@)]
  /\ Goto(p, "flush")
  /\ UNCHANGED <<taken, disk, scan, hand, again, refused, lost>>

\* The flush is over, drained or not: its result is not looked at.  A tick
\* ends; a cycle posts the fresh bundle.
FlushDone(p) ==
  /\ at[p] = "flush"
  /\ list[p] = <<>>
  /\ IF scan[p] = 0
     THEN Finish(p)
     ELSE Goto(p, "posted") /\ UNCHANGED <<scan, list, hand, again>>
  /\ UNCHANGED <<taken, disk, outcome>>

\* Mutated: a status of 500 or more is taken for a permanent rejection.
RefusesMore(c) == c \in PERMANENT_REJECTS \/ c >= 500

Refuses(c) == c \in PERMANENT_REJECTS

\* The answer to the fresh bundle.  A rejected token is replaced once, by
\* deleting the file and going through the whole of send() again.
PostReply(p, c) ==
  /\ at[p] = "posted"
  /\ \/ /\ c = 200
        /\ acked' = acked \cup {scan[p]}
        /\ Finish(p)
        /\ UNCHANGED <<tokenFile, refused>>
     \/ /\ Refuses(c)
        /\ refused' = refused \cup {scan[p]}
        /\ Finish(p)
        /\ UNCHANGED <<tokenFile, acked>>
     \/ /\ c = 401 /\ hasEnroll /\ ~ again[p]
        /\ tokenFile' = 0
        /\ again' = [again EXCEPT ![p] = TRUE]
        /\ Goto(p, "token")
        /\ UNCHANGED <<scan, list, hand, acked, refused>>
     \/ /\ c # 200 /\ ~ Refuses(c)
        /\ c = 401 => ~ hasEnroll \/ again[p]
        /\ Fail(p)
        /\ UNCHANGED <<tokenFile, acked, refused>>
  /\ UNCHANGED <<taken, spool, partial, rejected, hasEnroll, lost>>

-----------------------------------------------------------------------------
\* spool_bundle creates the file under its final name and then writes it.
SaveOpen(p) ==
  /\ at[p] = "save"
  /\ spool' = Append(spool, scan[p])
  /\ partial' = partial \cup {scan[p]}
  /\ Goto(p, "write")
  /\ UNCHANGED <<taken, rejected, tokenFile, hasEnroll, scan, list, hand, again, outcome>>

SaveWrite(p) ==
  /\ at[p] = "write"
  /\ partial' = partial \ {scan[p]}
  /\ Finish(p)
  /\ UNCHANGED <<taken, spool, rejected, tokenFile, hasEnroll, outcome>>

\* The spool cannot be written: report_scan raises, the bundle is gone.
SaveFails(p) ==
  /\ at[p] = "save"
  /\ lost' = lost \cup {scan[p]}
  /\ Finish(p)
  /\ UNCHANGED <<taken, disk, acked, refused>>

\* The process is killed: what it held in memory is gone, files stay.
Crash(p) ==
  /\ at[p] # "idle"
  /\ lost' = lost \cup ({scan[p]} \ {0})
  /\ Finish(p)
  /\ UNCHANGED <<taken, disk, acked, refused>>

\* "the enroll token can be dropped from the host after the first run"
\* (docs/FLEET.md).
DropEnrollToken ==
  /\ hasEnroll
  /\ tokenFile # 0
  /\ hasEnroll' = FALSE
  /\ UNCHANGED <<taken, spool, partial, rejected, tokenFile, at, scan, list,
                 hand, again, outcome>>

\* Steps a process takes on its own.
Step(p) ==
  \/ UseToken(p) \/ AskEnroll(p) \/ NoToken(p) \/ SendSpooled(p) \/ FlushDone(p)
  \/ SaveOpen(p) \/ SaveWrite(p)

=============================================================================
