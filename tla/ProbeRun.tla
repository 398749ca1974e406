------------------------------ MODULE ProbeRun ------------------------------
(***************************************************************************)
(* One probe under the runner (runner.py, _run_one).  The runner checks    *)
(* the capabilities it requires, asks whether it applies, and then runs    *)
(* it: run() works through its items, the world answers, fails or stays    *)
(* silent, and the runner cancels it after per_probe_timeout_s.  `spent'   *)
(* counts the time that the probe's own timeouts have used up, so that the *)
(* race between them and the runner's is in the model.  A run that raises  *)
(* or is cancelled leaves an error row.  Programs say what each probe      *)
(* does; this module runs any of them.                                     *)
(***************************************************************************)
EXTENDS Programs, FiniteSets

CONSTANTS
  Catalog,   \* the programs, by the probe's name
  Limit      \* seconds a run may take: per_probe_timeout_s

ASSUME LimitAssumption == Limit \in Nat \ {0}

Names == DOMAIN Catalog

ASSUME CatalogAssumption == \A n \in Names : WellFormed(Catalog[n])

Outcomes == {"running", "skipped", "returned", "raised", "cancelled"}

VARIABLES
  probe,     \* the probe that runs
  total,     \* how many items it finds
  item,      \* 0 before run() is called, then the item it is at
  turn,      \* 0 while it opens the item, then the turn it is in
  open,      \* <<item, resource>> it has opened and not closed
  said,      \* <<item, finding>> emitted; item 0 is the closing summary
  met,       \* items that accepted a connection or gave an answer
  last,      \* the last answer, by the turn it came in, where P.keeps
  counted,   \* items remembered for the summary
  spent,     \* seconds used up by waiting
  outcome

vars == <<probe, total, item, turn, open, said, met, last, counted, spent, outcome>>

\* No answer yet.
Silence == << >>

P == Catalog[probe]
Now == P.turns[turn]

Init ==
  /\ probe \in Names
  /\ total \in P.items
  /\ item = 0
  /\ turn = 0
  /\ open = {}
  /\ said = {}
  /\ met = {}
  /\ last = Silence
  /\ counted = {}
  /\ spent = 0
  /\ outcome = "running"

\* The row that record_probe_error stores.  Item 0 is the run itself.
ErrorRow == <<0, ProbeError>>

Awaits == outcome = "running" /\ item \in 1..total

\* Closing the item by one of the ways out.
Close(way) == open' = {o \in open : o[1] # item} \union ({item} \X P.leaves[way])

Say(fs, ends) ==
  said' = said \union ({item} \X fs) \union (IF ends = "raise" THEN {ErrorRow} ELSE {})

NextItem == item' = item + 1 /\ turn' = 0

\* Mutated: the loop does not go on to the next item.
FollowStays(j, way) ==
  /\ j.next # "never"
  /\ Say(j.says, "stop")
  /\ UNCHANGED counted
  /\ \/ j.next = "on" /\ turn' = turn + 1 /\ UNCHANGED <<item, open, outcome>>
     \/ j.next # "on" /\ Close(way) /\ turn' = 0 /\ UNCHANGED <<item, outcome>>

\* What a judgement leads to; `way' tells a timeout from other ways out.
Follow(j, way) ==
  /\ j.next # "never"
  /\ Say(j.says, j.next)
  /\ counted' = IF j.next = "count" THEN counted \union {item} ELSE counted
  /\ \/ /\ j.next \in {"stop", "count"}
        /\ Close(way) /\ NextItem /\ UNCHANGED outcome
     \/ /\ j.next = "on"
        /\ turn' = turn + 1 /\ UNCHANGED <<item, open, outcome>>
     \/ /\ j.next = "halt"
        /\ Close(way) /\ outcome' = "returned" /\ UNCHANGED <<item, turn>>
     \/ /\ j.next = "raise"
        /\ Close("raise") /\ outcome' = "raised" /\ UNCHANGED <<item, turn>>

\* Mutated: no wait_for around run().
WaitForever(t) == spent' = spent + t

\* Waiting t seconds, which the runner allows.
Wait(t) == spent + t < Limit /\ spent' = spent + t

-----------------------------------------------------------------------------
(* Before run() *)

Asked == outcome = "running" /\ item = 0

\* A capability that the probe requires is missing, which leaves a note, or
\* applies() answers no.
Skip ==
  /\ Asked
  /\ \E fs \in {{Note}, {}} : said' = said \union ({0} \X fs)
  /\ outcome' = "skipped"
  /\ UNCHANGED <<probe, total, item, turn, open, met, last, counted, spent>>

\* applies() raises, or hangs until the runner's timeout.
AppliesFails ==
  /\ Asked
  /\ said' = said \union {ErrorRow}
  /\ outcome' \in {"raised", "cancelled"}
  /\ UNCHANGED <<probe, total, item, turn, open, met, last, counted, spent>>

Start ==
  /\ Asked
  /\ item' = 1
  /\ UNCHANGED <<probe, total, turn, open, said, met, last, counted, spent, outcome>>

-----------------------------------------------------------------------------
(* The steps of run() *)

Connect ==
  /\ Awaits /\ turn = 0
  /\ \E t \in {0, P.dial} : Wait(t)
  /\ turn' = 1
  /\ open' = open \union ({item} \X P.opens)
  /\ met' = IF "tcp" \in P.opens THEN met \union {item} ELSE met
  /\ UNCHANGED <<probe, total, item, said, last, counted, outcome>>

\* Refused, unreachable, not there, or no answer within P.dial.
ConnectFails ==
  /\ Awaits /\ turn = 0
  /\ \E t \in {0, P.dial} : Wait(t)
  /\ Follow(P.gone, "stop")
  /\ UNCHANGED <<probe, total, met, last>>

Answer ==
  /\ Awaits /\ turn > 0
  /\ \E t \in {0, Now.wait} : Wait(t)
  /\ \E r \in DOMAIN Now.judge :
        /\ last' = IF P.keeps THEN [t \in {turn} |-> r] ELSE last
        /\ Follow(Now.judge[r], "stop")
  /\ met' = met \union {item}
  /\ UNCHANGED <<probe, total>>

TimesOut ==
  /\ Awaits /\ turn > 0 /\ Now.wait > 0
  /\ Wait(Now.wait)
  /\ Follow(Now.timeout, "timeout")
  /\ UNCHANGED <<probe, total, met, last>>

\* A reset, an ICMP error, a failed read ...
OSError ==
  /\ Awaits /\ turn > 0
  /\ Follow(Now.oserror, "stop")
  /\ UNCHANGED <<probe, total, met, last, spent>>

\* ... and the end of the stream.
Eof ==
  /\ Awaits /\ turn > 0
  /\ Follow(Now.eof, "stop")
  /\ UNCHANGED <<probe, total, met, last, spent>>

\* Mutated: the summary takes the place of the findings.
ReturnReplaces ==
  /\ outcome = "running" /\ item = total + 1
  /\ said' = {0} \X P.sums[counted]
  /\ outcome' = "returned"
  /\ UNCHANGED <<probe, total, item, turn, open, met, last, counted, spent>>

Return ==
  /\ outcome = "running" /\ item = total + 1
  /\ said' = said \union ({0} \X P.sums[counted])
  /\ outcome' = "returned"
  /\ UNCHANGED <<probe, total, item, turn, open, met, last, counted, spent>>

(***************************************************************************)
(* wait_for in _run_one runs out: at an await that the time left does not  *)
(* cover, or where the probe lets the loop run, however long that took.    *)
(***************************************************************************)
Pending == IF turn = 0 THEN P.dial ELSE Now.wait

Cancel ==
  /\ Awaits
  /\ \/ Pending > 0 /\ spent + Pending >= Limit
     \/ P.yields /\ turn = 0
  /\ Close("cancel")
  /\ said' = said \union {ErrorRow}
  /\ outcome' = "cancelled"
  /\ UNCHANGED <<probe, total, item, turn, met, last, counted, spent>>

Done == outcome # "running" /\ UNCHANGED vars

Next ==
  \/ Skip \/ AppliesFails \/ Start
  \/ Connect \/ ConnectFails
  \/ Answer \/ TimesOut \/ OSError \/ Eof
  \/ Return \/ Cancel
  \/ Done

\* Every await ends, by the probe's own timeout or by the runner's.
Spec == Init /\ [][Next]_vars /\ WF_vars(Next)

-----------------------------------------------------------------------------
(* Properties of every probe, whatever its program *)

Over == outcome # "running"

\* The types of the engine's variables.  The probe stays within its items and
\* its turns, speaks only of items that it has reached, and its own timeouts
\* never take it past the limit of the runner's wait_for.
TypeOK ==
  /\ probe \in Names /\ total \in P.items
  /\ item \in 0..(total + 1) /\ turn \in 0..Len(P.turns)
  /\ open \subseteq (1..total) \X Resources
  /\ said \subseteq (0..item) \X Findings
  /\ met \subseteq 1..total /\ counted \subseteq 1..total
  /\ spent \in 0..(Limit - 1) /\ outcome \in Outcomes

Task == INSTANCE ProbeTask WITH state <- outcome, stored <- said, Error <- ErrorRow

\* Whatever the probe, the runner sees a task of module ProbeTask: rows are
\* only added, it ends once, and the error row of record_probe_error is there
\* exactly when run() or applies() raised or was cancelled.
RefinesTask == Task!Spec

\* What is still open was opened by the item at hand, or is something that
\* one of the probe's ways out leaves.
OpenAccounted ==
  \A o \in open :
    \/ outcome = "running" /\ o[1] = item /\ turn > 0 /\ o[2] \in P.opens
    \/ \E w \in Ways : o[2] \in P.leaves[w]
=============================================================================
