--------------------------- MODULE ProbeRunProofs ---------------------------
(***************************************************************************)
(* Proofs about ProbeRun, for every catalogue of well-formed programs and  *)
(* every limit.                                                            *)
(*                                                                         *)
(* The types alone do not keep the error row out of `said' while the probe *)
(* runs.  What does is that a finding of an item carries the item's number *)
(* and the summary holds no error; that is Honest below.                   *)
(***************************************************************************)
EXTENDS ProbeRun, TLAPS

\* The error row is there exactly when the run failed.
Honest == ErrorRow \in said <=> outcome \in {"raised", "cancelled"}

\* The inductive invariant.
IInv == TypeOK /\ Honest /\ OpenAccounted

-----------------------------------------------------------------------------
\* What CatalogAssumption says of the probe at hand: Follow meets judgements
\* of known kinds only, and the last turn never asks for another one.
LEMMA ProgramFacts ==
  ASSUME TypeOK
  PROVE /\ P.dial \in Nat /\ P.items \subseteq Nat
        /\ P.opens \subseteq Resources /\ P.leaves \in [Ways -> SUBSET Resources]
        /\ P.gone \in Judgement(Ending)
        /\ \A n \in P.items : \A c \in SUBSET (1..n) :
             P.sums[c] \subseteq Findings \ {ProbeError}
        /\ Len(P.turns) \in Nat \ {0}
        /\ \A i \in 1..(Len(P.turns) - 1) : WellTurned(P.turns[i], Ending \union {"on"})
        /\ WellTurned(P.turns[Len(P.turns)], Ending)
<1>1. probe \in Names
  BY DEF TypeOK
<1>2. WellFormed(Catalog[probe])
  BY <1>1, CatalogAssumption
<1> QED BY <1>2 DEF WellFormed, P

\* A summary, the note of a skipped probe and what is said of an item are
\* not the error row.
LEMMA NotTheError ==
  /\ Note \in Findings /\ ProbeError \in Findings /\ Note # ProbeError
  /\ \A i, f : <<i, f>> = ErrorRow <=> i = 0 /\ f = ProbeError
BY DEF Note, ProbeError, Graded, SevFor, Finding, Findings, Classes, Severities, ErrorRow

-----------------------------------------------------------------------------
\* No probe has said or opened anything before it starts.
LEMMA InitIInv == Init => IInv
<1> SUFFICES ASSUME Init PROVE IInv
  OBVIOUS
<1>1. probe \in Names /\ total \in P.items
  BY DEF Init
<1>2. WellFormed(Catalog[probe])
  BY <1>1, CatalogAssumption
<1>3. P.items \subseteq Nat /\ Len(P.turns) \in Nat
  BY <1>2 DEF WellFormed, P
<1>4. TypeOK
  BY <1>1, <1>3, LimitAssumption DEF Init, TypeOK, Outcomes
<1> QED BY <1>4 DEF Init, IInv, Honest, OpenAccounted

\* Closing the item leaves what the way out leaves, and nothing else of it.
LEMMA CloseAccounted ==
  ASSUME TypeOK, OpenAccounted, item \in 1..total, NEW way \in Ways, Close(way)
  PROVE /\ open' \subseteq (1..total) \X Resources
        /\ \A o \in open' : \E w \in Ways : o[2] \in P.leaves[w]
<1>1. P.leaves[way] \subseteq Resources
  BY ProgramFacts
<1>2. open' \subseteq (1..total) \X Resources
  BY <1>1 DEF Close, TypeOK
<1>3. ASSUME NEW o \in open' PROVE \E w \in Ways : o[2] \in P.leaves[w]
  <2>1. CASE o \in open /\ o[1] # item
    BY <2>1 DEF OpenAccounted
  <2>2. CASE o \in {item} \X P.leaves[way]
    BY <2>2
  <2> QED BY <2>1, <2>2 DEF Close
<1> QED BY <1>2, <1>3

\* Whatever a judgement leads to, the invariant survives it.  Only a turn
\* that is not the last one may lead on.
LEMMA FollowIInv ==
  ASSUME IInv, Awaits, NEW way \in Ways, NEW j \in Judgement(Ending \union {"on"}),
         j.next = "on" => turn \in 1..(Len(P.turns) - 1),
         Follow(j, way), UNCHANGED <<probe, total>>,
         met' \subseteq 1..total, spent' \in 0..(Limit - 1)
  PROVE IInv'
<1> USE DEF IInv
<1>1. /\ item \in 1..total /\ outcome = "running" /\ total \in Nat
      /\ Len(P.turns) \in Nat /\ P' = P /\ Names' = Names
  BY ProgramFacts DEF Awaits, TypeOK, P, Names
<1>2. j.says \subseteq Findings /\ j.next \in Ending \union {"on"}
  BY DEF Judgement
<1>3. "raise" \in Ways
  BY DEF Ways
<1>4. item' \in {item, item + 1} /\ item' \in 0..(total + 1)
  BY <1>1, <1>2 DEF Follow, NextItem
<1>5. turn' \in 0..Len(P.turns)
  BY <1>1, <1>2 DEF Follow, NextItem, TypeOK
<1>6. outcome' \in Outcomes
  BY <1>1 DEF Follow, Outcomes
<1>7. counted' \subseteq 1..total
  BY <1>1 DEF Follow, TypeOK
<1>8. said' \subseteq (0..item') \X Findings
  <2>1. ErrorRow \in (0..item') \X Findings
    BY <1>1, <1>4, NotTheError DEF ErrorRow
  <2>2. said \subseteq (0..item') \X Findings
    BY <1>1, <1>4 DEF TypeOK
  <2>3. {item} \X j.says \subseteq (0..item') \X Findings
    BY <1>1, <1>2, <1>4
  <2> QED BY <2>1, <2>2, <2>3 DEF Follow, Say
<1>9. /\ open' \subseteq (1..total) \X Resources
      /\ OpenAccounted'
  <2>1. CASE j.next = "on"
    BY <2>1, <1>1 DEF Follow, TypeOK, OpenAccounted
  <2>2. CASE j.next = "raise"
    <3>1. Close("raise")
      BY <2>2 DEF Follow
    <3> QED BY <3>1, <1>1, <1>3, CloseAccounted DEF OpenAccounted
  <2>3. CASE j.next \in {"stop", "count", "halt"}
    <3>1. Close(way)
      BY <2>3 DEF Follow
    <3> QED BY <3>1, <1>1, CloseAccounted DEF OpenAccounted
  <2> QED BY <2>1, <2>2, <2>3, <1>2 DEF Follow, Ending
<1>10. Honest'
  <2>1. ErrorRow \notin said
    BY <1>1 DEF Honest
  <2>2. ErrorRow \notin {item} \X j.says
    BY <1>1, NotTheError
  <2>3. ErrorRow \in said' <=> j.next = "raise"
    BY <2>1, <2>2 DEF Follow, Say
  <2>4. outcome' \in {"raised", "cancelled"} <=> j.next = "raise"
    BY <1>1, <1>2 DEF Follow, Ending
  <2> QED BY <2>3, <2>4 DEF Honest, ErrorRow
<1>11. TypeOK'
  BY <1>1, <1>4, <1>5, <1>6, <1>7, <1>8, <1>9 DEF TypeOK
<1> QED BY <1>9, <1>10, <1>11

\* The turn at hand: each of its judgements is one, and only a turn that is
\* not the last one leads on.
LEMMA TurnFacts ==
  ASSUME TypeOK, turn > 0
  PROVE /\ Now.wait \in Nat
        /\ \A j \in {Now.timeout, Now.oserror, Now.eof} :
             /\ j \in Judgement(Ending \union {"on"})
             /\ j.next = "on" => turn \in 1..(Len(P.turns) - 1)
        /\ \A r \in DOMAIN Now.judge :
             /\ Now.judge[r] \in Judgement(Ending \union {"on"})
             /\ Now.judge[r].next = "on" => turn \in 1..(Len(P.turns) - 1)
<1>1. turn \in 1..Len(P.turns) /\ Len(P.turns) \in Nat
  BY ProgramFacts DEF TypeOK
<1>2. CASE turn = Len(P.turns)
  <2>1. WellTurned(Now, Ending)
    BY <1>2, ProgramFacts DEF Now
  <2>2. \A j \in Judgement(Ending) : j \in Judgement(Ending \union {"on"}) /\ j.next # "on"
    BY DEF Judgement, Ending
  <2> QED BY <2>1, <2>2 DEF WellTurned
<1>3. CASE turn \in 1..(Len(P.turns) - 1)
  <2>1. WellTurned(Now, Ending \union {"on"})
    BY <1>3, ProgramFacts DEF Now
  <2> QED BY <2>1, <1>3 DEF WellTurned
<1>4. turn = Len(P.turns) \/ turn \in 1..(Len(P.turns) - 1)
  BY <1>1
<1> QED BY <1>2, <1>3, <1>4, Zenon

\* Waiting keeps within the limit.
LEMMA WaitSpent ==
  ASSUME TypeOK, NEW t \in Nat, Wait(t)
  PROVE spent' \in 0..(Limit - 1)
BY LimitAssumption DEF TypeOK, Wait

\* Every step of a probe or of the runner preserves the invariant.
LEMMA NextIInv == IInv /\ [Next]_vars => IInv'
<1> SUFFICES ASSUME IInv, [Next]_vars PROVE IInv'
  OBVIOUS
<1> USE DEF IInv
<1>a. "stop" \in Ways /\ "timeout" \in Ways /\ "cancel" \in Ways
  BY DEF Ways
<1>b. \A j \in Judgement(Ending) : j \in Judgement(Ending \union {"on"}) /\ j.next # "on"
  BY DEF Judgement, Ending
<1>1. CASE Skip
  <2>1. UNCHANGED <<probe, total, item, turn, open, met, counted, spent>>
    BY <1>1 DEF Skip
  <2>2. said' \subseteq said \union ({0} \X {Note}) /\ said \subseteq said'
    BY <1>1 DEF Skip
  <2>3. item = 0 /\ outcome = "running" /\ outcome' = "skipped"
    BY <1>1 DEF Skip, Asked
  <2>4. said' \subseteq (0..item) \X Findings
    BY <2>2, <2>3, NotTheError DEF TypeOK
  <2>5. ErrorRow \notin said'
    BY <2>2, <2>3, NotTheError DEF Honest
  <2> QED BY <2>1, <2>3, <2>4, <2>5
        DEF TypeOK, Honest, OpenAccounted, Outcomes, P, Names, ErrorRow
<1>2. CASE AppliesFails
  <2>1. ErrorRow \in {0} \X Findings
    BY NotTheError DEF ErrorRow
  <2> QED BY <1>2, <2>1
        DEF AppliesFails, Asked, TypeOK, Honest, OpenAccounted, Outcomes, P, Names, ErrorRow
<1>3. CASE Start
  <2>1. total \in Nat
    BY ProgramFacts DEF TypeOK
  <2>2. item = 0 /\ item' = 1 /\ outcome = "running"
    BY <1>3 DEF Start, Asked
  <2>3. UNCHANGED <<probe, total, turn, open, said, met, counted, spent, outcome>>
    BY <1>3 DEF Start
  <2>4. said' \subseteq (0..item') \X Findings
    BY <2>2, <2>3 DEF TypeOK
  <2>5. TypeOK'
    BY <2>1, <2>2, <2>3, <2>4 DEF TypeOK, P, Names
  <2>6. OpenAccounted'
    <3>1. \A o \in open : o[1] # item
      BY <2>1, <2>2 DEF TypeOK
    <3> QED BY <3>1, <2>3 DEF OpenAccounted, P
  <2> QED BY <2>3, <2>5, <2>6 DEF Honest, ErrorRow
<1>4. CASE Connect
  <2>1. spent' \in 0..(Limit - 1)
    BY <1>4, WaitSpent, ProgramFacts DEF Connect
  <2>2. item \in 1..total /\ outcome = "running" /\ turn = 0 /\ turn' = 1
    BY <1>4 DEF Connect, Awaits
  <2>3. UNCHANGED <<probe, total, item, said, counted, outcome>>
    BY <1>4 DEF Connect
  <2>4. 1 \in 0..Len(P.turns)
    BY ProgramFacts
  <2>5. open' = open \union ({item} \X P.opens) /\ P.opens \subseteq Resources
    BY <1>4, ProgramFacts DEF Connect
  <2>6. open' \subseteq (1..total) \X Resources
    BY <2>2, <2>5 DEF TypeOK
  <2>7. met' \subseteq 1..total
    BY <1>4, <2>2 DEF Connect, TypeOK
  <2>8. TypeOK'
    BY <2>1, <2>2, <2>3, <2>4, <2>6, <2>7 DEF TypeOK, P, Names
  <2>9. OpenAccounted'
    BY <2>2, <2>3, <2>5 DEF OpenAccounted, P
  <2> QED BY <2>3, <2>8, <2>9 DEF Honest, ErrorRow
<1>5. CASE ConnectFails
  <2>1. spent' \in 0..(Limit - 1)
    BY <1>5, WaitSpent, ProgramFacts DEF ConnectFails
  <2>2. P.gone \in Judgement(Ending)
    BY ProgramFacts
  <2>3. Awaits /\ Follow(P.gone, "stop") /\ UNCHANGED <<probe, total>> /\ met' \subseteq 1..total
    BY <1>5 DEF ConnectFails, TypeOK
  <2> QED BY <2>1, <2>2, <2>3, <1>a, <1>b, FollowIInv
<1>6. CASE Answer
  <2>1. spent' \in 0..(Limit - 1)
    BY <1>6, WaitSpent, TurnFacts DEF Answer
  <2>2. Awaits /\ turn > 0 /\ UNCHANGED <<probe, total>> /\ met' \subseteq 1..total
    BY <1>6 DEF Answer, Awaits, TypeOK
  <2>3. PICK r \in DOMAIN Now.judge : Follow(Now.judge[r], "stop")
    BY <1>6 DEF Answer
  <2> QED BY <2>1, <2>2, <2>3, <1>a, TurnFacts, FollowIInv
<1>7. CASE TimesOut
  <2>1. spent' \in 0..(Limit - 1)
    BY <1>7, WaitSpent, TurnFacts DEF TimesOut
  <2>2. Awaits /\ turn > 0 /\ UNCHANGED <<probe, total>> /\ met' \subseteq 1..total
    BY <1>7 DEF TimesOut, TypeOK
  <2>3. Follow(Now.timeout, "timeout")
    BY <1>7 DEF TimesOut
  <2> QED BY <2>1, <2>2, <2>3, <1>a, TurnFacts, FollowIInv
<1>8. CASE OSError
  <2>1. /\ Awaits /\ turn > 0 /\ UNCHANGED <<probe, total>>
        /\ met' \subseteq 1..total /\ spent' \in 0..(Limit - 1)
    BY <1>8 DEF OSError, TypeOK
  <2>2. Follow(Now.oserror, "stop")
    BY <1>8 DEF OSError
  <2> QED BY <2>1, <2>2, <1>a, TurnFacts, FollowIInv
<1>9. CASE Eof
  <2>1. /\ Awaits /\ turn > 0 /\ UNCHANGED <<probe, total>>
        /\ met' \subseteq 1..total /\ spent' \in 0..(Limit - 1)
    BY <1>9 DEF Eof, TypeOK
  <2>2. Follow(Now.eof, "stop")
    BY <1>9 DEF Eof
  <2> QED BY <2>1, <2>2, <1>a, TurnFacts, FollowIInv
<1>10. CASE Return
  <2>1. /\ UNCHANGED <<probe, total, item, turn, open, met, counted, spent>>
        /\ outcome = "running" /\ outcome' = "returned" /\ item = total + 1
    BY <1>10 DEF Return
  <2>2. P.sums[counted] \subseteq Findings \ {ProbeError}
    BY ProgramFacts DEF TypeOK
  <2>3. total \in Nat
    BY ProgramFacts DEF TypeOK
  <2>4. said' = said \union ({0} \X P.sums[counted])
    BY <1>10 DEF Return
  <2>5. said' \subseteq (0..item) \X Findings
    BY <2>1, <2>2, <2>3, <2>4 DEF TypeOK
  <2>6. ErrorRow \notin said'
    BY <2>1, <2>2, <2>4, NotTheError DEF Honest
  <2>7. \A o \in open : o[1] # item
    BY <2>1, <2>3 DEF TypeOK
  <2> QED BY <2>1, <2>5, <2>6, <2>7
        DEF TypeOK, Honest, OpenAccounted, Outcomes, P, Names, ErrorRow
<1>11. CASE Cancel
  <2>1. /\ UNCHANGED <<probe, total, item, turn, met, counted, spent>>
        /\ item \in 1..total /\ outcome' = "cancelled" /\ Close("cancel")
        /\ said' = said \union {ErrorRow}
    BY <1>11 DEF Cancel, Awaits
  <2>2. ErrorRow \in (0..item) \X Findings
    BY <2>1, NotTheError DEF ErrorRow, TypeOK
  <2>3. /\ open' \subseteq (1..total) \X Resources
        /\ \A o \in open' : \E w \in Ways : o[2] \in P.leaves[w]
    BY <2>1, <1>a, CloseAccounted
  <2> QED BY <2>1, <2>2, <2>3
        DEF TypeOK, Honest, OpenAccounted, Outcomes, P, Names, ErrorRow
<1>12. CASE UNCHANGED vars
  BY <1>12 DEF vars, TypeOK, Honest, OpenAccounted, P, Names, ErrorRow
<1> QED
  BY <1>1, <1>2, <1>3, <1>4, <1>5, <1>6, <1>7, <1>8, <1>9, <1>10, <1>11, <1>12
     DEF Next, Done

LEMMA InvHolds == Spec => []IInv
<1>1. Init => IInv
  BY InitIInv
<1>2. IInv /\ [Next]_vars => IInv'
  BY NextIInv
<1> QED BY <1>1, <1>2, PTL DEF Spec

-----------------------------------------------------------------------------
\* TypeOK for every catalogue and every limit: no probe leaves its items or
\* its turns, and none gets past the runner's wait_for.
THEOREM TypesHold == Spec => []TypeOK
<1>1. IInv => TypeOK
  BY DEF IInv
<1> QED BY <1>1, InvHolds, PTL

\* The resources of a run that is over are those that the probe's ways out
\* leave; so a probe whose every way out goes through a finally, as in
\* net.rdp.negotiation, leaves nothing, whatever its peers do.
THEOREM FinallyCloses ==
  Spec => [](Over /\ P.leaves = Finally => open = {})
<1>1. IInv => (Over /\ P.leaves = Finally => open = {})
  <2> SUFFICES ASSUME IInv, Over, P.leaves = Finally PROVE open = {}
    OBVIOUS
  <2>1. \A w \in Ways : P.leaves[w] = {}
    BY DEF Finally, Ways
  <2>2. \A o \in open : \E w \in Ways : o[2] \in P.leaves[w]
    BY DEF IInv, OpenAccounted, Over
  <2> QED BY <2>1, <2>2
<1> QED BY <1>1, InvHolds, PTL

\* RefinesTask for every catalogue and every limit: _run_one keeps the
\* contract of module ProbeTask with whatever probe.
THEOREM TaskRefined == Spec => RefinesTask
<1>1. Init => Task!Init
  BY DEF Init, Task!Init
<1>2. IInv /\ IInv' /\ [Next]_vars => [Task!Next]_(Task!task)
  <2> SUFFICES ASSUME IInv, IInv', [Next]_vars PROVE [Task!Next]_(Task!task)
    OBVIOUS
  <2> USE DEF Task!Next, Task!task, Task!Work, Task!Finish, Task!Fail, Task!Store
  <2>1. Honest /\ Honest' /\ ErrorRow' = ErrorRow
    BY DEF IInv, ErrorRow
  <2>2. outcome \in Outcomes /\ outcome' \in Outcomes
    BY DEF IInv, TypeOK
  <2>3. CASE Next /\ ~Done
    <3>1. said \subseteq said'
      BY <2>3 DEF Next, Skip, AppliesFails, Start, Connect, ConnectFails, Answer,
                  TimesOut, OSError, Eof, Return, Cancel, Follow, Say
    <3>2. outcome = "running"
      BY <2>3 DEF Next, Skip, AppliesFails, Start, Connect, ConnectFails, Answer,
                  TimesOut, OSError, Eof, Return, Cancel, Awaits, Asked
    <3> QED BY <3>1, <3>2, <2>1, <2>2 DEF Honest, Outcomes
  <2>4. CASE UNCHANGED vars
    BY <2>4 DEF vars
  <2> QED BY <2>3, <2>4 DEF Done
<1>3. Init /\ [][Next]_vars /\ []IInv => Task!Spec
  BY <1>1, <1>2, PTL DEF Task!Spec
<1> QED BY <1>3, InvHolds, PTL DEF Spec, RefinesTask
=============================================================================
