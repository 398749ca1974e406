---------------------------- MODULE ProbesProofs -----------------------------
(***************************************************************************)
(* Proofs about the registry of module Probes.                             *)
(*                                                                         *)
(* The first part is about programs that keep the rules of module Probes:  *)
(* whatever the catalogue, the limit, the number of items and the answers  *)
(* of the world, the properties that the run checks hold of them.          *)
(***************************************************************************)
EXTENDS Probes, ProbeRunProofs, WellFoundedInduction, SequenceTheorems, FiniteSetTheorems

\* Every program of the catalogue keeps the rules.  TLC evaluates it for the
\* programs that are shipped, as RulesKept.
Disciplined == \A n \in Names : Keeps(n, Catalog[n])

-----------------------------------------------------------------------------
\* What a step of the world comes to: a failed connection, a turn that ends
\* without an answer, or an answer.
LEMMA JudgedStep ==
  ASSUME TypeOK, ConnectFails \/ Answer \/ TimesOut \/ OSError \/ Eof
  PROVE  \E way \in {"stop", "timeout"}, j \in {P.gone} \union Judgements(Now) :
           /\ Awaits /\ Follow(j, way) /\ UNCHANGED <<probe, total>>
           /\ \/ turn = 0 /\ j = P.gone /\ UNCHANGED met
              \/ turn \in 1..Len(P.turns) /\ j \in Failures(Now) /\ UNCHANGED met
              \/ turn \in 1..Len(P.turns) /\ j \in Judgements(Now) /\ met' = met \union {item}
<1>1. Len(P.turns) \in Nat /\ turn \in 0..Len(P.turns)
  BY ProgramFacts DEF TypeOK
<1>2. turn > 0 => turn \in 1..Len(P.turns)
  BY <1>1
<1>3. CASE ConnectFails
  BY <1>3 DEF ConnectFails
<1>4. CASE Answer
  <2>1. PICK r \in DOMAIN Now.judge : Follow(Now.judge[r], "stop")
    BY <1>4 DEF Answer
  <2>2. Now.judge[r] \in Judgements(Now)
    BY DEF Judgements
  <2> QED BY <1>2, <1>4, <2>1, <2>2 DEF Answer
<1>5. CASE TimesOut
  BY <1>2, <1>5 DEF TimesOut, Failures, Judgements
<1>6. CASE OSError
  BY <1>2, <1>6 DEF OSError, Failures, Judgements
<1>7. CASE Eof
  BY <1>2, <1>7 DEF Eof, Failures, Judgements
<1> QED BY <1>3, <1>4, <1>5, <1>6, <1>7

\* The catalogue does not change.
LEMMA StaysDisciplined == Disciplined => []Disciplined
<1>1. Disciplined => Disciplined'
  BY DEF Disciplined
<1> QED BY <1>1, PTL

-----------------------------------------------------------------------------
(* A run that returns, and one that raises *)

\* A step after which run() has returned goes past the last item or says a
\* note at the item where it stops.
LEMMA StepVisits ==
  ASSUME Disciplined, IInv, AllItemsVisited, [Next]_vars
  PROVE  AllItemsVisited'
<1>a. TypeOK /\ probe \in Names
  BY DEF IInv, TypeOK
<1>1. CASE ConnectFails \/ Answer \/ TimesOut \/ OSError \/ Eof
  <2>1. PICK way \in {"stop", "timeout"}, j \in {P.gone} \union Judgements(Now) :
           /\ Awaits /\ Follow(j, way) /\ UNCHANGED <<probe, total>>
           /\ \/ turn = 0 /\ j = P.gone
              \/ turn \in 1..Len(P.turns) /\ j \in Judgements(Now)
    BY <1>1, <1>a, JudgedStep DEF Judgements
  <2>2. SUFFICES ASSUME outcome' = "returned", probe # "FsIacCloudformation"
                 PROVE  Note \in SaidOf(item)'
    BY <2>1 DEF AllItemsVisited
  <2>3. j.next = "halt" /\ item' = item /\ said' = said \union ({item} \X j.says)
    BY <2>1, <2>2 DEF Follow, Awaits, Say
  <2>4. SaysWhereItStops(j)
    BY <2>1, <2>2, <1>a DEF Disciplined, Keeps, Always, P, Now
  <2>5. <<item', Note>> \in said'
    BY <2>3, <2>4 DEF SaysWhereItStops
  <2> QED BY <2>5 DEF SaidOf
<1>2. CASE Return
  BY <1>2 DEF Return, AllItemsVisited
<1>3. CASE Skip \/ AppliesFails \/ Start \/ Connect \/ Cancel
  <2>1. outcome' # "returned"
    BY <1>3 DEF Skip, AppliesFails, Start, Connect, Cancel, Asked, Awaits
  <2> QED BY <2>1 DEF AllItemsVisited
<1>4. CASE UNCHANGED vars
  BY <1>4 DEF vars, AllItemsVisited, SaidOf
<1> QED BY <1>1, <1>2, <1>3, <1>4 DEF Next, Done

\* AllItemsVisited for every catalogue of programs that note where they stop:
\* with any number of files or targets, a run that returns has been through
\* all of them or has a note at the one where it stopped.
THEOREM RunsVisitAll == Disciplined /\ Spec => []AllItemsVisited
<1>1. Init => AllItemsVisited
  BY DEF Init, AllItemsVisited
<1>2. Disciplined /\ IInv /\ AllItemsVisited /\ [Next]_vars => AllItemsVisited'
  BY StepVisits
<1> QED BY <1>1, <1>2, StaysDisciplined, InvHolds, PTL DEF Spec

\* A judgement that raises is none of a program that promised not to.
LEMMA StepKeepsPromise ==
  ASSUME Disciplined, IInv, PromisedNotToRaise, [Next]_vars
  PROVE  PromisedNotToRaise'
<1>a. TypeOK /\ probe \in Names
  BY DEF IInv, TypeOK
<1>1. CASE ConnectFails \/ Answer \/ TimesOut \/ OSError \/ Eof
  <2>1. PICK way \in {"stop", "timeout"}, j \in {P.gone} \union Judgements(Now) :
           /\ Awaits /\ Follow(j, way) /\ UNCHANGED <<probe, total>>
           /\ \/ turn = 0 /\ j = P.gone
              \/ turn \in 1..Len(P.turns) /\ j \in Judgements(Now)
    BY <1>1, <1>a, JudgedStep DEF Judgements
  <2>2. SUFFICES ASSUME probe \in Quiescent PROVE outcome' # "raised"
    BY <2>1 DEF PromisedNotToRaise
  <2>3. NeverRaises(j)
    BY <2>1, <2>2, <1>a DEF Disciplined, Keeps, Always, P, Now
  <2> QED BY <2>1, <2>3 DEF NeverRaises, Follow, Awaits
<1>2. CASE Skip \/ AppliesFails \/ Start \/ Connect \/ Return \/ Cancel
  <2>1. (item = 0 /\ item' = 0) \/ outcome' # "raised"
    BY <1>2 DEF Skip, AppliesFails, Start, Connect, Return, Cancel, Asked, Awaits
  <2> QED BY <2>1 DEF PromisedNotToRaise
<1>3. CASE UNCHANGED vars
  BY <1>3 DEF vars, PromisedNotToRaise
<1> QED BY <1>1, <1>2, <1>3 DEF Next, Done

\* PromisedNotToRaise for every catalogue in which the probes that promise it
\* have no judgement that raises: then run() never does, however many files
\* or connections break off, and wherever.
THEOREM PromisesKept == Disciplined /\ Spec => []PromisedNotToRaise
<1>1. Init => PromisedNotToRaise
  BY DEF Init, PromisedNotToRaise
<1>2. Disciplined /\ IInv /\ PromisedNotToRaise /\ [Next]_vars => PromisedNotToRaise'
  BY StepKeepsPromise
<1> QED BY <1>1, <1>2, StaysDisciplined, InvHolds, PTL DEF Spec

-----------------------------------------------------------------------------
(* What a run leaves open *)

\* What is open was opened by the item at hand, or is a process that was not
\* killed when the run was cancelled or its tool's own timeout ended.
LeftByRule ==
  probe \notin {"NetKerberosAsreq", "NetTlsTestssl"} =>
    \A o \in open :
      \/ outcome = "running" /\ o[1] = item /\ turn > 0
      \/ o[2] = "process" /\ (outcome = "cancelled" \/ probe \in NeverKilled)

\* Closing an item by one of its ways out.
LEMMA CloseByRule ==
  ASSUME Disciplined, IInv, LeftByRule, NEW way \in Ways, Close(way),
         way = "cancel" => outcome' = "cancelled", outcome # "cancelled", UNCHANGED probe
  PROVE  LeftByRule'
<1> SUFFICES ASSUME probe \notin {"NetKerberosAsreq", "NetTlsTestssl"}, NEW o \in open'
             PROVE  o[2] = "process" /\ (outcome' = "cancelled" \/ probe \in NeverKilled)
  BY DEF LeftByRule
<1>1. probe \in Names /\ ClosesUp(probe, P)
  BY DEF IInv, TypeOK, Disciplined, Keeps, P
<1>2. CASE o \in open /\ o[1] # item
  BY <1>2 DEF LeftByRule
<1>3. CASE o \in {item} \X P.leaves[way]
  <2>1. o[2] \in P.leaves[way]
    BY <1>3
  <2>2. way = "cancel" \/ (way = "timeout" /\ probe \in NeverKilled)
    BY <1>1, <2>1 DEF ClosesUp, Ways, P
  <2>3. o[2] = "process"
    BY <1>1, <2>1, <2>2 DEF ClosesUp, P
  <2> QED BY <2>2, <2>3
<1> QED BY <1>2, <1>3 DEF Close

\* No step leaves anything that the rules do not allow.
LEMMA StepLeavesByRule ==
  ASSUME Disciplined, IInv, LeftByRule, [Next]_vars
  PROVE  LeftByRule'
<1>a. TypeOK /\ {"stop", "timeout", "raise", "cancel"} \subseteq Ways
  BY DEF IInv, Ways
<1>1. CASE ConnectFails \/ Answer \/ TimesOut \/ OSError \/ Eof
  <2>1. PICK way \in {"stop", "timeout"}, j \in {P.gone} \union Judgements(Now) :
           Awaits /\ Follow(j, way) /\ UNCHANGED <<probe, total>>
    BY <1>1, <1>a, JudgedStep
  <2>2. CASE j.next = "on"
    BY <2>1, <2>2, <1>a DEF Follow, LeftByRule, Awaits, TypeOK
  <2>3. CASE j.next # "on"
    <3>1. PICK w \in {"stop", "timeout", "raise"} : Close(w)
      BY <2>1, <2>3 DEF Follow
    <3>2. w \in Ways /\ w # "cancel" /\ outcome # "cancelled"
      BY <2>1, <1>a DEF Awaits
    <3> QED BY <2>1, <3>1, <3>2, CloseByRule
  <2> QED BY <2>2, <2>3
<1>2. CASE Cancel
  <2>1. Close("cancel") /\ outcome' = "cancelled" /\ outcome # "cancelled" /\ UNCHANGED probe
    BY <1>2 DEF Cancel, Awaits
  <2> QED BY <2>1, <1>a, CloseByRule
<1>3. CASE Connect
  <2>1. /\ outcome = "running" /\ turn = 0 /\ turn' = 1
        /\ UNCHANGED <<probe, item, outcome>> /\ open' = open \union ({item} \X P.opens)
    BY <1>3 DEF Connect, Awaits
  <2> QED BY <2>1 DEF LeftByRule
<1>4. CASE Skip \/ AppliesFails \/ Start
  <2>1. item = 0 /\ UNCHANGED <<open, probe>> /\ outcome = "running"
    BY <1>4 DEF Skip, AppliesFails, Start, Asked
  <2>2. \A o \in open : o[1] # item
    BY <2>1, ProgramFacts, <1>a DEF TypeOK
  <2> QED BY <2>1, <2>2 DEF LeftByRule
<1>5. CASE Return
  <2>1. item = total + 1 /\ UNCHANGED <<open, probe>> /\ outcome = "running"
    BY <1>5 DEF Return
  <2>2. \A o \in open : o[1] # item
    BY <2>1, ProgramFacts, <1>a DEF TypeOK
  <2> QED BY <2>1, <2>2 DEF LeftByRule
<1>6. CASE UNCHANGED vars
  BY <1>6 DEF vars, LeftByRule
<1> QED BY <1>1, <1>2, <1>3, <1>4, <1>5, <1>6 DEF Next, Done

\* NothingLeftOpen for every catalogue whose ways out close what they should:
\* after any number of connections, timeouts, resets and short reads a run
\* that is over holds no socket and no file, and a process only where it was
\* cancelled or its tool is one that is never killed.
THEOREM RunsCloseUp == Disciplined /\ Spec => []NothingLeftOpen
<1>1. Init => LeftByRule
  BY DEF Init, LeftByRule
<1>2. Disciplined /\ IInv /\ LeftByRule /\ [Next]_vars => LeftByRule'
  BY StepLeavesByRule
<1>3. LeftByRule => NothingLeftOpen
  BY DEF LeftByRule, NothingLeftOpen, Over
<1> QED BY <1>1, <1>2, <1>3, StaysDisciplined, InvHolds, PTL DEF Spec

-----------------------------------------------------------------------------
(* What a network probe reports *)

\* An alarm about an item, or an item that counts, has met its peer, and a
\* connection that stands is one that was accepted; an alarm at the end is
\* about items that count.
PeerKnown ==
  probe \in DOMAIN Net \ {"OTBacnet", "OTGtp"} =>
    /\ \A s \in said : s[1] # 0 /\ Alarming(s[2]) => s[1] \in met
    /\ \A s \in said : s[1] = 0 /\ Alarming(s[2]) => counted # {}
    /\ counted \subseteq met
    /\ turn > 0 /\ "tcp" \in P.opens => item \in met

\* Neither a note nor the error row is an alarm.
LEMMA NoAlarms == ~Alarming(Note) /\ ~Alarming(ProbeError)
BY DEF Alarming, Note, ProbeError, Graded, SevFor, Finding

\* No judgement reports an alarm, or counts, without a peer.
LEMMA JudgedWithPeer ==
  ASSUME Disciplined, IInv, PeerKnown, NEW j, NEW way, Awaits, Follow(j, way),
         UNCHANGED <<probe, total>>, met \subseteq met',
         probe \in DOMAIN Net \ {"OTBacnet", "OTGtp"},
         Harmless(j) \/ item \in met', j.next = "on" => turn > 0
  PROVE  PeerKnown'
<1>1. item # 0 /\ met \subseteq met' /\ P' = P
  BY DEF Awaits, IInv, TypeOK, P
<1>2. /\ said' = said \union ({item} \X j.says) \union (IF j.next = "raise" THEN {ErrorRow} ELSE {})
      /\ counted' = IF j.next = "count" THEN counted \union {item} ELSE counted
  BY DEF Follow, Say
<1>3. ASSUME NEW s \in said' PROVE s \in said \/ s = ErrorRow \/ (s[1] = item /\ s[2] \in j.says)
  <2>1. CASE s \in {item} \X j.says
    BY <2>1
  <2> QED BY <2>1, <1>2
<1>4. ASSUME NEW s \in said', s[1] # 0, Alarming(s[2]) PROVE s[1] \in met'
  <2>1. s # ErrorRow
    BY <1>4, NoAlarms DEF ErrorRow
  <2>2. CASE s \in said
    BY <2>2, <1>4, <1>1 DEF PeerKnown
  <2>3. CASE s[1] = item /\ s[2] \in j.says
    BY <2>3, <1>4 DEF Harmless
  <2> QED BY <2>1, <2>2, <2>3, <1>3
<1>5. ASSUME NEW s \in said', s[1] = 0, Alarming(s[2]) PROVE counted' # {}
  <2>1. s # ErrorRow
    BY <1>5, NoAlarms DEF ErrorRow
  <2>2. s \in said
    BY <2>1, <1>5, <1>1, <1>3
  <2>3. counted # {}
    BY <2>2, <1>5 DEF PeerKnown
  <2> QED BY <2>3, <1>2
<1>6. counted' \subseteq met'
  BY <1>1, <1>2 DEF PeerKnown, Harmless
<1>7. turn' > 0 /\ "tcp" \in P.opens => item' \in met'
  <2> SUFFICES ASSUME turn' > 0, "tcp" \in P.opens PROVE item' \in met'
    OBVIOUS
  <2>1. item' = item
    BY DEF Follow, NextItem
  <2>2. turn > 0
    BY DEF Follow, NextItem
  <2> QED BY <2>1, <2>2, <1>1 DEF PeerKnown
<1> QED BY <1>1, <1>4, <1>5, <1>6, <1>7 DEF PeerKnown

\* No step reports an alarm without a peer.
LEMMA StepKnowsPeer ==
  ASSUME Disciplined, IInv, PeerKnown, [Next]_vars
  PROVE  PeerKnown'
<1>a. TypeOK /\ probe \in Names /\ probe' = probe /\ P' = P
  BY DEF IInv, TypeOK, P, Next, vars, Done, Skip, AppliesFails, Start, Connect,
         ConnectFails, Answer, TimesOut, OSError, Eof, Return, Cancel
<1> SUFFICES ASSUME probe \in DOMAIN Net \ {"OTBacnet", "OTGtp"}
             PROVE  PeerKnown'
  BY <1>a DEF PeerKnown
<1>b. NeedsPeer(P)
  BY <1>a DEF Disciplined, Keeps, P
<1>c. total \in Nat /\ met \subseteq 1..total
  BY <1>a, ProgramFacts DEF TypeOK
<1>1. CASE ConnectFails \/ Answer \/ TimesOut \/ OSError \/ Eof
  <2>1. PICK way \in {"stop", "timeout"}, j \in {P.gone} \union Judgements(Now) :
           /\ Awaits /\ Follow(j, way) /\ UNCHANGED <<probe, total>>
           /\ \/ turn = 0 /\ j = P.gone /\ UNCHANGED met
              \/ turn \in 1..Len(P.turns) /\ j \in Failures(Now) /\ UNCHANGED met
              \/ turn \in 1..Len(P.turns) /\ j \in Judgements(Now) /\ met' = met \union {item}
    BY <1>1, <1>a, JudgedStep
  <2>2. CASE turn = 0 /\ j = P.gone /\ UNCHANGED met
    <3>1. P.gone.next # "on"
      BY <1>a, ProgramFacts DEF Judgement, Ending
    <3>2. Harmless(P.gone)
      BY <1>b DEF NeedsPeer
    <3> QED BY <2>1, <2>2, <3>1, <3>2, JudgedWithPeer
  <2>3. CASE turn \in 1..Len(P.turns) /\ j \in Failures(Now) /\ UNCHANGED met
    <3>1. turn > 0 /\ Len(P.turns) \in Nat
      BY <2>3, <1>a, ProgramFacts
    <3>2. Harmless(j) \/ item \in met
      <4>1. CASE "tcp" \in P.opens
        BY <3>1, <4>1 DEF PeerKnown
      <4>2. CASE Unanswered(P, Harmless)
        BY <2>3, <4>2 DEF Unanswered, Now
      <4> QED BY <4>1, <4>2, <1>b DEF NeedsPeer
    <3> QED BY <2>1, <2>3, <3>1, <3>2, JudgedWithPeer
  <2>4. CASE turn \in 1..Len(P.turns) /\ met' = met \union {item}
    <3>1. turn > 0 /\ Len(P.turns) \in Nat
      BY <2>4, <1>a, ProgramFacts
    <3> QED BY <2>1, <2>4, <3>1, JudgedWithPeer
  <2> QED BY <2>1, <2>2, <2>3, <2>4
<1>2. CASE Connect
  BY <1>2, <1>a DEF Connect, PeerKnown
<1>3. CASE Skip
  <2>1. /\ UNCHANGED <<item, turn, met, counted>>
        /\ \A s \in said' : s \in said \/ s = <<0, Note>>
    BY <1>3 DEF Skip
  <2> QED BY <2>1, <1>a, NoAlarms DEF PeerKnown
<1>4. CASE AppliesFails
  <2>1. /\ UNCHANGED <<item, turn, met, counted>> /\ said' = said \union {ErrorRow}
    BY <1>4 DEF AppliesFails
  <2> QED BY <2>1, <1>a, NoAlarms DEF PeerKnown, ErrorRow
<1>5. CASE Start
  <2>1. item = 0 /\ UNCHANGED <<said, turn, met, counted>>
    BY <1>5 DEF Start, Asked
  <2>2. item \notin met
    BY <2>1, <1>c
  <2> QED BY <2>1, <2>2, <1>a DEF PeerKnown
<1>6. CASE Return
  <2>1. UNCHANGED <<item, turn, met, counted>> /\ said' = said \union ({0} \X P.sums[counted])
    BY <1>6 DEF Return
  <2>2. \A f \in P.sums[counted] : Alarming(f) => counted # {}
    BY <1>b DEF NeedsPeer
  <2>3. ASSUME NEW s \in said' PROVE s \in said \/ (s[1] = 0 /\ s[2] \in P.sums[counted])
    BY <2>1
  <2>4. \A s \in said' : s[1] # 0 /\ Alarming(s[2]) => s[1] \in met'
    BY <2>1, <2>3 DEF PeerKnown
  <2>5. \A s \in said' : s[1] = 0 /\ Alarming(s[2]) => counted' # {}
    BY <2>1, <2>2, <2>3 DEF PeerKnown
  <2> QED BY <2>1, <2>4, <2>5, <1>a DEF PeerKnown
<1>7. CASE Cancel
  <2>1. /\ UNCHANGED <<item, turn, met, counted>> /\ said' = said \union {ErrorRow}
    BY <1>7 DEF Cancel
  <2> QED BY <2>1, <1>a, NoAlarms DEF PeerKnown, ErrorRow
<1>8. CASE UNCHANGED vars
  BY <1>8, <1>a DEF vars, PeerKnown
<1> QED BY <1>1, <1>2, <1>3, <1>4, <1>5, <1>6, <1>7, <1>8 DEF Next, Done

\* AlarmNeedsPeer for every catalogue whose network probes report nothing
\* grave of a target that never answered: whatever mixture of refusals,
\* timeouts, resets and answers its targets give, an alarm is about one that
\* was there.
THEOREM AlarmsHavePeers == Disciplined /\ Spec => []AlarmNeedsPeer
<1>1. Init => PeerKnown
  BY DEF Init, PeerKnown
<1>2. Disciplined /\ IInv /\ PeerKnown /\ [Next]_vars => PeerKnown'
  BY StepKnowsPeer
<1>3. IInv /\ PeerKnown => AlarmNeedsPeer
  <2> SUFFICES ASSUME IInv, PeerKnown, probe \in DOMAIN Net \ {"OTBacnet", "OTGtp"}
               PROVE  /\ \A i \in 1..total : (\E f \in SaidOf(i) : Alarming(f)) => i \in met
                      /\ (\E f \in SaidOf(0) : Alarming(f)) => counted \intersect met # {}
    BY DEF AlarmNeedsPeer
  <2>1. ASSUME NEW i \in 1..total, NEW f \in SaidOf(i), Alarming(f) PROVE i \in met
    <3>1. PICK s \in said : s[1] = i /\ s[2] = f
      BY <2>1 DEF SaidOf
    <3> QED BY <2>1, <3>1 DEF PeerKnown
  <2>2. ASSUME NEW f \in SaidOf(0), Alarming(f) PROVE counted \intersect met # {}
    <3>1. PICK s \in said : s[1] = 0 /\ s[2] = f
      BY <2>2 DEF SaidOf
    <3> QED BY <2>2, <3>1 DEF PeerKnown
  <2> QED BY <2>1, <2>2
<1> QED BY <1>1, <1>2, <1>3, StaysDisciplined, InvHolds, PTL DEF Spec

-----------------------------------------------------------------------------
(* Induction over numbers, as the search for a least counterexample *)

\* A nonempty set of naturals has a least element.
LEMMA LeastNumber ==
  ASSUME NEW T \in SUBSET Nat, T # {}
  PROVE  \E x \in T : \A y \in T : x <= y
<1> DEFINE R == OpToRel(<, Nat)
<1>1. R = {ss \in Nat \X Nat : ss[1] < ss[2]}
  BY DEF OpToRel
<1>2. IsWellFoundedOn(R, Nat)
  BY NatLessThanWellFounded
<1> HIDE DEF R
<1>3. PICK x \in T : \A y \in T : ~ (<<y, x>> \in R)
  BY <1>2, WFMin
<1>4. \A y \in T : ~ (y < x)
  BY <1>1, <1>3
<1> QED BY <1>4

\* A set of naturals that has 0 and, with a number, the next one, up to n,
\* has all of them.
LEMMA CountUp ==
  ASSUME NEW n \in Nat, NEW T, 0 \in T, \A k \in 1..n : k - 1 \in T => k \in T
  PROVE  \A k \in 0..n : k \in T
<1> DEFINE Missing == {k \in 0..n : k \notin T}
<1> SUFFICES ASSUME Missing # {} PROVE FALSE
  OBVIOUS
<1>0. Missing \in SUBSET Nat
  OBVIOUS
<1>1. PICK m \in Missing : \A k \in Missing : m <= k
  <2> HIDE DEF Missing
  <2> QED BY <1>0, LeastNumber
<1>2. m \in 1..n
  BY <1>1
<1>3. m - 1 \in 0..n /\ m - 1 \notin Missing
  BY <1>1, <1>2
<1> QED BY <1>1, <1>2, <1>3

\* f is the function on 0..n with the value a at 0 and each next value from
\* the one before, and its value at k is in S[k].
Stepwise(f, n, S, a, step) ==
  /\ f = [k \in 0..n |-> f[k]] /\ \A k \in 0..n : f[k] \in S[k]
  /\ f[0] = a /\ \A k \in 1..n : f[k] = step[k][f[k - 1]]

\* There is such a function if each step leads from S[k - 1] to S[k].
LEMMA StepwiseExists ==
  ASSUME NEW n \in Nat, NEW S, NEW a \in S[0], NEW step,
         \A k \in 1..n : \A x \in S[k - 1] : step[k][x] \in S[k]
  PROVE  \E f : Stepwise(f, n, S, a, step)
<1> DEFINE T == {m \in 0..n : \E f : Stepwise(f, m, S, a, step)}
<1>1. 0 \in T
  <2> DEFINE f == [k \in 0..0 |-> a]
  <2>1. f = [k \in 0..0 |-> f[k]] /\ f[0] = a /\ \A k \in 0..0 : k = 0
    OBVIOUS
  <2>2. 1..0 = {}
    OBVIOUS
  <2> HIDE DEF f
  <2>3. Stepwise(f, 0, S, a, step)
    BY <2>1, <2>2 DEF Stepwise
  <2> QED BY <2>3
<1>2. ASSUME NEW m \in 1..n, m - 1 \in T PROVE m \in T
  <2>1. PICK f : Stepwise(f, m - 1, S, a, step)
    BY <1>2
  <2> DEFINE b == step[m][f[m - 1]]
             g == [k \in 0..m |-> IF k = m THEN b ELSE f[k]]
  <2>2. m - 1 \in 0..(m - 1) /\ f[m - 1] \in S[m - 1] /\ b \in S[m]
    BY <2>1 DEF Stepwise
  <2>3. g = [k \in 0..m |-> g[k]]
    OBVIOUS
  <2>4. g[0] = a
    BY <2>1 DEF Stepwise
  <2>5. ASSUME NEW k \in 0..m PROVE g[k] \in S[k]
    <3>1. CASE k = m
      BY <3>1, <2>2
    <3>2. CASE k # m
      <4>1. k \in 0..(m - 1)
        BY <3>2
      <4> QED BY <3>2, <4>1, <2>1 DEF Stepwise
    <3> QED BY <3>1, <3>2
  <2>6. ASSUME NEW k \in 1..m PROVE g[k] = step[k][g[k - 1]]
    <3>1. CASE k = m
      BY <3>1
    <3>2. CASE k # m
      <4>1. k \in 1..(m - 1) /\ k - 1 \in 0..m /\ k \in 0..m
        BY <3>2
      <4> QED BY <2>1, <4>1 DEF Stepwise
    <3> QED BY <3>1, <3>2
  <2> HIDE DEF g
  <2>7. Stepwise(g, m, S, a, step)
    BY <2>3, <2>4, <2>5, <2>6 DEF Stepwise
  <2> QED BY <2>7
<1>3. n \in T
  <2> HIDE DEF T
  <2>1. \A k \in 0..n : k \in T
    BY <1>1, <1>2, CountUp
  <2> QED BY <2>1
<1> QED BY <1>3

-----------------------------------------------------------------------------
(* The time that a run takes *)

\* Patience is what its definition says.
LEMMA PatienceAdds ==
  ASSUME NEW p, p.dial \in Nat, Len(p.turns) \in Nat,
         \A i \in 1..Len(p.turns) : p.turns[i].wait \in Nat
  PROVE  /\ Patience(p) \in [0..Len(p.turns) -> Nat]
         /\ Patience(p)[0] = p.dial
         /\ \A k \in 1..Len(p.turns) : Patience(p)[k] = Patience(p)[k - 1] + p.turns[k].wait
<1> DEFINE n == Len(p.turns)
           first == p.dial
           S == [k \in 0..n |-> Nat]
           Sum(f) == [k \in 0..n |-> IF k = 0 THEN p.dial ELSE f[k - 1] + p.turns[k].wait]
           step == [i \in 1..n |-> [s \in Nat |-> s + p.turns[i].wait]]
<1>1. PICK f : Stepwise(f, n, S, first, step)
  <2>1. n \in Nat /\ first \in S[0]
    OBVIOUS
  <2>2. ASSUME NEW k \in 1..n, NEW x \in S[k - 1] PROVE step[k][x] \in S[k]
    <3>1. k - 1 \in 0..n /\ k \in 0..n /\ x \in Nat
      BY <2>2
    <3> QED BY <3>1
  <2> HIDE DEF step, n, first, S
  <2> QED BY ONLY <2>1, <2>2, StepwiseExists
<1>2. f = Sum(f)
  <2>1. ASSUME NEW k \in 0..n PROVE f[k] = Sum(f)[k]
    <3>1. CASE k = 0
      BY <3>1, <1>1 DEF Stepwise
    <3>2. CASE k # 0
      <4>1. k \in 1..n /\ k - 1 \in 0..n
        BY <3>2
      <4>2. f[k] = f[k - 1] + p.turns[k].wait
        BY <4>1, <1>1 DEF Stepwise
      <4> QED BY <4>1, <4>2, <3>2
    <3> QED BY <3>1, <3>2
  <2> QED BY <2>1, <1>1 DEF Stepwise
<1>3. Patience(p) = CHOOSE g : g = Sum(g)
  BY DEF Patience
<1>4. Patience(p) = Sum(Patience(p))
  BY <1>2, <1>3
<1>5. Patience(p)[0] = p.dial
  BY <1>4
<1>6. ASSUME NEW k \in 1..n PROVE Patience(p)[k] = Patience(p)[k - 1] + p.turns[k].wait
  <2>1. k \in 0..n /\ k # 0
    OBVIOUS
  <2>2. Patience(p)[k] = Sum(Patience(p))[k]
    BY <1>4
  <2> QED BY <2>1, <2>2
<1>7. \A k \in 0..n : Patience(p)[k] \in Nat
  <2> DEFINE T == {k \in 0..n : Patience(p)[k] \in Nat}
  <2>1. 0 \in T
    BY <1>5
  <2>2. ASSUME NEW k \in 1..n, k - 1 \in T PROVE k \in T
    <3>1. Patience(p)[k - 1] \in Nat /\ p.turns[k].wait \in Nat /\ k \in 0..n
      BY <2>2
    <3> QED BY <3>1, <1>6
  <2> HIDE DEF T
  <2>3. \A k \in 0..n : k \in T
    BY <2>1, <2>2, CountUp
  <2> QED BY <2>3 DEF T
<1>8. Patience(p) \in [0..n -> Nat]
  BY <1>4, <1>7
<1> QED BY <1>5, <1>6, <1>8

\* The seconds spent are those of the items that are done and, of the item
\* at hand, those of the connection and of the turns that are over.
SpentInTime ==
  probe \notin Slow =>
    /\ ~(outcome = "cancelled" /\ item > 0)
    /\ item > 0 /\ outcome = "running" =>
         spent <= (item - 1) * Patience(P)[Len(P.turns)]
                    + (IF turn = 0 THEN 0 ELSE Patience(P)[turn - 1])
    /\ item = 0 => spent = 0

\* Products of naturals, for the sums over the items.
LEMMA Products ==
  ASSUME NEW a \in Nat, NEW b \in Nat, NEW c \in Nat
  PROVE  /\ a * c \in Nat /\ (a + 1) * c = a * c + c
         /\ a <= b => a * c <= b * c
OBVIOUS

\* Later turns are over later.
LEMMA PatienceGrows ==
  ASSUME NEW p, p.dial \in Nat, Len(p.turns) \in Nat,
         \A i \in 1..Len(p.turns) : p.turns[i].wait \in Nat
  PROVE  \A k \in 0..Len(p.turns) : Patience(p)[k] <= Patience(p)[Len(p.turns)]
<1> DEFINE n == Len(p.turns)
           T == {k \in 0..n : \A i \in 0..k : Patience(p)[i] <= Patience(p)[k]}
<1>1. /\ Patience(p) \in [0..n -> Nat]
      /\ \A k \in 1..n : Patience(p)[k] = Patience(p)[k - 1] + p.turns[k].wait
  BY PatienceAdds
<1>2. 0 \in T
  BY <1>1
<1>3. ASSUME NEW k \in 1..n, k - 1 \in T PROVE k \in T
  <2>1. k \in 0..n /\ k - 1 \in 0..n /\ p.turns[k].wait \in Nat
    OBVIOUS
  <2>2. Patience(p)[k] \in Nat /\ Patience(p)[k - 1] \in Nat
    BY <1>1, <2>1
  <2>3. Patience(p)[k - 1] <= Patience(p)[k]
    BY <1>1, <2>1, <2>2
  <2>4. ASSUME NEW i \in 0..k PROVE Patience(p)[i] <= Patience(p)[k]
    <3>1. CASE i = k
      BY <3>1, <2>2
    <3>2. CASE i # k
      <4>1. i \in 0..(k - 1) /\ i \in 0..n
        BY <3>2
      <4>2. Patience(p)[i] <= Patience(p)[k - 1] /\ Patience(p)[i] \in Nat
        BY <4>1, <1>1, <1>3
      <4> QED BY <4>2, <2>2, <2>3
    <3> QED BY <3>1, <3>2
  <2> QED BY <2>1, <2>4
<1>4. n \in T
  <2> HIDE DEF T
  <2>1. \A k \in 0..n : k \in T
    BY <1>2, <1>3, CountUp
  <2> QED BY <2>1
<1> QED BY <1>4

\* The waits of the program at hand.
LEMMA WaitFacts ==
  ASSUME TypeOK
  PROVE  /\ P.dial \in Nat /\ Len(P.turns) \in Nat /\ turn \in 0..Len(P.turns)
         /\ \A i \in 1..Len(P.turns) : P.turns[i].wait \in Nat
         /\ Patience(P) \in [0..Len(P.turns) -> Nat] /\ Patience(P)[Len(P.turns)] \in Nat
<1>1. /\ P.dial \in Nat /\ Len(P.turns) \in Nat /\ turn \in 0..Len(P.turns)
      /\ \A i \in 1..(Len(P.turns) - 1) : P.turns[i].wait \in Nat
      /\ P.turns[Len(P.turns)].wait \in Nat
  BY ProgramFacts DEF WellTurned, TypeOK
<1>2. \A i \in 1..Len(P.turns) : i \in 1..(Len(P.turns) - 1) \/ i = Len(P.turns)
  BY <1>1
<1>3. \A i \in 1..Len(P.turns) : P.turns[i].wait \in Nat
  BY <1>1, <1>2
<1>4. Patience(P) \in [0..Len(P.turns) -> Nat]
  BY <1>1, <1>3, PatienceAdds
<1> QED BY <1>1, <1>3, <1>4

\* A step of run() spends nothing or what it waits for.
LEMMA JudgedSpent ==
  ASSUME TypeOK, Connect \/ ConnectFails \/ Answer \/ TimesOut \/ OSError \/ Eof
  PROVE  spent' = spent \/ spent' = spent + Pending
<1>1. spent \in Nat /\ turn \in Nat
  BY ProgramFacts, LimitAssumption DEF TypeOK
<1>2. CASE Connect \/ ConnectFails
  BY <1>1, <1>2 DEF Connect, ConnectFails, Wait, Pending
<1>3. CASE Answer \/ TimesOut
  <2>1. turn # 0
    BY <1>1, <1>3 DEF Answer, TimesOut
  <2>2. spent' = spent + 0 \/ spent' = spent + Now.wait
    BY <1>3 DEF Answer, TimesOut, Wait
  <2> QED BY <1>1, <2>1, <2>2 DEF Pending
<1>4. CASE OSError \/ Eof
  BY <1>4 DEF OSError, Eof
<1> QED BY <1>2, <1>3, <1>4

\* A wait that an item may still need is covered by its share of the limit.
LEMMA PendingInTime ==
  ASSUME Disciplined, IInv, SpentInTime, Awaits, probe \notin Slow
  PROVE  /\ Patience(P) \in [0..Len(P.turns) -> Nat] /\ turn \in 0..Len(P.turns)
         /\ spent + Pending <= (item - 1) * Patience(P)[Len(P.turns)] + Patience(P)[turn]
         /\ spent \in Nat /\ Pending \in Nat /\ Patience(P)[turn] <= Patience(P)[Len(P.turns)]
         /\ ~P.yields
         /\ item * Patience(P)[Len(P.turns)] = (item - 1) * Patience(P)[Len(P.turns)] + Patience(P)[Len(P.turns)]
         /\ item * Patience(P)[Len(P.turns)] < Limit
         /\ (item - 1) * Patience(P)[Len(P.turns)] \in Nat
<1> DEFINE n == Len(P.turns)
           all == Patience(P)[n]
<1>a. TypeOK /\ probe \in Names /\ total \in P.items /\ item \in 1..total /\ outcome = "running"
  BY DEF IInv, TypeOK, Awaits
<1>b. P.dial \in Nat /\ P.items \subseteq Nat /\ n \in Nat /\ turn \in 0..n /\ spent \in Nat
  BY <1>a, ProgramFacts, WaitFacts, LimitAssumption DEF TypeOK
<1>c. \A i \in 1..n : P.turns[i].wait \in Nat
  BY <1>a, WaitFacts
<1>1. /\ Patience(P) \in [0..n -> Nat] /\ Patience(P)[0] = P.dial
      /\ \A k \in 1..n : Patience(P)[k] = Patience(P)[k - 1] + P.turns[k].wait
  BY <1>b, <1>c, PatienceAdds
<1>2. \A k \in 0..n : Patience(P)[k] <= all
  BY <1>b, <1>c, PatienceGrows
<1>3. total \in Nat /\ item \in Nat /\ item - 1 \in Nat /\ item <= total /\ all \in Nat
  BY <1>a, <1>b, <1>1
<1>4. InTime(P)
  BY <1>a DEF Disciplined, Keeps, P
<1>5. ~P.yields /\ total * all < Limit
  BY <1>4, <1>a DEF InTime
<1> HIDE DEF all, n
<1>6. item * all <= total * all /\ item * all \in Nat /\ total * all \in Nat
  BY <1>3, Products
<1>7. item * all = (item - 1) * all + all /\ (item - 1) * all \in Nat
  <2>1. PICK m \in Nat : m = item - 1
    BY <1>3
  <2>2. (m + 1) * all = m * all + all /\ m * all \in Nat
    BY <2>1, <1>3, Products
  <2>3. item = m + 1
    BY <2>1, <1>3
  <2> QED BY <2>1, <2>2, <2>3
<1>8. item * all < Limit
  BY <1>5, <1>6, LimitAssumption
<1>9. Pending \in Nat /\ spent + Pending <= (item - 1) * all + Patience(P)[turn]
  <2>1. CASE turn = 0
    <3>1. spent <= (item - 1) * all + 0
      BY <1>a, <1>3, <2>1 DEF SpentInTime, all, n
    <3> QED BY <2>1, <3>1, <1>1, <1>b, <1>7 DEF Pending
  <2>2. CASE turn # 0
    <3>1. spent <= (item - 1) * all + Patience(P)[turn - 1]
      BY <1>a, <1>3, <2>2 DEF SpentInTime, all, n
    <3>2. turn \in 1..n /\ turn - 1 \in 0..n
      BY <2>2, <1>b
    <3>3. Patience(P)[turn] = Patience(P)[turn - 1] + P.turns[turn].wait
      BY <3>2, <1>1
    <3>4. Patience(P)[turn - 1] \in Nat /\ P.turns[turn].wait \in Nat
      BY <3>2, <1>1, <1>c
    <3>5. Pending = P.turns[turn].wait
      BY <2>2 DEF Pending, Now
    <3> QED BY <3>1, <3>3, <3>4, <3>5, <1>b, <1>7
  <2> QED BY <2>1, <2>2
<1> QED BY <1>b, <1>1, <1>2, <1>5, <1>7, <1>8, <1>9 DEF all, n

\* No step spends more than the program allows for, so none is cut short.
LEMMA StepInTime ==
  ASSUME Disciplined, IInv, SpentInTime, [Next]_vars
  PROVE  SpentInTime'
<1>a. TypeOK /\ probe' = probe /\ P' = P
  BY DEF IInv, P, Next, vars, Done, Skip, AppliesFails, Start, Connect,
         ConnectFails, Answer, TimesOut, OSError, Eof, Return, Cancel
<1> SUFFICES ASSUME probe \notin Slow PROVE SpentInTime'
  BY <1>a DEF SpentInTime
<1> DEFINE all == Patience(P)[Len(P.turns)]
<1>1. CASE Connect \/ ConnectFails \/ Answer \/ TimesOut \/ OSError \/ Eof
  <2>1. Awaits /\ outcome # "cancelled" /\ item > 0
    BY <1>1, <1>a, ProgramFacts
       DEF Connect, ConnectFails, Answer, TimesOut, OSError, Eof, Awaits, TypeOK
  <2>2. /\ spent' <= (item - 1) * all + Patience(P)[turn]
        /\ spent' <= item * all /\ turn \in Nat
    <3>0. spent \in Nat /\ Pending \in Nat
      BY <2>1, PendingInTime
    <3>1. spent' = spent \/ spent' = spent + Pending
      BY <1>1, <1>a, JudgedSpent
    <3>2. spent' \in Nat /\ spent' <= spent + Pending
      BY <3>0, <3>1
    <3>3. /\ spent + Pending <= (item - 1) * all + Patience(P)[turn]
          /\ Patience(P)[turn] <= all
          /\ item * all = (item - 1) * all + all /\ (item - 1) * all \in Nat
      BY <2>1, PendingInTime
    <3>4. Patience(P)[turn] \in Nat /\ all \in Nat /\ turn \in Nat
      BY <1>a, WaitFacts
    <3> HIDE DEF all
    <3> QED BY <3>0, <3>2, <3>3, <3>4
  <2>3. /\ outcome' # "cancelled"
        /\ \/ outcome' # "running" /\ item' = item
           \/ item' = item /\ turn' = turn + 1
           \/ item' = item + 1 /\ turn' = 0
    <3>1. CASE Connect
      BY <3>1 DEF Connect, Awaits
    <3>2. CASE ConnectFails \/ Answer \/ TimesOut \/ OSError \/ Eof
      <4>1. PICK way \in {"stop", "timeout"}, j \in {P.gone} \union Judgements(Now) : Follow(j, way)
        BY <3>2, <1>a, JudgedStep
      <4> QED BY <4>1, <2>1 DEF Follow, NextItem
    <3> QED BY <1>1, <3>1, <3>2
  <2>4. item \in Nat /\ item' \in Nat /\ item' > 0
    BY <2>1, <2>3, <1>a, ProgramFacts DEF TypeOK
  <2>5. ASSUME outcome' = "running"
        PROVE  spent' <= (item' - 1) * all + (IF turn' = 0 THEN 0 ELSE Patience(P)[turn' - 1])
    <3>1. CASE item' = item /\ turn' = turn + 1
      <4>1. turn' # 0 /\ turn' - 1 = turn
        BY <2>2, <3>1
      <4> QED BY <2>2, <3>1, <4>1
    <3>2. CASE item' = item + 1 /\ turn' = 0
      <4>1. item' - 1 = item
        BY <2>4, <3>2
      <4>2. item * all \in Nat
        <5>1. all \in Nat
          BY <1>a, WaitFacts
        <5> HIDE DEF all
        <5> QED BY <5>1, <2>4, Products
      <4>3. spent' <= item * all + 0
        <5> HIDE DEF all
        <5> QED BY <2>2, <4>2
      <4> QED BY <3>2, <4>1, <4>3
    <3> QED BY <2>3, <2>5, <3>1, <3>2
  <2> QED BY <2>3, <2>4, <2>5, <1>a DEF SpentInTime
<1>2. CASE Cancel
  <2>1. Awaits
    BY <1>2 DEF Cancel
  <2>2. spent + Pending < Limit
    <3>1. /\ spent + Pending <= (item - 1) * all + Patience(P)[turn]
          /\ Patience(P)[turn] <= all /\ spent \in Nat /\ Pending \in Nat /\ item * all < Limit
          /\ item * all = (item - 1) * all + all /\ (item - 1) * all \in Nat
      BY <2>1, PendingInTime
    <3>2. Patience(P)[turn] \in Nat /\ all \in Nat
      BY <1>a, WaitFacts
    <3> HIDE DEF all
    <3> QED BY <3>1, <3>2, LimitAssumption
  <2>3. ~P.yields /\ spent + Pending \in Nat
    BY <2>1, PendingInTime
  <2> QED BY <1>2, <2>2, <2>3, LimitAssumption DEF Cancel
<1>3. CASE Skip \/ AppliesFails
  BY <1>3, <1>a DEF Skip, AppliesFails, Asked, SpentInTime
<1>4. CASE Start
  <2>1. item = 0 /\ item' = 1 /\ UNCHANGED <<turn, spent, outcome>> /\ outcome = "running" /\ spent = 0
    BY <1>4 DEF Start, Asked, SpentInTime
  <2>2. ~(turn = 0) => Patience(P)[turn - 1] \in Nat
    BY <1>a, WaitFacts
  <2>3. 0 * all = 0
    <3>1. all \in Nat
      BY <1>a, WaitFacts
    <3> HIDE DEF all
    <3> QED BY <3>1
  <2>4. (item' - 1) * all = 0
    BY <2>1, <2>3
  <2> HIDE DEF all
  <2>5. spent' <= (item' - 1) * all + (IF turn' = 0 THEN 0 ELSE Patience(P)[turn' - 1])
    BY <2>1, <2>2, <2>4
  <2> QED BY <2>1, <2>5, <1>a DEF SpentInTime, all
<1>5. CASE Return
  BY <1>5, <1>a, ProgramFacts DEF Return, SpentInTime, TypeOK
<1>6. CASE UNCHANGED vars
  BY <1>6, <1>a DEF vars, SpentInTime
<1> QED BY <1>1, <1>2, <1>3, <1>4, <1>5, <1>6 DEF Next, Done

\* OwnTimeoutsSuffice for every limit and every catalogue whose other probes
\* add up to less than the limit, taken over all items: none of them is ever
\* cancelled, however late each answer comes.
THEOREM TimeoutsSuffice == Disciplined /\ Spec => []OwnTimeoutsSuffice
<1>1. Init => SpentInTime
  BY DEF Init, SpentInTime
<1>2. Disciplined /\ IInv /\ SpentInTime /\ [Next]_vars => SpentInTime'
  BY StepInTime
<1>3. SpentInTime => OwnTimeoutsSuffice
  BY DEF SpentInTime, OwnTimeoutsSuffice
<1> QED BY <1>1, <1>2, <1>3, StaysDisciplined, InvHolds, PTL DEF Spec

-----------------------------------------------------------------------------
(***************************************************************************)
(* The rebuilding of a TCP flow, for any modulus of the sequence numbers,  *)
(* any length of the flow and any number of segments.                      *)
(***************************************************************************)

\* The first byte of a segment, and the one behind its last.
Begin(s) == s.payload[1]
Behindmost(s) == s.payload[1] + Len(s.payload)

\* What a segment carries.
LEMMA SegmentFacts ==
  ASSUME NEW isn \in Nat, NEW s \in Segments(isn)
  PROVE  /\ Begin(s) \in Nat /\ Len(s.payload) \in Nat \ {0}
         /\ Behindmost(s) \in Nat /\ Behindmost(s) <= StreamLength
         /\ s.seq = (isn + Begin(s)) % SeqModulus
         /\ s.payload \in Seq(Nat)
         /\ \A x \in 1..Len(s.payload) : s.payload[x] = Begin(s) + x - 1
         /\ ToSet(s.payload) = Begin(s)..(Behindmost(s) - 1)
<1>a. StreamLength \in Nat /\ MaxSegment \in Nat
  BY CaptureAssumption
<1>1. PICK f \in (0..(StreamLength - 1)) \X (1..MaxSegment) :
         f[1] + f[2] <= StreamLength /\ s = Segment(isn, f[1], f[2])
  BY DEF Segments
<1>2. f[1] \in Nat /\ f[2] \in Nat \ {0}
  BY <1>1, <1>a
<1> DEFINE p == [i \in 1..f[2] |-> f[1] + i - 1]
<1>3. s.payload = p /\ s.seq = (isn + f[1]) % SeqModulus
  BY <1>1 DEF Segment
<1>4. p \in [1..f[2] -> Nat] /\ DOMAIN p = 1..f[2]
  BY <1>2
<1>5. p \in Seq(Nat)
  BY <1>2, <1>4, SeqDef
<1>6. Len(p) = f[2]
  <2>1. DOMAIN p = 1..Len(p) /\ Len(p) \in Nat
    BY <1>5, LenProperties
  <2> HIDE DEF p
  <2> QED BY <2>1, <1>4, <1>2
<1>7. \A x \in 1..f[2] : p[x] = f[1] + x - 1
  OBVIOUS
<1>8. p[1] = f[1]
  BY <1>2
<1>9. ToSet(p) = f[1]..(f[1] + f[2] - 1)
  <2>1. ASSUME NEW b \in f[1]..(f[1] + f[2] - 1) PROVE \E x \in 1..f[2] : p[x] = b
    <3>1. b - f[1] + 1 \in 1..f[2]
      BY <1>2
    <3>2. p[b - f[1] + 1] = b
      BY <3>1, <1>2, <1>7
    <3> QED BY <3>1, <3>2
  <2>2. \A x \in 1..f[2] : p[x] \in f[1]..(f[1] + f[2] - 1)
    BY <1>2, <1>7
  <2>3. ToSet(p) = {p[x] : x \in 1..f[2]}
    BY <1>4 DEF ToSet
  <2> HIDE DEF p
  <2> QED BY <2>1, <2>2, <2>3
<1> HIDE DEF p
<1> QED BY <1>1, <1>2, <1>3, <1>5, <1>6, <1>7, <1>8, <1>9 DEF Begin, Behindmost

\* A captured byte is one of a segment.
LEMMA CapturedBytes ==
  ASSUME NEW isn \in Nat, NEW segs \in Seq(Segments(isn)), NEW b
  PROVE  b \in Captured(segs) <=>
           \E i \in 1..Len(segs) : b \in Begin(segs[i])..(Behindmost(segs[i]) - 1)
<1>1. /\ DOMAIN segs = 1..Len(segs)
      /\ \A i \in 1..Len(segs) : segs[i] \in Segments(isn)
  BY LenProperties
<1>2. \A i \in 1..Len(segs) :
         ToSet(segs[i].payload) = Begin(segs[i])..(Behindmost(segs[i]) - 1)
  BY <1>1, SegmentFacts
<1>3. Captured(segs) = UNION {ToSet(segs[i].payload) : i \in 1..Len(segs)}
  BY <1>1 DEF Captured, ToSet
<1> QED BY <1>2, <1>3

\* Numbers that do not wrap are as far apart as what they number.
LEMMA NumbersApart ==
  ASSUME NEW m \in Nat \ {0}, NEW x \in Nat, NEW d \in 0..(m - 1), x % m <= (x + d) % m
  PROVE  (((x + d) % m) - (x % m)) % m = d
<1>1. (x + d) % m = (x % m) + d
  OBVIOUS
<1>2. x % m \in Nat
  OBVIOUS
<1>3. ((x + d) % m) - (x % m) = d
  BY <1>1, <1>2
<1>4. d % m = d
  OBVIOUS
<1> QED BY <1>3, <1>4

\* The first byte captured.
FirstByte(segs) == CHOOSE b \in Captured(segs) : \A c \in Captured(segs) : b <= c

\* The first byte captured is the first of some segment.
LEMMA FirstByteFacts ==
  ASSUME NEW isn \in Nat, NEW segs \in Seq(Segments(isn)), segs # << >>
  PROVE  /\ FirstByte(segs) \in Captured(segs) /\ FirstByte(segs) \in Nat
         /\ \A c \in Captured(segs) : FirstByte(segs) <= c /\ c \in Nat /\ c < StreamLength
         /\ \A i \in 1..Len(segs) : Begin(segs[i]) \in Captured(segs)
         /\ \E i \in 1..Len(segs) : Begin(segs[i]) = FirstByte(segs)
<1>1. /\ Len(segs) \in Nat \ {0} /\ DOMAIN segs = 1..Len(segs)
      /\ \A i \in 1..Len(segs) : segs[i] \in Segments(isn)
  BY LenProperties, EmptySeq
<1>2. \A i \in 1..Len(segs) : /\ Begin(segs[i]) \in Nat /\ Len(segs[i].payload) \in Nat \ {0}
                               /\ Behindmost(segs[i]) \in Nat /\ Behindmost(segs[i]) <= StreamLength
                               /\ Behindmost(segs[i]) = Begin(segs[i]) + Len(segs[i].payload)
  BY <1>1, SegmentFacts DEF Behindmost, Begin
<1>3. ASSUME NEW i \in 1..Len(segs) PROVE Begin(segs[i]) \in Captured(segs)
  <2>1. /\ Begin(segs[i]) \in Nat /\ Len(segs[i].payload) \in Nat \ {0}
        /\ Behindmost(segs[i]) = Begin(segs[i]) + Len(segs[i].payload)
    BY <1>2
  <2>2. Begin(segs[i]) \in Begin(segs[i])..(Behindmost(segs[i]) - 1)
    BY <2>1
  <2> QED BY <2>2, CapturedBytes
<1>4. ASSUME NEW c \in Captured(segs)
      PROVE  /\ c \in Nat /\ c < StreamLength
             /\ \E i \in 1..Len(segs) : Begin(segs[i]) <= c
  <2>1. PICK i \in 1..Len(segs) : c \in Begin(segs[i])..(Behindmost(segs[i]) - 1)
    BY CapturedBytes
  <2>2. /\ Begin(segs[i]) \in Nat /\ Behindmost(segs[i]) \in Nat /\ StreamLength \in Nat
        /\ Behindmost(segs[i]) <= StreamLength
    BY <1>2, CaptureAssumption
  <2> QED BY <2>1, <2>2
<1>5. 1 \in 1..Len(segs)
  BY <1>1
<1>6. Captured(segs) # {} /\ Captured(segs) \in SUBSET Nat
  BY <1>3, <1>4, <1>5
<1>7. \E b \in Captured(segs) : \A c \in Captured(segs) : b <= c
  BY <1>6, LeastNumber
<1>8. FirstByte(segs) \in Captured(segs) /\ \A c \in Captured(segs) : FirstByte(segs) <= c
  BY <1>7 DEF FirstByte
<1>9. PICK i \in 1..Len(segs) : Begin(segs[i]) <= FirstByte(segs)
  BY <1>4, <1>8
<1>10. Begin(segs[i]) = FirstByte(segs)
  BY <1>2, <1>3, <1>4, <1>8, <1>9
<1> QED BY <1>3, <1>4, <1>8, <1>10

\* If the numbers do not wrap, the distance of a segment from the smallest
\* sequence number is that of its bytes from the first byte captured.
LEMMA OffsetsOfBytes ==
  ASSUME NEW isn \in Nat, NEW segs \in Seq(Segments(isn)), segs # << >>, ~Wraps(isn, segs),
         NEW i \in 1..Len(segs)
  PROVE  Offset(segs[i].seq, Base(segs)) = Begin(segs[i]) - FirstByte(segs)
<1> DEFINE first == FirstByte(segs)
           Number(b) == (isn + b) % SeqModulus
<1>a. SeqModulus \in Nat \ {0} /\ StreamLength \in Nat /\ StreamLength <= SeqModulus
  BY CaptureAssumption
<1>b. /\ DOMAIN segs = 1..Len(segs)
      /\ \A j \in 1..Len(segs) : segs[j] \in Segments(isn)
  BY LenProperties
<1>c. \A j \in 1..Len(segs) : segs[j].seq = Number(Begin(segs[j]))
  BY <1>b, SegmentFacts
<1>d. /\ first \in Captured(segs) /\ first \in Nat
      /\ \A c \in Captured(segs) : first <= c /\ c \in Nat /\ c < StreamLength
      /\ \A j \in 1..Len(segs) : Begin(segs[j]) \in Captured(segs)
  BY FirstByteFacts
<1>e. PICK k \in 1..Len(segs) : Begin(segs[k]) = first
  BY FirstByteFacts
<1>1. \A b \in Captured(segs) : ~(Number(b) < Number(first))
  BY DEF Wraps, FirstByte
<1>2. \A b \in Nat : Number(b) \in Nat
  BY <1>a
<1> HIDE DEF first
<1>3. \A b \in Captured(segs) : Number(first) <= Number(b)
  <2> HIDE DEF Number
  <2> QED BY <1>1, <1>2, <1>d
<1>4. Base(segs) = Number(first)
  <2> DEFINE Seqs == {s.seq : s \in ToSet(segs)}
  <2>1. Seqs = {segs[j].seq : j \in 1..Len(segs)} /\ ToSet(segs) = {segs[j] : j \in 1..Len(segs)}
    BY <1>b DEF ToSet
  <2>2. Number(first) \in Seqs
    BY <2>1, <1>c, <1>e
  <2> HIDE DEF Number
  <2>3. \A s \in ToSet(segs) : Number(first) <= s.seq /\ s.seq \in Nat
    BY <2>1, <1>c, <1>d, <1>3, <1>2
  <2>4. Base(segs) \in Seqs /\ \A s \in ToSet(segs) : Base(segs) <= s.seq
    BY <2>2, <2>3 DEF Base
  <2>5. \A n \in Seqs : n \in Nat /\ Number(first) <= n /\ Base(segs) <= n
    BY <2>3, <2>4
  <2> QED BY <2>2, <2>4, <2>5
<1> DEFINE x == isn + first
           d == Begin(segs[i]) - first
<1>5. x \in Nat /\ d \in 0..(SeqModulus - 1) /\ x + d = isn + Begin(segs[i])
  <2>1. Begin(segs[i]) \in Captured(segs)
    BY <1>d
  <2>2. first \in Nat /\ Begin(segs[i]) \in Nat /\ first <= Begin(segs[i]) /\ Begin(segs[i]) < StreamLength
    BY <2>1, <1>d
  <2> QED BY <2>2, <1>a
<1>6. x % SeqModulus <= (x + d) % SeqModulus
  <2>1. Number(first) <= Number(Begin(segs[i]))
    BY <1>3, <1>d
  <2> QED BY <2>1, <1>5
<1>7. (((x + d) % SeqModulus) - (x % SeqModulus)) % SeqModulus = d
  <2> HIDE DEF x, d
  <2> QED BY <1>5, <1>6, <1>a, NumbersApart
<1>8. segs[i].seq = (x + d) % SeqModulus /\ Base(segs) = x % SeqModulus
  BY <1>c, <1>4, <1>5
<1> QED BY <1>7, <1>8 DEF Offset, first

(***************************************************************************)
(* After k rounds the buffer is a run of captured bytes from the first     *)
(* one, and a segment that was dealt with is part of it or lies behind a   *)
(* gap; in that case, so do all that are left.                             *)
(***************************************************************************)
After(segs, k) ==
  {r \in [buf : Seq(Nat), left : SUBSET (1..Len(segs))] :
     /\ Cardinality(r.left) = Len(segs) - k
     /\ \A x \in 1..Len(r.buf) : r.buf[x] = FirstByte(segs) + x - 1 /\ r.buf[x] \in Captured(segs)
     /\ \A i \in (1..Len(segs)) \ r.left :
          \/ Behindmost(segs[i]) - FirstByte(segs) <= Len(r.buf)
          \/ /\ Begin(segs[i]) - FirstByte(segs) > Len(r.buf)
             /\ \A j \in r.left : Begin(segs[i]) <= Begin(segs[j])}

\* There is a segment to go on with, and no other of those left begins before.
LEMMA ForemostFacts ==
  ASSUME NEW isn \in Nat, NEW segs \in Seq(Segments(isn)), segs # << >>, ~Wraps(isn, segs),
         NEW left \in SUBSET (1..Len(segs)), left # {}
  PROVE  /\ Foremost(segs, left) \in left
         /\ \A j \in left : Begin(segs[Foremost(segs, left)]) <= Begin(segs[j])
<1> DEFINE first == FirstByte(segs)
<1>a. Len(segs) \in Nat /\ \A i \in 1..Len(segs) : segs[i] \in Segments(isn)
  BY LenProperties
<1>b. /\ first \in Nat
      /\ \A i \in 1..Len(segs) : Begin(segs[i]) \in Nat /\ first <= Begin(segs[i])
  BY <1>a, FirstByteFacts, SegmentFacts
<1>c. \A i \in 1..Len(segs) : Off(segs, i) = Begin(segs[i]) - first
  BY OffsetsOfBytes DEF Off
<1> HIDE DEF first
<1>d. \A i \in left : Off(segs, i) \in Nat /\ i \in Nat
  BY <1>a, <1>b, <1>c
<1> DEFINE Offs == {Off(segs, i) : i \in left}
<1>1. PICK o \in Offs : \A p \in Offs : o <= p
  <2>1. Offs \in SUBSET Nat /\ Offs # {}
    BY <1>d
  <2> HIDE DEF Offs
  <2> QED BY <2>1, LeastNumber
<1> DEFINE Ties == {i \in left : Off(segs, i) = o}
<1>2. PICK i \in Ties : \A j \in Ties : i <= j
  <2>1. Ties \in SUBSET Nat /\ Ties # {}
    BY <1>1, <1>d
  <2> HIDE DEF Ties
  <2> QED BY <2>1, LeastNumber
<1>3. ASSUME NEW j \in left PROVE Off(segs, i) < Off(segs, j) \/ (Off(segs, i) = Off(segs, j) /\ i <= j)
  <2>1. o <= Off(segs, j) /\ Off(segs, i) = o /\ o \in Nat /\ Off(segs, j) \in Nat
    BY <1>1, <1>2, <1>d
  <2>2. CASE Off(segs, j) = o
    BY <2>1, <2>2, <1>2
  <2>3. CASE Off(segs, j) # o
    BY <2>1, <2>3
  <2> QED BY <2>2, <2>3
<1> DEFINE f == Foremost(segs, left)
<1>4. /\ f \in left
      /\ \A j \in left : Off(segs, f) < Off(segs, j) \/ (Off(segs, f) = Off(segs, j) /\ f <= j)
  BY <1>2, <1>3 DEF Foremost
<1> HIDE DEF f
<1>5. ASSUME NEW j \in left PROVE Begin(segs[f]) <= Begin(segs[j])
  <2>1. Off(segs, f) <= Off(segs, j)
    BY <1>4, <1>d
  <2>2. f \in 1..Len(segs) /\ j \in 1..Len(segs)
    BY <1>4
  <2>3. /\ Off(segs, f) = Begin(segs[f]) - first /\ Off(segs, j) = Begin(segs[j]) - first
        /\ Begin(segs[f]) \in Nat /\ Begin(segs[j]) \in Nat
    BY <2>2, <1>b, <1>c
  <2> QED BY <2>1, <2>3, <1>b
<1> QED BY <1>4, <1>5 DEF f

\* What one segment adds to a run of bytes from the first one on: nothing, as
\* it lies behind a gap or in the run, or the bytes by which it is longer.
Extended(s, first, buf, new) ==
  \/ new = buf /\ Begin(s) - first > Len(buf)
  \/ new = buf /\ Behindmost(s) - first <= Len(buf)
  \/ /\ Begin(s) - first <= Len(buf) /\ Len(buf) < Behindmost(s) - first
     /\ new \in Seq(Nat) /\ Len(new) = Behindmost(s) - first
     /\ \A x \in 1..Len(buf) : new[x] = buf[x]
     /\ \A x \in (Len(buf) + 1)..Len(new) : new[x] = first + x - 1

\* Extend adds just that.
LEMMA ExtendFacts ==
  ASSUME NEW isn \in Nat, NEW s \in Segments(isn), NEW first \in Nat, first <= Begin(s),
         NEW buf \in Seq(Nat), \A x \in 1..Len(buf) : buf[x] = first + x - 1,
         NEW new, new = Extend(buf, Begin(s) - first, s.payload)
  PROVE  Extended(s, first, buf, new)
<1> DEFINE n == Len(buf)
           len == Len(s.payload)
           off == Begin(s) - first
           tail == SubSeq(s.payload, n - off + 1, len)
<1>a. /\ Begin(s) \in Nat /\ len \in Nat \ {0} /\ s.payload \in Seq(Nat)
      /\ \A x \in 1..len : s.payload[x] = Begin(s) + x - 1
      /\ Behindmost(s) = Begin(s) + len
  BY SegmentFacts DEF Behindmost, Begin
<1>b. n \in Nat /\ off \in Nat /\ Behindmost(s) - first = off + len
  BY <1>a, LenProperties
<1>1. CASE off > n
  BY <1>1 DEF Extend, Extended
<1>2. CASE off + len <= n
  BY <1>2, <1>b DEF Extend, Extended
<1>3. CASE ~(off > n) /\ ~(off + len <= n)
  <2>1. new = buf \o tail
    BY <1>3 DEF Extend
  <2> HIDE DEF off, n, len
  <2>2. off <= n /\ n < off + len /\ n - off + 1 \in 1..len /\ n - off + 1 \in Int
    BY <1>3, <1>a, <1>b
  <2>3. /\ tail \in Seq(Nat) /\ Len(tail) = off + len - n
        /\ \A x \in 1..(off + len - n) : tail[x] = s.payload[n - off + x]
    <3> DEFINE m == n - off + 1
    <3>0. m \in 1..len /\ m \in Int /\ len \in Int /\ tail = SubSeq(s.payload, m, len)
      BY <2>2, <1>a
    <3>1. /\ tail \in Seq(Nat) /\ Len(tail) = len - m + 1
          /\ \A x \in 1..(len - m + 1) : tail[x] = s.payload[m + x - 1]
      <4> HIDE DEF m, tail
      <4>1. \A x \in m..len : s.payload[x] \in Nat
        <5>1. \A x \in m..len : x \in 1..len /\ Begin(s) + x - 1 \in Nat
          BY <3>0, <1>a
        <5> QED BY <5>1, <1>a
      <4>2. m <= len
        BY <3>0
      <4> QED BY <4>1, <4>2, <3>0, SubSeqProperties
    <3>2. len - (n - off + 1) + 1 = off + len - n
      BY <1>a, <1>b
    <3>3. ASSUME NEW x \in 1..(off + len - n) PROVE tail[x] = s.payload[n - off + x]
      <4>1. (n - off + 1) + x - 1 = n - off + x
        BY <1>b
      <4>2. x \in 1..(len - m + 1)
        BY <3>2
      <4>3. tail[x] = s.payload[m + x - 1]
        BY <3>1, <4>2
      <4> QED BY <4>1, <4>3
    <3> QED BY <3>1, <3>2, <3>3
  <2> HIDE DEF tail
  <2>4. /\ new \in Seq(Nat) /\ Len(new) = n + Len(tail)
        /\ \A x \in 1..(n + Len(tail)) : new[x] = IF x <= n THEN buf[x] ELSE tail[x - n]
    <3>1. /\ buf \o tail \in Seq(Nat) /\ Len(buf \o tail) = Len(buf) + Len(tail)
          /\ \A x \in 1..(Len(buf) + Len(tail)) :
               (buf \o tail)[x] = IF x <= Len(buf) THEN buf[x] ELSE tail[x - Len(buf)]
      <4>1. tail \in Seq(Nat)
        BY <2>3
      <4> QED BY ONLY <4>1, buf \in Seq(Nat), ConcatProperties
    <3> QED BY <2>1, <3>1 DEF n
  <2>5. Len(new) = off + len /\ n + Len(tail) = off + len
    BY <2>3, <2>4, <1>a, <1>b
  <2>7. ASSUME NEW x \in 1..n PROVE new[x] = buf[x]
    <3>1. x \in 1..(n + Len(tail)) /\ x <= n
      BY <2>2, <2>5, <1>a, <1>b
    <3> QED BY <3>1, <2>4
  <2>6. ASSUME NEW x \in (n + 1)..(off + len) PROVE new[x] = first + x - 1
    <3> DEFINE y == x - n
    <3>1. y \in 1..(off + len - n) /\ x = n + y /\ n - off + y \in 1..len
      BY <2>2, <1>a, <1>b
    <3>2. new[x] = tail[y]
      <4>1. x \in 1..(n + Len(tail)) /\ ~(x <= n)
        BY <2>2, <2>5, <1>a, <1>b
      <4> QED BY <4>1, <2>4
    <3>3. tail[y] = s.payload[n - off + y]
      BY <3>1, <2>3
    <3>4. s.payload[n - off + y] = Begin(s) + (n - off + y) - 1
      <4> DEFINE z == n - off + y
      <4>1. z \in 1..len
        BY <3>1
      <4> HIDE DEF z
      <4>2. s.payload[z] = Begin(s) + z - 1
        BY <4>1, <1>a
      <4> QED BY <4>2 DEF z
    <3>5. Begin(s) + (n - off + y) - 1 = first + x - 1
      <4>1. x \in Int /\ off = Begin(s) - first
        BY <1>a, <1>b DEF off
      <4>2. Begin(s) \in Nat /\ n \in Nat
        BY <1>a, <1>b
      <4> QED BY ONLY <4>1, <4>2, first \in Nat, SMTT(20) DEF y
    <3> QED BY <3>2, <3>3, <3>4, <3>5
  <2> QED BY <1>b, <2>2, <2>4, <2>5, <2>6, <2>7 DEF off, n, len, Extended
<1> QED BY <1>1, <1>2, <1>3

\* A round of the loop leads from what holds after k - 1 to what does after k.
LEMMA RoundGood ==
  ASSUME NEW isn \in Nat, NEW segs \in Seq(Segments(isn)), segs # << >>, ~Wraps(isn, segs),
         NEW k \in 1..Len(segs), NEW r \in After(segs, k - 1)
  PROVE  Round(segs, r) \in After(segs, k)
<1> DEFINE first == FirstByte(segs)
           n == Len(segs)
           i == Foremost(segs, r.left)
           s == segs[i]
           new == Extend(r.buf, Off(segs, i), s.payload)
           left == r.left \ {i}
<1>a. /\ r.buf \in Seq(Nat) /\ r.left \in SUBSET (1..n) /\ Cardinality(r.left) = n - (k - 1)
      /\ \A x \in 1..Len(r.buf) : r.buf[x] = first + x - 1 /\ r.buf[x] \in Captured(segs)
      /\ \A j \in (1..n) \ r.left :
           \/ Behindmost(segs[j]) - first <= Len(r.buf)
           \/ /\ Begin(segs[j]) - first > Len(r.buf)
              /\ \A l \in r.left : Begin(segs[j]) <= Begin(segs[l])
  BY DEF After
<1>b. n \in Nat /\ k \in Nat /\ Len(r.buf) \in Nat /\ \A j \in 1..n : segs[j] \in Segments(isn)
  BY <1>a, LenProperties
<1>c. /\ first \in Nat
      /\ \A j \in 1..n : /\ Begin(segs[j]) \in Nat /\ first <= Begin(segs[j])
                         /\ Behindmost(segs[j]) \in Nat
  BY <1>b, FirstByteFacts, SegmentFacts
<1>d. IsFiniteSet(r.left) /\ r.left # {}
  <2>1. IsFiniteSet(1..n)
    BY <1>b, FS_Interval
  <2>2. IsFiniteSet(r.left)
    BY <2>1, <1>a, FS_Subset
  <2>3. Cardinality(r.left) # 0
    BY <1>a, <1>b
  <2> QED BY <2>2, <2>3, FS_EmptySet
<1>e. i \in r.left /\ \A j \in r.left : Begin(s) <= Begin(segs[j])
  BY <1>a, <1>d, ForemostFacts
<1>f. i \in 1..n /\ s \in Segments(isn) /\ Off(segs, i) = Begin(s) - first
  BY <1>a, <1>b, <1>e, OffsetsOfBytes DEF Off
<1>g. Cardinality(left) = n - k
  <2>1. Cardinality(left) = (n - (k - 1)) - 1
    BY <1>a, <1>d, <1>e, FS_RemoveElement, ZenonT(30)
  <2> QED BY <2>1, <1>b
<1>h. Round(segs, r) = [buf |-> new, left |-> left]
  BY DEF Round
<1>i. left \in SUBSET (1..n) /\ \A j \in (1..n) \ left : j = i \/ j \in (1..n) \ r.left
  BY <1>a
<1>j. Begin(s) \in Nat /\ first <= Begin(s) /\ Behindmost(s) \in Nat
  BY <1>c, <1>f
<1>k. new = Extend(r.buf, Begin(s) - first, s.payload)
  BY <1>f
<1> HIDE DEF first, i, s, new, left, n
<1>1. Extended(s, first, r.buf, new)
  <2> DEFINE buf == r.buf
  <2>1. buf \in Seq(Nat) /\ \A x \in 1..Len(buf) : buf[x] = first + x - 1
    BY <1>a
  <2> HIDE DEF buf
  <2> QED BY <2>1, <1>c, <1>f, <1>j, <1>k, ExtendFacts DEF buf
<1>2. SUFFICES /\ new \in Seq(Nat)
               /\ \A x \in 1..Len(new) : new[x] = first + x - 1 /\ new[x] \in Captured(segs)
               /\ \A j \in (1..n) \ left :
                    \/ Behindmost(segs[j]) - first <= Len(new)
                    \/ /\ Begin(segs[j]) - first > Len(new)
                       /\ \A l \in left : Begin(segs[j]) <= Begin(segs[l])
  BY <1>g, <1>h, <1>i DEF After, first, n
<1>3. \A l \in left : l \in r.left
  BY DEF left
<1>4. segs[i] = s
  BY DEF s
<1>5. CASE new = r.buf /\ (Begin(s) - first > Len(r.buf) \/ Behindmost(s) - first <= Len(r.buf))
  <2>1. new \in Seq(Nat) /\ \A x \in 1..Len(new) : new[x] = first + x - 1 /\ new[x] \in Captured(segs)
    BY <1>5, <1>a
  <2>2. ASSUME NEW j \in (1..n) \ left
        PROVE  \/ Behindmost(segs[j]) - first <= Len(new)
               \/ /\ Begin(segs[j]) - first > Len(new)
                  /\ \A l \in left : Begin(segs[j]) <= Begin(segs[l])
    <3>1. CASE j = i
      BY <3>1, <1>3, <1>4, <1>5, <1>e
    <3>2. CASE j \in (1..n) \ r.left
      BY <3>2, <1>3, <1>5, <1>a
    <3> QED BY <3>1, <3>2, <1>i
  <2> QED BY <2>1, <2>2
<1>6. CASE /\ Begin(s) - first <= Len(r.buf) /\ Len(r.buf) < Behindmost(s) - first
           /\ new \in Seq(Nat) /\ Len(new) = Behindmost(s) - first
           /\ \A x \in 1..Len(r.buf) : new[x] = r.buf[x]
           /\ \A x \in (Len(r.buf) + 1)..Len(new) : new[x] = first + x - 1
  <2>0. Len(new) \in Nat /\ Len(r.buf) <= Len(new)
    BY <1>6, <1>b, <1>c, <1>j, LenProperties
  <2>1. ASSUME NEW x \in 1..Len(new) PROVE new[x] = first + x - 1 /\ new[x] \in Captured(segs)
    <3>1. CASE x \in 1..Len(r.buf)
      <4>1. new[x] = r.buf[x]
        BY <3>1, <1>6
      <4> QED BY <3>1, <4>1, <1>a
    <3>2. CASE x \in (Len(r.buf) + 1)..Len(new)
      <4>1. new[x] = first + x - 1
        BY <3>2, <1>6
      <4>2. first + x - 1 \in Begin(s)..(Behindmost(s) - 1)
        <5>1. x \in Nat /\ Len(r.buf) < x /\ x <= Len(new)
          BY <3>2, <2>0, <1>b
        <5>2. Begin(s) - first <= Len(r.buf) /\ Len(new) = Behindmost(s) - first
          BY <1>6
        <5> QED BY <5>1, <5>2, <1>b, <1>c, <1>j
      <4>3. first + x - 1 \in Captured(segs)
        BY <4>2, <1>4, <1>f, CapturedBytes DEF n
      <4> QED BY <4>1, <4>3
    <3>3. x \in 1..Len(r.buf) \/ x \in (Len(r.buf) + 1)..Len(new)
      BY <2>0, <1>b
    <3> QED BY <3>1, <3>2, <3>3
  <2>2. ASSUME NEW j \in (1..n) \ left PROVE Behindmost(segs[j]) - first <= Len(new)
    <3>1. CASE j = i
      BY <3>1, <1>4, <1>6, <2>0
    <3>2. CASE j \in (1..n) \ r.left
      <4>1. ~(Begin(segs[j]) - first > Len(r.buf) /\ Begin(segs[j]) <= Begin(s))
        <5>1. Begin(segs[j]) \in Nat
          BY <1>c, <3>2
        <5>2. Begin(s) - first <= Len(r.buf)
          BY <1>6
        <5> QED BY <5>1, <5>2, <1>b, <1>c, <1>j
      <4>2. Behindmost(segs[j]) - first <= Len(r.buf) /\ Behindmost(segs[j]) \in Nat
        BY <3>2, <4>1, <1>a, <1>c, <1>e, <1>4
      <4> QED BY <4>2, <2>0, <1>b, <1>c
    <3> QED BY <3>1, <3>2, <1>i
  <2>3. new \in Seq(Nat)
    BY <1>6
  <2> QED BY <2>1, <2>2, <2>3
<1> QED BY <1>1, <1>5, <1>6 DEF Extended

\* The loop as a function of the number of rounds.
Rounds(segs, f) ==
  [k \in 0..Len(segs) |-> IF k = 0 THEN Begun(segs) ELSE Round(segs, f[k - 1])]

\* The loop is defined, and after each round holds what After says.
LEMMA LoopGood ==
  ASSUME NEW isn \in Nat, NEW segs \in Seq(Segments(isn)), segs # << >>, ~Wraps(isn, segs)
  PROVE  Loop(segs)[Len(segs)] \in After(segs, Len(segs))
<1> DEFINE n == Len(segs)
           a == Begun(segs)
           S == [k \in 0..n |-> After(segs, k)]
           step == [k \in 1..n |-> [x \in After(segs, k - 1) |-> Round(segs, x)]]
<1>a. n \in Nat /\ DOMAIN segs = 1..n
  BY LenProperties
<1>0. a \in After(segs, 0)
  <2>1. Cardinality(1..n) = n - 0
    BY <1>a, FS_Interval
  <2>2. << >> \in Seq(Nat) /\ Len(<< >>) = 0 /\ 1..0 = {}
    OBVIOUS
  <2>3. a.buf = << >> /\ a.left = 1..n /\ a = [buf |-> << >>, left |-> 1..n]
    BY <1>a DEF Begun
  <2> HIDE DEF a
  <2> QED BY <2>1, <2>2, <2>3 DEF After
<1>b. \A k \in 1..n : \A r \in After(segs, k - 1) : Round(segs, r) \in After(segs, k)
  BY RoundGood
<1>1. PICK f : Stepwise(f, n, S, a, step)
  <2>1. a \in S[0]
    BY <1>0, <1>a
  <2>2. ASSUME NEW k \in 1..n, NEW x \in S[k - 1] PROVE step[k][x] \in S[k]
    <3>1. k - 1 \in 0..n /\ k \in 0..n /\ x \in After(segs, k - 1)
      BY <2>2, <1>a
    <3>2. step[k][x] = Round(segs, x)
      BY <3>1
    <3> QED BY <3>1, <3>2, <1>b
  <2> HIDE DEF step, n, a, S
  <2> QED BY ONLY <1>a, <2>1, <2>2, StepwiseExists
<1>2. f = Rounds(segs, f)
  <2>1. ASSUME NEW k \in 0..n PROVE f[k] = Rounds(segs, f)[k]
    <3>1. CASE k = 0
      BY <3>1, <1>1 DEF Stepwise, Rounds
    <3>2. CASE k # 0
      <4>1. k \in 1..n /\ k - 1 \in 0..n
        BY <3>2, <1>a
      <4>2. f[k] = step[k][f[k - 1]] /\ f[k - 1] \in S[k - 1]
        <5> HIDE DEF step, S
        <5> QED BY <4>1, <1>1 DEF Stepwise
      <4>3. f[k] = Round(segs, f[k - 1])
        BY <4>1, <4>2
      <4> QED BY <4>1, <4>3, <3>2 DEF Rounds
    <3> QED BY <3>1, <3>2
  <2>2. Rounds(segs, f) = [k \in 0..n |-> Rounds(segs, f)[k]]
    BY DEF Rounds
  <2> QED BY <2>1, <2>2, <1>1 DEF Stepwise
<1>3. Loop(segs) = Rounds(segs, Loop(segs))
  <2>1. Loop(segs) = CHOOSE g : g = Rounds(segs, g)
    BY DEF Loop, Rounds
  <2> QED BY <1>2, <2>1
<1> DEFINE T == {k \in 0..n : Loop(segs)[k] \in After(segs, k)}
<1>4. 0 \in T
  <2>1. Rounds(segs, Loop(segs))[0] = a
    BY <1>a DEF Rounds
  <2> QED BY <2>1, <1>0, <1>3, <1>a
<1>5. ASSUME NEW k \in 1..n, k - 1 \in T PROVE k \in T
  <2>1. k \in 0..n /\ k # 0
    BY <1>a
  <2>2. Rounds(segs, Loop(segs))[k] = Round(segs, Loop(segs)[k - 1])
    BY <2>1 DEF Rounds
  <2>3. Loop(segs)[k - 1] \in After(segs, k - 1)
    BY <1>5
  <2> QED BY <2>1, <2>2, <2>3, <1>3, <1>b
<1> HIDE DEF T
<1>6. \A k \in 0..n : k \in T
  BY <1>4, <1>5, <1>a, CountUp
<1> QED BY <1>6, <1>a DEF T

\* When no segment is left, the buffer is the longest run there is.
LEMMA LoopComplete ==
  ASSUME NEW isn \in Nat, NEW segs \in Seq(Segments(isn)), NEW r \in After(segs, Len(segs)),
         segs # << >>
  PROVE  /\ r.buf \in Seq(Nat)
         /\ \A x \in 1..Len(r.buf) : r.buf[x] = FirstByte(segs) + x - 1 /\ r.buf[x] \in Captured(segs)
         /\ FirstByte(segs) + Len(r.buf) \notin Captured(segs)
<1> DEFINE n == Len(segs)
           first == FirstByte(segs)
           m == Len(r.buf)
<1>a. /\ r.buf \in Seq(Nat) /\ r.left \in SUBSET (1..n) /\ Cardinality(r.left) = n - n
      /\ \A x \in 1..m : r.buf[x] = first + x - 1 /\ r.buf[x] \in Captured(segs)
      /\ \A j \in (1..n) \ r.left :
           \/ Behindmost(segs[j]) - first <= m
           \/ /\ Begin(segs[j]) - first > m
              /\ \A l \in r.left : Begin(segs[j]) <= Begin(segs[l])
  BY DEF After
<1>b. n \in Nat /\ m \in Nat /\ first \in Nat /\ \A j \in 1..n : segs[j] \in Segments(isn)
  BY <1>a, LenProperties, FirstByteFacts
<1>1. r.left = {}
  <2>1. IsFiniteSet(1..n)
    BY <1>b, FS_Interval
  <2>2. IsFiniteSet(r.left) /\ Cardinality(r.left) = 0
    BY <2>1, <1>a, <1>b, FS_Subset
  <2> QED BY <2>2, FS_EmptySet
<1>2. ASSUME first + m \in Captured(segs) PROVE FALSE
  <2>1. PICK j \in 1..n : first + m \in Begin(segs[j])..(Behindmost(segs[j]) - 1)
    BY <1>2, CapturedBytes
  <2>2. Begin(segs[j]) \in Nat /\ Behindmost(segs[j]) \in Nat
    BY <1>b, SegmentFacts
  <2>3. Behindmost(segs[j]) - first <= m \/ Begin(segs[j]) - first > m
    BY <1>1, <1>a
  <2> HIDE DEF first, m
  <2> QED BY <2>1, <2>2, <2>3, <1>b
<1> QED BY <1>2, <1>a

\* RebuildsPrefix is about all captures there are, not only the ones that TLC
\* draws: for every modulus of the sequence numbers, every first number and
\* any number of segments in any order, lost, repeated or overlapping, the
\* stream of _reassemble_stream is the first run of the captured bytes, in
\* order, if the numbers do not wrap among them.
THEOREM StreamRebuilt ==
  ASSUME NEW isn \in Nat, NEW segs \in Seq(Segments(isn)), segs # << >>, ~Wraps(isn, segs)
  PROVE  /\ ToSet(ReassembleStream(segs)) = FirstRun(segs)
         /\ \A i \in 1..(Len(ReassembleStream(segs)) - 1) :
              ReassembleStream(segs)[i] < ReassembleStream(segs)[i + 1]
<1> DEFINE n == Len(segs)
           first == FirstByte(segs)
           buf == Loop(segs)[n].buf
           m == Len(buf)
           cut == IF m < MaxStreamBytes THEN m ELSE MaxStreamBytes
           out == SubSeq(buf, 1, cut)
<1>a. ReassembleStream(segs) = out
  BY DEF ReassembleStream
<1>b. /\ buf \in Seq(Nat) /\ \A x \in 1..m : buf[x] = first + x - 1 /\ buf[x] \in Captured(segs)
      /\ first + m \notin Captured(segs)
  <2> DEFINE r == Loop(segs)[n]
  <2>1. r \in After(segs, n)
    BY LoopGood
  <2> HIDE DEF r
  <2>2. /\ r.buf \in Seq(Nat)
        /\ \A x \in 1..Len(r.buf) : r.buf[x] = FirstByte(segs) + x - 1 /\ r.buf[x] \in Captured(segs)
        /\ FirstByte(segs) + Len(r.buf) \notin Captured(segs)
    BY <2>1, LoopComplete
  <2> QED BY <2>2 DEF r
<1>c. /\ first \in Nat /\ m \in Nat /\ MaxStreamBytes \in Nat
      /\ \A c \in Captured(segs) : first <= c /\ c \in Nat
  BY <1>b, FirstByteFacts, LenProperties, CaptureAssumption
<1> HIDE DEF buf, first
<1>d. cut \in Nat /\ cut <= m /\ cut <= MaxStreamBytes /\ (cut = m \/ cut = MaxStreamBytes)
  BY <1>c
<1> HIDE DEF cut, m
<1>e. /\ out \in Seq(Nat) /\ Len(out) = cut /\ \A x \in 1..cut : out[x] = first + x - 1
  <2>1. \A x \in 1..cut : x \in 1..m /\ 1 + x - 1 = x
    BY <1>c, <1>d
  <2>2. \A x \in 1..cut : buf[x] \in Nat
    BY <2>1, <1>b, <1>c
  <2>3. /\ out \in Seq(Nat) /\ Len(out) = (IF 1 <= cut THEN cut - 1 + 1 ELSE 0)
        /\ \A x \in 1..(cut - 1 + 1) : out[x] = buf[1 + x - 1]
    <3> DEFINE one == 1
    <3>1. one \in Int /\ cut \in Int /\ \A x \in one..cut : buf[x] \in Nat
      BY <1>d, <2>2
    <3> HIDE DEF one
    <3>2. /\ SubSeq(buf, one, cut) \in Seq(Nat)
          /\ Len(SubSeq(buf, one, cut)) = (IF one <= cut THEN cut - one + 1 ELSE 0)
          /\ \A x \in 1..(cut - one + 1) : SubSeq(buf, one, cut)[x] = buf[one + x - 1]
      BY ONLY <3>1, SubSeqProperties
    <3> QED BY <3>2 DEF one
  <2>4. cut - 1 + 1 = cut /\ Len(out) = cut
    BY <2>3, <1>d
  <2> HIDE DEF out
  <2>5. \A x \in 1..cut : out[x] = buf[x]
    BY <2>1, <2>3, <2>4
  <2> QED BY <2>1, <2>3, <2>4, <2>5, <1>b
<1> HIDE DEF out
<1>1. ToSet(out) = {first + x - 1 : x \in 1..cut}
  <2>1. DOMAIN out = 1..cut
    BY <1>e, LenProperties
  <2> QED BY <2>1, <1>e DEF ToSet
<1>2. FirstRun(segs) = {b \in Captured(segs) : \A c \in first..b : c \in Captured(segs) /\ b < first + MaxStreamBytes}
  BY DEF FirstRun, first, FirstByte
<1>3. ASSUME NEW x \in 1..cut PROVE first + x - 1 \in FirstRun(segs)
  <2>1. x \in 1..m /\ x \in Nat /\ x <= cut
    BY <1>c, <1>d
  <2>2. first + x - 1 \in Captured(segs)
    BY <2>1, <1>b
  <2>3. first + x - 1 < first + MaxStreamBytes
    BY <2>1, <1>c, <1>d
  <2>4. ASSUME NEW c \in first..(first + x - 1) PROVE c \in Captured(segs)
    <3> DEFINE y == c - first + 1
    <3>1. y \in 1..m /\ first + y - 1 = c
      BY <2>1, <1>c
    <3> HIDE DEF y
    <3> QED BY <3>1, <1>b
  <2> QED BY <2>2, <2>3, <2>4, <1>2
<1>4. ASSUME NEW b \in FirstRun(segs) PROVE \E x \in 1..cut : b = first + x - 1
  <2>1. b \in Captured(segs) /\ \A c \in first..b : c \in Captured(segs) /\ b < first + MaxStreamBytes
    BY <1>2
  <2>2. b \in Nat /\ first <= b /\ b \in first..b
    BY <2>1, <1>c
  <2>3. b < first + MaxStreamBytes
    BY <2>1, <2>2
  <2>4. b < first + m
    <3> SUFFICES ASSUME ~(b < first + m) PROVE FALSE
      OBVIOUS
    <3>1. first + m \in first..b
      BY <2>2, <1>c
    <3> QED BY <3>1, <2>1, <1>b
  <2>5. b - first + 1 \in 1..cut /\ b = first + (b - first + 1) - 1
    BY <2>2, <2>3, <2>4, <1>c, <1>d
  <2> QED BY <2>5
<1>5. ToSet(out) = FirstRun(segs)
  BY <1>1, <1>3, <1>4
<1>6. ASSUME NEW i \in 1..(Len(out) - 1) PROVE out[i] < out[i + 1]
  <2>1. i \in 1..cut /\ i + 1 \in 1..cut
    BY <1>e, <1>d
  <2>2. out[i] = first + i - 1 /\ out[i + 1] = first + (i + 1) - 1
    BY <2>1, <1>e
  <2> QED BY <2>1, <2>2, <1>c, <1>d
<1> QED BY <1>a, <1>5, <1>6

-----------------------------------------------------------------------------
(* What a probe was answered *)

\* A judgement that has been passed on an item: its findings are emitted, and
\* if it raises, the run has.
Passed(j) ==
  /\ \E k \in 1..total : {k} \X j.says \subseteq said
  /\ j.next = "raise" => outcome = "raised"

\* The last answer is one that a turn of the program has a judgement for, and
\* that judgement has been passed.
AnswerKept ==
  last # Silence =>
    \E i \in 1..Len(P.turns) : \E r \in DOMAIN P.turns[i].judge :
      last = [t \in {i} |-> r] /\ Passed(P.turns[i].judge[r])

\* Findings stay, and so does the outcome of a run that has ended.
LEMMA SaidStays ==
  ASSUME [Next]_vars
  PROVE  said \subseteq said' /\ (outcome # "running" => outcome' = outcome) /\ total' = total /\ P' = P
<1>1. P' = P /\ total' = total
  BY DEF P, Next, vars, Done, Skip, AppliesFails, Start, Connect,
         ConnectFails, Answer, TimesOut, OSError, Eof, Return, Cancel
<1>2. CASE ConnectFails \/ Answer \/ TimesOut \/ OSError \/ Eof
  <2>1. outcome = "running"
    BY <1>2 DEF ConnectFails, Answer, TimesOut, OSError, Eof, Awaits
  <2>2. \E j, way : Follow(j, way)
    BY <1>2 DEF ConnectFails, Answer, TimesOut, OSError, Eof
  <2>3. said \subseteq said'
    BY <2>2 DEF Follow, Say
  <2> QED BY <2>1, <2>3, <1>1
<1>3. CASE Skip \/ AppliesFails \/ Start \/ Connect \/ Return \/ Cancel
  <2>1. outcome = "running"
    BY <1>3 DEF Skip, AppliesFails, Start, Connect, Return, Cancel, Awaits, Asked
  <2>2. said \subseteq said'
    BY <1>3 DEF Skip, AppliesFails, Start, Connect, Return, Cancel
  <2> QED BY <2>1, <2>2, <1>1
<1>4. CASE UNCHANGED vars
  BY <1>1, <1>4 DEF vars
<1> QED BY <1>2, <1>3, <1>4 DEF Next, Done

\* This holds in every state, whatever the program.
LEMMA AnswersKept == Spec => []AnswerKept
<1>1. Init => AnswerKept
  BY DEF Init, AnswerKept
<1>2. IInv /\ AnswerKept /\ [Next]_vars => AnswerKept'
  <2> SUFFICES ASSUME IInv, AnswerKept, [Next]_vars PROVE AnswerKept'
    OBVIOUS
  <2>1. said \subseteq said' /\ (outcome # "running" => outcome' = outcome) /\ total' = total /\ P' = P
    BY SaidStays
  <2>2. CASE last' = last
    <3> SUFFICES ASSUME last # Silence PROVE AnswerKept'
      BY <2>2 DEF AnswerKept
    <3>1. PICK i \in 1..Len(P.turns) : \E r \in DOMAIN P.turns[i].judge :
            last = [t \in {i} |-> r] /\ Passed(P.turns[i].judge[r])
      BY DEF AnswerKept
    <3>2. PICK r \in DOMAIN P.turns[i].judge : last = [t \in {i} |-> r] /\ Passed(P.turns[i].judge[r])
      BY <3>1
    <3>3. PICK j : j = P.turns[i].judge[r]
      OBVIOUS
    <3>4. Passed(j)'
      BY <3>2, <3>3, <2>1 DEF Passed
    <3> QED BY <3>2, <3>3, <3>4, <2>1, <2>2 DEF AnswerKept
  <2>3. CASE Answer /\ P.keeps
    <3>1. PICK r \in DOMAIN Now.judge :
            last' = [t \in {turn} |-> r] /\ Follow(Now.judge[r], "stop")
      BY <2>3 DEF Answer
    <3>2. turn \in 1..Len(P.turns) /\ item \in 1..total
      BY <2>3, ProgramFacts DEF Answer, IInv, TypeOK, Awaits
    <3>3. PICK i, j : i = turn /\ j = Now.judge[r]
      OBVIOUS
    <3>4. Passed(j)'
      <4>1. {item} \X j.says \subseteq said'
        BY <3>1, <3>3 DEF Follow, Say
      <4>2. j.next = "raise" => outcome' = "raised"
        BY <3>1, <3>3 DEF Follow
      <4> QED BY <4>1, <4>2, <3>2, <2>1 DEF Passed
    <3>5. i \in 1..Len(P.turns) /\ r \in DOMAIN P.turns[i].judge /\ j = P.turns[i].judge[r]
      BY <3>2, <3>3 DEF Now
    <3> QED BY <3>1, <3>3, <3>4, <3>5, <2>1 DEF AnswerKept
  <2>4. CASE Answer /\ ~P.keeps
    BY <2>2, <2>4 DEF Answer
  <2>5. CASE ~Answer
    BY <2>2, <2>5 DEF Next, vars, Done, Skip, AppliesFails, Start, Connect,
                      ConnectFails, TimesOut, OSError, Eof, Return, Cancel
  <2> QED BY <2>3, <2>4, <2>5
<1> QED BY <1>1, <1>2, InvHolds, PTL DEF Spec

\* What the last answer can be if the program has one turn.
LEMMA OnlyTurn ==
  ASSUME AnswerKept, last # Silence, NEW t, P.turns = <<t>>
  PROVE  last[1] \in DOMAIN t.judge /\ Passed(t.judge[last[1]])
<1>1. Len(P.turns) = 1 /\ 1..1 = {1}
  OBVIOUS
<1>2. PICK i \in 1..Len(P.turns) : \E r \in DOMAIN P.turns[i].judge :
        last = [x \in {i} |-> r] /\ Passed(P.turns[i].judge[r])
  BY DEF AnswerKept
<1>3. i = 1 /\ P.turns[1] = t
  BY <1>1
<1>4. PICK r \in DOMAIN t.judge : last = [x \in {1} |-> r] /\ Passed(t.judge[r])
  BY <1>2, <1>3
<1>5. last[1] = r
  BY <1>4
<1> QED BY <1>4, <1>5

\* The answers of net.sniff.live are captures: of segments of one flow, at
\* least one of them.
LEMMA SniffedCaptures ==
  ASSUME NEW c \in Captures
  PROVE  c.isn \in Nat /\ c.segs \in Seq(Segments(c.isn)) /\ c.segs # << >>
<1>1. SeqModulus - 2 \in Nat
  BY CaptureAssumption
<1>2. PICK isn \in {0, SeqModulus - 2}, k \in 1..3 : c.isn = isn /\ c.segs \in [1..k -> Segments(isn)]
  BY DEF Captures
<1>3. k \in Nat /\ isn \in Nat
  BY <1>1
<1>4. c.segs \in Seq(Segments(isn))
  BY <1>2, <1>3, SeqDef
<1>5. c.segs # << >>
  <2>1. 1 \in DOMAIN c.segs
    BY <1>2
  <2>2. DOMAIN << >> = {}
    OBVIOUS
  <2> QED BY <2>1, <2>2
<1> QED BY <1>2, <1>3, <1>4, <1>5

\* RebuildsPrefix for any catalogue that has net.sniff.live, whatever other
\* probes there are, whatever the modulus, the flow, the segments and the
\* limit of the bytes that are rebuilt.
THEOREM RunsRebuild == Catalog["NetSniffLive"] = NetSniffLive /\ Spec => []RebuildsPrefix
<1> DEFINE Listed == Catalog["NetSniffLive"] = NetSniffLive
<1>1. Listed /\ AnswerKept => RebuildsPrefix
  <2> SUFFICES ASSUME Listed, AnswerKept, probe = "NetSniffLive", last # Silence,
                      ~Wraps(last[1].isn, last[1].segs)
               PROVE  /\ ToSet(ReassembleStream(last[1].segs)) = FirstRun(last[1].segs)
                      /\ \A i \in 1..(Len(ReassembleStream(last[1].segs)) - 1) :
                           ReassembleStream(last[1].segs)[i] < ReassembleStream(last[1].segs)[i + 1]
    BY DEF RebuildsPrefix
  <2> DEFINE t == NetSniffLive.turns[1]
             c == last[1]
  <2>1. NetSniffLive.turns = <<t>> /\ DOMAIN t.judge = Captures
    BY DEF NetSniffLive, Compared, Program, Turn
  <2>2. P.turns = <<t>>
    BY <2>1 DEF P
  <2>3. c \in DOMAIN t.judge
    <3> HIDE DEF t
    <3> QED BY <2>2, OnlyTurn
  <2>4. c \in Captures
    BY <2>1, <2>3
  <2> HIDE DEF c, t
  <2> DEFINE isn == c.isn
             segs == c.segs
  <2>5. isn \in Nat /\ segs \in Seq(Segments(isn)) /\ segs # << >>
    BY <2>4, SniffedCaptures
  <2>6. ~Wraps(isn, segs)
    BY DEF c
  <2> HIDE DEF isn, segs
  <2>7. /\ ToSet(ReassembleStream(segs)) = FirstRun(segs)
        /\ \A i \in 1..(Len(ReassembleStream(segs)) - 1) :
             ReassembleStream(segs)[i] < ReassembleStream(segs)[i + 1]
    BY <2>5, <2>6, StreamRebuilt
  <2> QED BY <2>7 DEF segs, c
<1>2. Listed => []Listed
  <2>1. Listed => Listed'
    OBVIOUS
  <2> HIDE DEF Listed
  <2> QED BY <2>1, PTL
<1> QED BY <1>1, <1>2, AnswersKept, PTL

-----------------------------------------------------------------------------
(***************************************************************************)
(* strip_noncode and code_finditer, for a text of any length.              *)
(***************************************************************************)

\* The first position is one of them, and none is before it.
LEMMA FirstOfFacts ==
  ASSUME NEW positions \in SUBSET Nat, NEW otherwise
  PROVE  /\ positions = {} => FirstOf(positions, otherwise) = otherwise
         /\ positions # {} => /\ FirstOf(positions, otherwise) \in positions
                              /\ \A j \in positions : FirstOf(positions, otherwise) <= j
BY LeastNumber DEF FirstOf

\* What finditer meets when it looks for a form at h: no comment has begun on
\* this line, and if a quote is open, none will close it.
Fresh(text, h) ==
  h <= Len(text) =>
    /\ \A k \in 1..(h - 1) :
         text[k] = "slashes" /\ SameLine(text, k, h) => Inside(text, k) /\ QuotesAfter(text, k) # {}
    /\ Inside(text, h) => QuotesAfter(text, h) = {} /\ text[h] # "quote"

\* A quote, and only a quote, turns inside to outside for what follows it.
LEMMA InsideFlips ==
  ASSUME NEW text, Len(text) \in Nat, NEW i \in 1..Len(text), NEW c \in 1..Len(text), i < c,
         SameLine(text, i, c), \A k \in (i + 1)..(c - 1) : text[k] # "quote"
  PROVE  IF text[i] = "quote" THEN Inside(text, c) <=> ~Inside(text, i)
         ELSE Inside(text, c) <=> Inside(text, i)
<1>1. \A k \in i..c : text[k] # "newline"
  BY DEF SameLine
<1>2. QuotesBefore(text, c) = QuotesBefore(text, i) \union {j \in {i} : text[j] = "quote"}
  <2>1. ASSUME NEW j \in QuotesBefore(text, c) PROVE j \in QuotesBefore(text, i) \/ (j = i /\ text[i] = "quote")
    <3>1. j \in 1..(c - 1) /\ text[j] = "quote" /\ \A k \in j..c : text[k] # "newline"
      BY DEF QuotesBefore, SameLine
    <3>2. CASE j < i
      BY <3>1, <3>2 DEF QuotesBefore, SameLine
    <3>3. CASE j = i
      BY <3>1, <3>3
    <3>4. CASE j > i
      BY <3>1, <3>4
    <3> QED BY <3>1, <3>2, <3>3, <3>4
  <2>2. ASSUME NEW j \in QuotesBefore(text, i) PROVE j \in QuotesBefore(text, c)
    <3>1. j \in 1..(i - 1) /\ text[j] = "quote" /\ \A k \in j..i : text[k] # "newline"
      BY DEF QuotesBefore, SameLine
    <3>2. \A k \in j..c : k \in j..i \/ k \in i..c
      BY <3>1
    <3> QED BY <3>1, <3>2, <1>1 DEF QuotesBefore, SameLine
  <2>3. text[i] = "quote" => i \in QuotesBefore(text, c)
    BY <1>1 DEF QuotesBefore, SameLine
  <2> QED BY <2>1, <2>2, <2>3
<1>3. IsFiniteSet(QuotesBefore(text, i)) /\ Cardinality(QuotesBefore(text, i)) \in Nat
  <2>1. IsFiniteSet(1..(i - 1))
    BY FS_Interval
  <2>2. QuotesBefore(text, i) \subseteq 1..(i - 1)
    BY DEF QuotesBefore
  <2> QED BY <2>1, <2>2, FS_Subset, FS_CardinalityType
<1>4. i \notin QuotesBefore(text, i)
  BY DEF QuotesBefore
<1>5. CASE text[i] = "quote"
  <2>1. QuotesBefore(text, c) = QuotesBefore(text, i) \union {i}
    BY <1>2, <1>5
  <2>2. Cardinality(QuotesBefore(text, c)) = Cardinality(QuotesBefore(text, i)) + 1
    BY <2>1, <1>3, <1>4, FS_AddElement
  <2> QED BY <2>2, <1>3, <1>5 DEF Inside
<1>6. CASE text[i] # "quote"
  <2>1. QuotesBefore(text, c) = QuotesBefore(text, i)
    BY <1>2, <1>6
  <2> QED BY <2>1, <1>6 DEF Inside
<1> QED BY <1>5, <1>6

\* Behind a newline everything starts anew.
LEMMA FreshLine ==
  ASSUME NEW text, Len(text) \in Nat, NEW h \in 1..(Len(text) + 1),
         h = Len(text) + 1 \/ text[h] = "newline" \/ (h > 1 /\ text[h - 1] = "newline")
  PROVE  Fresh(text, h)
<1> SUFFICES ASSUME h <= Len(text) PROVE Fresh(text, h)
  BY DEF Fresh
<1>1. \A k \in 1..(h - 1) : ~SameLine(text, k, h)
  <2> SUFFICES ASSUME NEW k \in 1..(h - 1), SameLine(text, k, h) PROVE FALSE
    OBVIOUS
  <2>1. \A x \in k..h : text[x] # "newline"
    BY DEF SameLine
  <2>2. h \in k..h /\ h - 1 \in k..h
    OBVIOUS
  <2> QED BY <2>1, <2>2
<1>2. QuotesBefore(text, h) = {}
  BY <1>1 DEF QuotesBefore
<1>3. ~Inside(text, h)
  BY <1>2, FS_EmptySet DEF Inside
<1> QED BY <1>1, <1>3 DEF Fresh

\* What is found at i: code, or a form up to e and nothing but a form.
Formed(text, i, e) ==
  \/ e = i /\ i \notin NonCode(text) /\ Fresh(text, i + 1)
  \/ /\ e \in (i + 1)..(Len(text) + 1) /\ Fresh(text, e)
     /\ \A j \in i..(e - 1) : j \in NonCode(text)

\* A comment goes on to the end of the line.
LEMMA CommentForm ==
  ASSUME NEW text, Len(text) \in Nat, NEW i \in 1..Len(text), Fresh(text, i), text[i] = "slashes"
  PROVE  Formed(text, i, FormEnd(text, i))
<1> DEFINE ends == {j \in i..Len(text) : text[j] = "newline"}
           e == FirstOf(ends, Len(text) + 1)
<1>a. FormEnd(text, i) = e
  BY DEF FormEnd
<1>1. /\ ends = {} => e = Len(text) + 1
      /\ ends # {} => e \in ends /\ \A j \in ends : e <= j
  <2>1. ends \in SUBSET Nat
    OBVIOUS
  <2> HIDE DEF ends
  <2> QED BY <2>1, FirstOfFacts
<1> HIDE DEF e
<1>2. e \in (i + 1)..(Len(text) + 1) /\ \A j \in i..(e - 1) : text[j] # "newline" /\ j \in 1..Len(text)
  BY <1>1
<1>3. e = Len(text) + 1 \/ text[e] = "newline"
  BY <1>1
<1>4. ASSUME NEW j \in i..(e - 1) PROVE j \in NonCode(text)
  <2>1. SameLine(text, i, j)
    BY <1>2 DEF SameLine
  <2>2. ~(Inside(text, i) /\ QuotesAfter(text, i) # {})
    BY DEF Fresh
  <2>3. InComment(text, j)
    BY <2>1, <2>2 DEF InComment
  <2> QED BY <2>3, <1>2 DEF NonCode
<1>5. Fresh(text, e)
  BY <1>2, <1>3, FreshLine
<1> QED BY <1>a, <1>2, <1>4, <1>5 DEF Formed

\* A quote that another one on its line closes begins a string, whatever
\* stands in between, ...
LEMMA StringForm ==
  ASSUME NEW text, Len(text) \in Nat, NEW i \in 1..Len(text), Fresh(text, i), text[i] = "quote",
         QuotesAfter(text, i) # {}
  PROVE  Formed(text, i, FormEnd(text, i))
<1> DEFINE ends == {j \in (i + 1)..(Len(text) + 1) :
                      /\ \A k \in (i + 1)..(j - 1) : text[k] # "newline"
                      /\ text[j - 1] = "quote" /\ j - 1 > i}
           e == FirstOf(ends, i)
           c == e - 1
<1>a. FormEnd(text, i) = e
  BY DEF FormEnd
<1>1. e \in ends /\ \A j \in ends : e <= j
  <2>1. PICK q \in QuotesAfter(text, i) : TRUE
    OBVIOUS
  <2>2. q \in (i + 1)..Len(text) /\ text[q] = "quote" /\ \A k \in i..q : text[k] # "newline"
    BY DEF QuotesAfter, SameLine
  <2>3. q + 1 \in ends
    BY <2>2
  <2>4. ends \in SUBSET Nat
    OBVIOUS
  <2> HIDE DEF ends
  <2> QED BY <2>3, <2>4, FirstOfFacts
<1>2. /\ c \in (i + 1)..Len(text) /\ e = c + 1 /\ text[c] = "quote"
      /\ \A k \in i..c : text[k] # "newline"
  <2>1. /\ e \in (i + 1)..(Len(text) + 1) /\ text[e - 1] = "quote" /\ e - 1 > i
        /\ \A k \in (i + 1)..(e - 1) : text[k] # "newline"
    BY <1>1
  <2> HIDE DEF e
  <2> QED BY <2>1
<1>3. \A k \in (i + 1)..(c - 1) : text[k] # "quote"
  <2> SUFFICES ASSUME NEW k \in (i + 1)..(c - 1), text[k] = "quote" PROVE FALSE
    OBVIOUS
  <2> HIDE DEF c, e
  <2>1. k + 1 \in ends
    BY <1>2
  <2>2. e <= k + 1
    BY <1>1, <2>1
  <2> QED BY <2>2, <1>2
<1> HIDE DEF c, e, ends
<1>4. ~Inside(text, i)
  BY DEF Fresh
<1>5. \A k \in (i + 1)..c : Inside(text, k)
  <2> SUFFICES ASSUME NEW k \in (i + 1)..c PROVE Inside(text, k)
    OBVIOUS
  <2>1. k \in 1..Len(text) /\ i < k /\ SameLine(text, i, k) /\ \A x \in (i + 1)..(k - 1) : text[x] # "quote"
    BY <1>2, <1>3 DEF SameLine
  <2> QED BY <2>1, <1>4, InsideFlips
<1>6. c \in Int /\ \A k \in i..(c - 1) : c \in QuotesAfter(text, k)
  BY <1>2 DEF QuotesAfter, SameLine
<1>7. ASSUME NEW h \in i..(c + 1), NEW k \in 1..(h - 1), k <= c, text[k] = "slashes", SameLine(text, k, h)
      PROVE  Inside(text, k) /\ QuotesAfter(text, k) # {}
  <2>1. CASE k < i
    <3>1. SameLine(text, k, i)
      <4>1. \A x \in k..i : x \in k..h
        BY <1>6, <2>1
      <4> QED BY <4>1, <1>7 DEF SameLine
    <3> QED BY <2>1, <3>1, <1>7 DEF Fresh
  <2>2. CASE k \in (i + 1)..c
    <3>1. k # c
      BY <1>2, <1>7
    <3>2. k \in i..(c - 1)
      BY <2>2, <3>1, <1>6
    <3> QED BY <2>2, <3>2, <1>5, <1>6
  <2>3. CASE k = i
    BY <2>3, <1>7
  <2> QED BY <2>1, <2>2, <2>3, <1>7
<1>8. ASSUME NEW j \in i..c PROVE j \in NonCode(text)
  <2>1. j \in 1..Len(text) /\ text[j] # "newline"
    BY <1>2
  <2>2. ~InComment(text, j)
    <3> SUFFICES ASSUME NEW k \in 1..j, text[k] = "slashes", SameLine(text, k, j)
                 PROVE  Inside(text, k) /\ QuotesAfter(text, k) # {}
      BY DEF InComment
    <3>1. CASE k < j
      BY <3>1, <1>2, <1>7
    <3>2. CASE k = j
      <4>1. k \in (i + 1)..c /\ k \in i..(c - 1)
        BY <3>2, <1>2, <1>6
      <4> QED BY <4>1, <1>5, <1>6
    <3> QED BY <3>1, <3>2
  <2>3. CASE j = i
    <3>1. InString(text, j)
      BY <2>2, <2>3 DEF InString
    <3> QED BY <3>1, <2>1 DEF NonCode
  <2>4. CASE j \in (i + 1)..c
    <3>1. Inside(text, j)
      BY <2>4, <1>5
    <3>2. j = c \/ QuotesAfter(text, j) # {}
      <4>1. j = c \/ j \in i..(c - 1)
        BY <2>4, <1>6
      <4> QED BY <4>1, <1>6
    <3>3. InString(text, j)
      BY <2>2, <3>1, <3>2, <1>2 DEF InString
    <3> QED BY <3>3, <2>1 DEF NonCode
  <2> QED BY <2>3, <2>4
<1>9. Fresh(text, c + 1)
  <2>1. CASE c + 1 > Len(text)
    BY <2>1, <1>6 DEF Fresh
  <2>2. CASE c + 1 <= Len(text) /\ text[c + 1] = "newline"
    BY <2>2, <1>2, FreshLine
  <2>3. CASE c + 1 <= Len(text) /\ text[c + 1] # "newline"
    <3>1. SameLine(text, c, c + 1) /\ c \in 1..Len(text) /\ c + 1 \in 1..Len(text) /\ c < c + 1
      BY <2>3, <1>2 DEF SameLine
    <3>2. \A k \in (c + 1)..((c + 1) - 1) : text[k] # "quote"
      BY <1>2
    <3>3. Inside(text, c + 1) <=> ~Inside(text, c)
      BY <3>1, <3>2, <1>2, InsideFlips
    <3>4. ~Inside(text, c + 1)
      BY <3>3, <1>2, <1>5
    <3>5. ASSUME NEW k \in 1..((c + 1) - 1), text[k] = "slashes", SameLine(text, k, c + 1)
          PROVE  Inside(text, k) /\ QuotesAfter(text, k) # {}
      <4>1. c + 1 \in i..(c + 1) /\ k <= c
        BY <1>2
      <4> QED BY <4>1, <3>5, <1>7
    <3> QED BY <3>4, <3>5 DEF Fresh
  <2> QED BY <2>1, <2>2, <2>3, <1>2
<1>10. e \in (i + 1)..(Len(text) + 1) /\ \A j \in i..(e - 1) : j \in i..c
  BY <1>2
<1> QED BY <1>a, <1>2, <1>8, <1>9, <1>10 DEF Formed

\* ... and one that is not closed is code, as is every other token.
LEMMA CodeForm ==
  ASSUME NEW text, Len(text) \in Nat, NEW i \in 1..Len(text), Fresh(text, i), text[i] # "slashes",
         text[i] = "quote" => QuotesAfter(text, i) = {}
  PROVE  Formed(text, i, FormEnd(text, i))
<1>1. FormEnd(text, i) = i
  <2>1. CASE text[i] = "quote"
    <3> DEFINE ends == {j \in (i + 1)..(Len(text) + 1) :
                          /\ \A k \in (i + 1)..(j - 1) : text[k] # "newline"
                          /\ text[j - 1] = "quote" /\ j - 1 > i}
    <3>1. ends = {}
      <4> SUFFICES ASSUME NEW j \in ends PROVE FALSE
        OBVIOUS
      <4>1. j - 1 \in (i + 1)..Len(text) /\ text[j - 1] = "quote" /\ \A k \in i..(j - 1) : text[k] # "newline"
        BY <2>1
      <4>2. j - 1 \in QuotesAfter(text, i)
        BY <4>1 DEF QuotesAfter, SameLine
      <4> QED BY <4>2, <2>1
    <3>2. FormEnd(text, i) = FirstOf(ends, i)
      BY <2>1 DEF FormEnd
    <3> HIDE DEF ends
    <3> QED BY <3>1, <3>2 DEF FirstOf
  <2>2. CASE text[i] # "quote"
    BY <2>2 DEF FormEnd
  <2> QED BY <2>1, <2>2
<1>2. \A k \in 1..(i - 1) :
        text[k] = "slashes" /\ SameLine(text, k, i) => Inside(text, k) /\ QuotesAfter(text, k) # {}
  BY DEF Fresh
<1>3. Inside(text, i) => QuotesAfter(text, i) = {} /\ text[i] # "quote"
  BY DEF Fresh
<1>4. i \notin NonCode(text)
  <2>1. ~InComment(text, i)
    <3>1. \A k \in 1..i : k \in 1..(i - 1) \/ k = i
      OBVIOUS
    <3> QED BY <3>1, <1>2 DEF InComment
  <2>2. ~InString(text, i)
    BY <1>3 DEF InString
  <2> QED BY <2>1, <2>2 DEF NonCode
<1>5. Fresh(text, i + 1)
  <2>1. CASE i + 1 > Len(text)
    BY <2>1 DEF Fresh
  <2>2. CASE i + 1 <= Len(text) /\ (text[i] = "newline" \/ text[i + 1] = "newline")
    <3>1. i + 1 \in 1..(Len(text) + 1) /\ i + 1 > 1 /\ (i + 1) - 1 = i
      OBVIOUS
    <3> QED BY <2>2, <3>1, FreshLine
  <2>3. CASE i + 1 <= Len(text) /\ text[i] # "newline" /\ text[i + 1] # "newline"
    <3>1. SameLine(text, i, i + 1) /\ i + 1 \in 1..Len(text) /\ i < i + 1
      BY <2>3 DEF SameLine
    <3>2. \A k \in (i + 1)..((i + 1) - 1) : text[k] # "quote"
      OBVIOUS
    <3>3. IF text[i] = "quote" THEN Inside(text, i + 1) <=> ~Inside(text, i)
          ELSE Inside(text, i + 1) <=> Inside(text, i)
      BY <3>1, <3>2, InsideFlips
    <3>4. QuotesAfter(text, i) = {} => QuotesAfter(text, i + 1) = {} /\ text[i + 1] # "quote"
      <4>1. \A q \in QuotesAfter(text, i + 1) : q \in QuotesAfter(text, i)
        <5> SUFFICES ASSUME NEW q \in QuotesAfter(text, i + 1) PROVE q \in QuotesAfter(text, i)
          OBVIOUS
        <5>1. /\ q \in ((i + 1) + 1)..Len(text) /\ text[q] = "quote"
              /\ \A k \in (i + 1)..q : text[k] # "newline"
          BY DEF QuotesAfter, SameLine
        <5>2. \A k \in i..q : k = i \/ k \in (i + 1)..q
          BY <5>1
        <5> QED BY <5>1, <5>2, <2>3 DEF QuotesAfter, SameLine
      <4>2. text[i + 1] = "quote" => i + 1 \in QuotesAfter(text, i)
        BY <3>1 DEF QuotesAfter
      <4> QED BY <4>1, <4>2
    <3>5. Inside(text, i + 1) => QuotesAfter(text, i + 1) = {} /\ text[i + 1] # "quote"
      BY <3>3, <3>4, <1>3
    <3>6. ASSUME NEW k \in 1..((i + 1) - 1), text[k] = "slashes", SameLine(text, k, i + 1)
          PROVE  Inside(text, k) /\ QuotesAfter(text, k) # {}
      <4>1. k \in 1..(i - 1) /\ SameLine(text, k, i)
        BY <3>6 DEF SameLine
      <4> QED BY <4>1, <3>6, <1>2
    <3> QED BY <3>5, <3>6 DEF Fresh
  <2> QED BY <2>1, <2>2, <2>3
<1> QED BY <1>1, <1>4, <1>5 DEF Formed

\* What is found at i, whatever it is.
LEMMA FormFacts ==
  ASSUME NEW text, Len(text) \in Nat, NEW i \in 1..Len(text), Fresh(text, i)
  PROVE  Formed(text, i, FormEnd(text, i))
BY CommentForm, StringForm, CodeForm

\* Covered is what its definition says.
LEMMA CoveredSteps ==
  ASSUME NEW text, Len(text) \in Nat
  PROVE  /\ Covered(text)[0] = 1
         /\ \A i \in 1..Len(text) :
              Covered(text)[i] = IF Covered(text)[i - 1] > i THEN Covered(text)[i - 1] ELSE FormEnd(text, i)
<1> DEFINE n == Len(text)
           one == 1
           Rule(f) == [i \in 0..n |-> IF i = 0 THEN 1
                                      ELSE IF f[i - 1] > i THEN f[i - 1] ELSE FormEnd(text, i)]
           Reached(k) == {1} \union {FormEnd(text, i) : i \in 1..k}
           S == [k \in 0..n |-> Reached(k)]
           step == [k \in 1..n |-> [x \in Reached(k - 1) |-> IF x > k THEN x ELSE FormEnd(text, k)]]
<1>1. PICK f : Stepwise(f, n, S, one, step)
  <2>1. n \in Nat /\ one \in S[0]
    OBVIOUS
  <2>2. ASSUME NEW k \in 1..n, NEW x \in S[k - 1] PROVE step[k][x] \in S[k]
    <3>1. k - 1 \in 0..n /\ k \in 0..n /\ x \in Reached(k - 1)
      BY <2>2
    <3>2. step[k][x] = IF x > k THEN x ELSE FormEnd(text, k)
      BY <3>1
    <3>3. x \in Reached(k) /\ FormEnd(text, k) \in Reached(k)
      BY <3>1
    <3> HIDE DEF Reached, step
    <3> QED BY <3>1, <3>2, <3>3
  <2> HIDE DEF step, n, one, S
  <2> QED BY ONLY <2>1, <2>2, StepwiseExists
<1>2. f = Rule(f)
  <2>1. ASSUME NEW k \in 0..n PROVE f[k] = Rule(f)[k]
    <3>1. CASE k = 0
      BY <3>1, <1>1 DEF Stepwise
    <3>2. CASE k # 0
      <4>1. k \in 1..n /\ k - 1 \in 0..n
        BY <3>2
      <4>2. f[k] = step[k][f[k - 1]] /\ f[k - 1] \in S[k - 1]
        <5> HIDE DEF step, S
        <5> QED BY <4>1, <1>1 DEF Stepwise
      <4>3. f[k - 1] \in Reached(k - 1)
        BY <4>1, <4>2
      <4>4. f[k] = IF f[k - 1] > k THEN f[k - 1] ELSE FormEnd(text, k)
        <5> HIDE DEF Reached
        <5> QED BY <4>1, <4>2, <4>3
      <4> QED BY <4>1, <4>4, <3>2
    <3> QED BY <3>1, <3>2
  <2> QED BY <2>1, <1>1 DEF Stepwise
<1>3. Covered(text) = CHOOSE g : g = Rule(g)
  BY DEF Covered
<1>4. Covered(text) = Rule(Covered(text))
  BY <1>2, <1>3
<1> DEFINE g == Covered(text)
<1> HIDE DEF g
<1>5. g = Rule(g)
  BY <1>4 DEF g
<1>6. g[0] = 1
  BY <1>5
<1>7. ASSUME NEW i \in 1..n PROVE g[i] = IF g[i - 1] > i THEN g[i - 1] ELSE FormEnd(text, i)
  <2>1. i \in 0..n /\ i # 0
    OBVIOUS
  <2>2. g[i] = Rule(g)[i]
    BY <1>5
  <2> QED BY <2>1, <2>2
<1> QED BY <1>6, <1>7 DEF g

\* MaskExact is about all texts, not only the short ones that TLC draws: for
\* every sequence of quotes, comment marks, line ends and other tokens,
\* strip_noncode blanks the positions of comments and strings and no others.
THEOREM MaskOfAnyText ==
  ASSUME NEW text, Len(text) \in Nat
  PROVE  StripNoncode(text) = NonCode(text)
<1> DEFINE n == Len(text)
           c == Covered(text)
           Scanned(i) ==
             /\ i > 0 => /\ c[i] > i => \A j \in i..(c[i] - 1) : j \in NonCode(text)
                         /\ c[i] <= i => i \notin NonCode(text)
             /\ c[i] \in Int /\ (IF c[i] > i + 1 THEN Fresh(text, c[i]) ELSE Fresh(text, i + 1))
           T == {i \in 0..n : Scanned(i)}
<1>a. c[0] = 1 /\ \A i \in 1..n : c[i] = IF c[i - 1] > i THEN c[i - 1] ELSE FormEnd(text, i)
  BY CoveredSteps
<1> HIDE DEF c
<1>1. 0 \in T
  <2>1. QuotesBefore(text, 1) = {}
    BY DEF QuotesBefore
  <2>2. ~Inside(text, 1)
    BY <2>1, FS_EmptySet DEF Inside
  <2>3. Fresh(text, 1)
    BY <2>2 DEF Fresh
  <2> QED BY <2>3, <1>a
<1>2. ASSUME NEW i \in 1..n, i - 1 \in T PROVE i \in T
  <2>1. /\ c[i - 1] \in Int
        /\ IF c[i - 1] > i THEN Fresh(text, c[i - 1]) ELSE Fresh(text, i)
        /\ i - 1 > 0 /\ c[i - 1] > i - 1 => \A j \in (i - 1)..(c[i - 1] - 1) : j \in NonCode(text)
    BY <1>2
  <2>2. CASE c[i - 1] > i
    <3>1. c[i] = c[i - 1]
      BY <2>2, <1>a
    <3>2. i - 1 > 0
      BY <2>2, <1>a
    <3>3. \A j \in i..(c[i] - 1) : j \in NonCode(text)
      BY <2>1, <2>2, <3>1, <3>2
    <3>4. IF c[i] > i + 1 THEN Fresh(text, c[i]) ELSE Fresh(text, i + 1)
      <4>1. c[i] > i + 1 \/ c[i] = i + 1
        BY <2>1, <2>2, <3>1
      <4> QED BY <4>1, <2>1, <2>2, <3>1
    <3> QED BY <3>1, <3>3, <3>4, <2>1, <2>2
  <2>3. CASE ~(c[i - 1] > i)
    <3>1. c[i] = FormEnd(text, i) /\ Fresh(text, i)
      BY <2>1, <2>3, <1>a
    <3>2. Formed(text, i, c[i])
      BY <3>1, FormFacts
    <3>3. CASE c[i] = i /\ i \notin NonCode(text) /\ Fresh(text, i + 1)
      BY <3>3
    <3>4. CASE /\ c[i] \in (i + 1)..(Len(text) + 1) /\ Fresh(text, c[i])
               /\ \A j \in i..(c[i] - 1) : j \in NonCode(text)
      <4>1. c[i] > i + 1 \/ c[i] = i + 1
        BY <3>4
      <4> QED BY <4>1, <3>4
    <3> QED BY <3>2, <3>3, <3>4 DEF Formed
  <2> QED BY <2>2, <2>3
<1>3. \A i \in 0..n : i \in T
  <2> HIDE DEF T
  <2> QED BY <1>1, <1>2, CountUp
<1>4. ASSUME NEW i \in 1..n PROVE i \in StripNoncode(text) <=> i \in NonCode(text)
  <2>1. /\ c[i] > i => \A j \in i..(c[i] - 1) : j \in NonCode(text)
        /\ c[i] <= i => i \notin NonCode(text)
        /\ c[i] \in Int
    BY <1>3
  <2>2. c[i] > i => i \in NonCode(text)
    BY <2>1
  <2>3. i \in StripNoncode(text) <=> c[i] > i /\ text[i] # "newline"
    BY DEF StripNoncode, c
  <2>4. i \in NonCode(text) => text[i] # "newline"
    BY DEF NonCode
  <2> QED BY <2>1, <2>2, <2>3, <2>4
<1>5. StripNoncode(text) \subseteq 1..n /\ NonCode(text) \subseteq 1..n
  BY DEF StripNoncode, NonCode
<1> QED BY <1>4, <1>5

\* Taken is what its definition says.
LEMMA TakenSteps ==
  ASSUME NEW text, Len(text) \in Nat
  PROVE  /\ Taken(text)[0] = 0
         /\ \A i \in 1..Len(text) :
              Taken(text)[i] = IF Taken(text)[i - 1] >= i THEN Taken(text)[i - 1] ELSE MatchEnd(text, i)
<1> DEFINE n == Len(text)
           zero == 0
           Rule(f) == [i \in 0..n |-> IF i = 0 THEN 0
                                      ELSE IF f[i - 1] >= i THEN f[i - 1] ELSE MatchEnd(text, i)]
           Reached(k) == {0} \union {MatchEnd(text, i) : i \in 1..k}
           S == [k \in 0..n |-> Reached(k)]
           step == [k \in 1..n |-> [x \in Reached(k - 1) |-> IF x >= k THEN x ELSE MatchEnd(text, k)]]
<1>1. PICK f : Stepwise(f, n, S, zero, step)
  <2>1. n \in Nat /\ zero \in S[0]
    OBVIOUS
  <2>2. ASSUME NEW k \in 1..n, NEW x \in S[k - 1] PROVE step[k][x] \in S[k]
    <3>1. k - 1 \in 0..n /\ k \in 0..n /\ x \in Reached(k - 1)
      BY <2>2
    <3>2. step[k][x] = IF x >= k THEN x ELSE MatchEnd(text, k)
      BY <3>1
    <3>3. x \in Reached(k) /\ MatchEnd(text, k) \in Reached(k)
      BY <3>1
    <3> HIDE DEF Reached, step
    <3> QED BY <3>1, <3>2, <3>3
  <2> HIDE DEF step, n, zero, S
  <2> QED BY ONLY <2>1, <2>2, StepwiseExists
<1>2. f = Rule(f)
  <2>1. ASSUME NEW k \in 0..n PROVE f[k] = Rule(f)[k]
    <3>1. CASE k = 0
      BY <3>1, <1>1 DEF Stepwise
    <3>2. CASE k # 0
      <4>1. k \in 1..n /\ k - 1 \in 0..n
        BY <3>2
      <4>2. f[k] = step[k][f[k - 1]] /\ f[k - 1] \in S[k - 1]
        <5> HIDE DEF step, S
        <5> QED BY <4>1, <1>1 DEF Stepwise
      <4>3. f[k - 1] \in Reached(k - 1)
        BY <4>1, <4>2
      <4>4. f[k] = IF f[k - 1] >= k THEN f[k - 1] ELSE MatchEnd(text, k)
        <5> HIDE DEF Reached
        <5> QED BY <4>1, <4>2, <4>3
      <4> QED BY <4>1, <4>4, <3>2
    <3> QED BY <3>1, <3>2
  <2> QED BY <2>1, <1>1 DEF Stepwise
<1>3. Taken(text) = CHOOSE g : g = Rule(g)
  BY DEF Taken
<1>4. Taken(text) = Rule(Taken(text))
  BY <1>2, <1>3
<1> DEFINE g == Taken(text)
<1> HIDE DEF g
<1>5. g = Rule(g)
  BY <1>4 DEF g
<1>6. g[0] = 0
  BY <1>5
<1>7. ASSUME NEW i \in 1..n PROVE g[i] = IF g[i - 1] >= i THEN g[i - 1] ELSE MatchEnd(text, i)
  <2>1. i \in 0..n /\ i # 0
    OBVIOUS
  <2>2. g[i] = Rule(g)[i]
    BY <1>5
  <2> QED BY <2>1, <2>2
<1> QED BY <1>6, <1>7 DEF g

\* Where a match ends: at the first `init' behind the `get', in the window.
LEMMA MatchFacts ==
  ASSUME NEW text, Len(text) \in Nat, NEW i \in 1..Len(text)
  PROVE  /\ MatchEnd(text, i) # 0 =>
              /\ text[i] = "get" /\ MatchEnd(text, i) \in (i + 1)..(i + 1 + Window)
              /\ MatchEnd(text, i) <= Len(text) /\ text[MatchEnd(text, i)] = "init"
         /\ text[i] = "get" =>
              \A j \in (i + 1)..(i + 1 + Window) :
                j <= Len(text) /\ text[j] = "init" => MatchEnd(text, i) # 0 /\ MatchEnd(text, i) <= j
<1> DEFINE ends == {j \in (i + 1)..(i + 1 + Window) : j <= Len(text) /\ text[j] = "init"}
           e == FirstOf(ends, 0)
<1>1. MatchEnd(text, i) = IF text[i] = "get" THEN e ELSE 0
  BY DEF MatchEnd
<1>2. /\ ends = {} => e = 0
      /\ ends # {} => e \in ends /\ \A j \in ends : e <= j
  <2>1. ends \in SUBSET Nat
    BY DEF Window
  <2> HIDE DEF ends
  <2> QED BY <2>1, FirstOfFacts
<1> HIDE DEF e
<1>3. CASE text[i] = "get"
  BY <1>1, <1>2, <1>3 DEF Window
<1>4. CASE text[i] # "get"
  BY <1>1, <1>4
<1> QED BY <1>3, <1>4

\* What is taken is taken by a match.
LEMMA TakenByMatch ==
  ASSUME NEW text, Len(text) \in Nat, NEW i \in 0..Len(text)
  PROVE  /\ Taken(text)[i] \in Nat
         /\ Taken(text)[i] # 0 =>
              \E s \in 1..i : Taken(text)[s - 1] < s /\ MatchEnd(text, s) = Taken(text)[i]
<1> DEFINE n == Len(text)
           g == Taken(text)
           T == {k \in 0..n : /\ g[k] \in Nat
                              /\ g[k] # 0 => \E s \in 1..k : g[s - 1] < s /\ MatchEnd(text, s) = g[k]}
<1>a. g[0] = 0 /\ \A k \in 1..n : g[k] = IF g[k - 1] >= k THEN g[k - 1] ELSE MatchEnd(text, k)
  BY TakenSteps
<1> HIDE DEF g
<1>1. 0 \in T
  BY <1>a
<1>2. ASSUME NEW k \in 1..n, k - 1 \in T PROVE k \in T
  <2>1. g[k - 1] \in Nat
    BY <1>2
  <2>2. CASE g[k - 1] >= k
    <3>1. g[k] = g[k - 1] /\ g[k - 1] # 0
      BY <2>1, <2>2, <1>a
    <3>2. PICK s \in 1..(k - 1) : g[s - 1] < s /\ MatchEnd(text, s) = g[k - 1]
      BY <3>1, <1>2
    <3>3. s \in 1..k
      OBVIOUS
    <3> QED BY <2>1, <3>1, <3>2, <3>3
  <2>3. CASE ~(g[k - 1] >= k)
    <3>1. g[k] = MatchEnd(text, k) /\ g[k - 1] < k
      BY <2>1, <2>3, <1>a
    <3>2. MatchEnd(text, k) \in Nat
      BY MatchFacts DEF Window
    <3>3. k \in 1..k /\ k \in 0..n
      OBVIOUS
    <3> QED BY <3>1, <3>2, <3>3
  <2> QED BY <2>2, <2>3
<1> HIDE DEF T
<1>3. \A k \in 0..n : k \in T
  BY <1>1, <1>2, CountUp
<1>4. i \in T
  BY <1>3
<1> QED BY <1>4 DEF T, g

\* So is RecallUnlessSwallowed: of every text, code_finditer keeps a match
\* that ends with each key generation in the code, unless a match swallows it
\* that begins in a comment or a string.
THEOREM RecallOfAnyText ==
  ASSUME NEW text, Len(text) \in Nat, NEW c \in RealCalls(text)
  PROVE  \/ \E m \in CodeFindIter(text) : m[2] = c[2]
         \/ \E m \in FindIter(text) : m[2] = c[2] /\ m[1] < c[1] /\ m[1] \in NonCode(text)
<1> DEFINE n == Len(text)
           start == c[1]
           end == c[2]
<1>1. /\ start \in 1..n /\ end \in 1..n /\ start < end /\ end <= start + 1 + Window
      /\ text[start] = "get" /\ text[end] = "init" /\ start \notin NonCode(text)
      /\ \A k \in (start + 1)..(end - 1) : text[k] \notin {"get", "init"}
  BY DEF RealCalls
<1> HIDE DEF start, end
<1>2. ASSUME NEW s \in 1..start, Taken(text)[s - 1] < s, MatchEnd(text, s) # 0, MatchEnd(text, s) = end
      PROVE  \/ \E m \in CodeFindIter(text) : m[2] = end
             \/ \E m \in FindIter(text) : m[2] = end /\ m[1] < start /\ m[1] \in NonCode(text)
  <2> DEFINE m == <<s, MatchEnd(text, s)>>
  <2>1. s \in 1..n /\ m[1] = s /\ m[2] = end
    BY <1>1, <1>2
  <2>2. m \in FindIter(text)
    BY <2>1, <1>2 DEF FindIter
  <2>3. CASE s \notin NonCode(text)
    <3>1. s \notin StripNoncode(text)
      BY <2>3, MaskOfAnyText
    <3>2. m \in CodeFindIter(text)
      BY <2>1, <2>2, <3>1 DEF CodeFindIter
    <3> QED BY <2>1, <3>2
  <2>4. CASE s \in NonCode(text)
    <3>1. s < start
      BY <1>1, <2>4
    <3> QED BY <2>1, <2>2, <2>4, <3>1
  <2> QED BY <2>3, <2>4
<1>3. CASE Taken(text)[start - 1] < start
  <2>1. end \in (start + 1)..(start + 1 + Window)
    BY <1>1 DEF Window
  <2>2. MatchEnd(text, start) # 0 /\ MatchEnd(text, start) <= end
    BY <2>1, <1>1, MatchFacts
  <2>3. MatchEnd(text, start) \in (start + 1)..(start + 1 + Window) /\ text[MatchEnd(text, start)] = "init"
    BY <2>2, <1>1, MatchFacts
  <2>4. MatchEnd(text, start) = end
    <3> DEFINE e == MatchEnd(text, start)
    <3> HIDE DEF e
    <3>1. e \in Int /\ start < e /\ e <= end /\ text[e] = "init"
      BY <1>1, <2>2, <2>3 DEF e, Window
    <3>2. ~(e \in (start + 1)..(end - 1))
      BY <3>1, <1>1
    <3>3. e = end
      BY <3>1, <3>2, <1>1
    <3> QED BY <3>3 DEF e
  <2>5. start \in 1..start
    BY <1>1
  <2> QED BY <1>2, <1>3, <2>2, <2>4, <2>5 DEF start, end
<1>4. CASE ~(Taken(text)[start - 1] < start)
  <2> DEFINE e == Taken(text)[start - 1]
  <2>1. start - 1 \in 0..n
    BY <1>1
  <2>2. e \in Nat /\ (e # 0 => \E s \in 1..(start - 1) : Taken(text)[s - 1] < s /\ MatchEnd(text, s) = e)
    BY <2>1, TakenByMatch
  <2>3. e >= start /\ e # 0
    BY <2>2, <1>1, <1>4
  <2>4. PICK s \in 1..(start - 1) : Taken(text)[s - 1] < s /\ MatchEnd(text, s) = e
    BY <2>2, <2>3
  <2> HIDE DEF e
  <2>5. s \in 1..n /\ s \in 1..start /\ s < start
    BY <1>1
  <2>6. text[s] = "get" /\ e \in (s + 1)..(s + 1 + Window) /\ text[e] = "init"
    BY <2>3, <2>4, <2>5, MatchFacts
  <2>7. e # start
    BY <2>6, <1>1
  <2>8. ~(e \in (start + 1)..(end - 1))
    BY <2>6, <1>1
  <2>9. e >= end
    BY <2>2, <2>3, <2>7, <2>8, <1>1
  <2>10. end \in (s + 1)..(s + 1 + Window)
    BY <2>5, <2>6, <2>9, <1>1 DEF Window
  <2>11. MatchEnd(text, s) <= end
    BY <2>5, <2>6, <2>10, <1>1, MatchFacts
  <2>12. MatchEnd(text, s) = end /\ MatchEnd(text, s) # 0
    BY <2>2, <2>3, <2>4, <2>9, <2>11, <1>1
  <2> QED BY <1>2, <2>4, <2>5, <2>12 DEF start, end
<1> QED BY <1>3, <1>4

\* The answers of code.ts.java are texts.
LEMMA TextsRead ==
  ASSUME NEW f \in JavaFiles
  PROVE  Len(f.text) \in Nat
<1>1. f.text \in Texts \/ f.text = << >>
  BY DEF JavaFiles
<1>2. << >> \in Seq(Lexemes) /\ <<"get", "init">> \in Seq(Lexemes)
  BY DEF Lexemes
<1>3. \A s \in [1..4 -> Lexemes] : s \in Seq(Lexemes)
  BY SeqDef
<1>4. \A s \in [1..3 -> Lexemes] : s \in Seq(Lexemes)
  BY SeqDef
<1>5. \A s \in Seq(Lexemes) : s \o <<"get", "init">> \in Seq(Lexemes)
  BY <1>2, ConcatProperties
<1>6. f.text \in Seq(Lexemes)
  BY <1>1, <1>2, <1>3, <1>4, <1>5 DEF Texts
<1> QED BY <1>6, LenProperties

\* What code.ts.java was answered has a text.
LEMMA JavaAnswer ==
  ASSUME Catalog["CodeTsJava"] = CodeTsJava, AnswerKept, probe = "CodeTsJava", last # Silence
  PROVE  Len(last[1].text) \in Nat
<1> DEFINE t == CodeTsJava.turns[1]
           f == last[1]
<1>1. CodeTsJava.turns = <<t>> /\ DOMAIN t.judge = JavaFiles
  BY DEF CodeTsJava, Compared, Config, Walk, Each, Program, Turn
<1>2. P.turns = <<t>>
  BY <1>1 DEF P
<1>3. f \in DOMAIN t.judge
  <2> HIDE DEF t
  <2>1. last[1] \in DOMAIN t.judge
    BY <1>2, OnlyTurn
  <2> QED BY <2>1
<1>4. f \in JavaFiles
  BY <1>1, <1>3
<1> HIDE DEF f, t
<1>5. Len(f.text) \in Nat
  BY <1>4, TextsRead
<1> QED BY <1>5 DEF f

\* MaskExact for any catalogue that has code.ts.java: strip_noncode is right
\* about every file that the probe meets in a run.
THEOREM RunsMask == Catalog["CodeTsJava"] = CodeTsJava /\ Spec => []MaskExact
<1> DEFINE Listed == Catalog["CodeTsJava"] = CodeTsJava
<1>1. Listed /\ AnswerKept => MaskExact
  <2> SUFFICES ASSUME Listed, AnswerKept, probe = "CodeTsJava", last # Silence
               PROVE  StripNoncode(last[1].text) = NonCode(last[1].text)
    BY DEF MaskExact
  <2> DEFINE text == last[1].text
  <2>1. Len(text) \in Nat
    BY JavaAnswer
  <2> HIDE DEF text
  <2>2. StripNoncode(text) = NonCode(text)
    BY <2>1, MaskOfAnyText
  <2> QED BY <2>2 DEF text
<1>2. Listed => []Listed
  <2>1. Listed => Listed'
    OBVIOUS
  <2> HIDE DEF Listed
  <2> QED BY <2>1, PTL
<1> QED BY <1>1, <1>2, AnswersKept, PTL

\* RecallUnlessSwallowed, too: a run of code.ts.java loses no key generation
\* in any other way.
THEOREM RunsRecall == Catalog["CodeTsJava"] = CodeTsJava /\ Spec => []RecallUnlessSwallowed
<1> DEFINE Listed == Catalog["CodeTsJava"] = CodeTsJava
<1>1. Listed /\ AnswerKept => RecallUnlessSwallowed
  <2> DEFINE text == last[1].text
             Found(c) ==
               \/ \E m \in CodeFindIter(text) : m[2] = c[2]
               \/ \E m \in FindIter(text) : m[2] = c[2] /\ m[1] < c[1] /\ m[1] \in NonCode(text)
  <2> SUFFICES ASSUME Listed, AnswerKept, probe = "CodeTsJava", last # Silence,
                      NEW c \in RealCalls(text)
               PROVE  Found(c)
    BY DEF RecallUnlessSwallowed
  <2>1. Len(text) \in Nat
    BY JavaAnswer
  <2> HIDE DEF text
  <2>2. Found(c)
    BY <2>1, RecallOfAnyText
  <2> QED BY <2>2
<1>2. Listed => []Listed
  <2>1. Listed => Listed'
    OBVIOUS
  <2> HIDE DEF Listed
  <2> QED BY <2>1, PTL
<1> QED BY <1>1, <1>2, AnswersKept, PTL

-----------------------------------------------------------------------------
(***************************************************************************)
(* The chain of a leaf, for a store of any number of certificates.         *)
(***************************************************************************)

\* A certificate's issuer is in the store, if it is not 0.
LEMMA ParentFacts ==
  ASSUME NEW store, Len(store) \in Nat, DOMAIN store = 1..Len(store), NEW c
  PROVE  Parent(store, c) \in 0..Len(store)
<1>1. ASSUME NEW indices \in SUBSET (1..Len(store)) PROVE First(indices) \in 0..Len(store)
  <2>1. CASE indices = {}
    BY <2>1 DEF First
  <2>2. CASE indices # {}
    <3>1. indices \in SUBSET Nat
      OBVIOUS
    <3>2. \E i \in indices : \A j \in indices : i <= j
      BY <2>2, <3>1, LeastNumber
    <3>3. First(indices) \in indices
      BY <2>2, <3>2 DEF First
    <3> DEFINE i == First(indices)
    <3> HIDE DEF i
    <3>4. i \in 1..Len(store)
      BY <3>3 DEF i
    <3>5. i \in 0..Len(store)
      BY <3>4
    <3> QED BY <3>5 DEF i
  <2> QED BY <2>1, <2>2
<1> DEFINE byKey == {i \in DOMAIN store : store[i].key = c.aki}
           byName == {i \in DOMAIN store : store[i].subject = c.issuer}
<1>2. byKey \in SUBSET (1..Len(store)) /\ byName \in SUBSET (1..Len(store))
  OBVIOUS
<1>3. Parent(store, c) = First(byKey) \/ Parent(store, c) = First(byName)
  BY DEF Parent
<1> HIDE DEF byKey, byName
<1> QED BY <1>1, <1>2, <1>3

\* A certificate that names an issuer which the store has.
Issued(store, c) == c.subject # c.issuer /\ Parent(store, c) # 0

\* The chains after k rounds: each certificate is the issuer of the one before,
\* no name comes twice, and a shorter chain than there were rounds is done.
LinkedUp(store, leaf, k) ==
  {chain \in Seq(ToSet(store)) :
     /\ Len(chain) \in 1..(k + 1) /\ chain[1] = leaf
     /\ \A x \in 1..(Len(chain) - 1) :
          Issued(store, chain[x]) /\ chain[x + 1] = store[Parent(store, chain[x])]
     /\ \A x, y \in 1..Len(chain) : chain[x].subject = chain[y].subject => x = y
     /\ Len(chain) = k + 1 \/ Link(store, chain) = chain}

\* A round leads from the chains before it to those after it.
LEMMA LinkGood ==
  ASSUME NEW store, Len(store) \in Nat, DOMAIN store = 1..Len(store), NEW leaf,
         NEW k \in Nat \ {0}, NEW chain \in LinkedUp(store, leaf, k - 1)
  PROVE  Link(store, chain) \in LinkedUp(store, leaf, k)
<1> DEFINE m == Len(chain)
           c == chain[m]
           p == Parent(store, c)
           new == Append(chain, store[p])
<1>a. /\ chain \in Seq(ToSet(store)) /\ m \in 1..((k - 1) + 1) /\ chain[1] = leaf
      /\ \A x \in 1..(m - 1) : Issued(store, chain[x]) /\ chain[x + 1] = store[Parent(store, chain[x])]
      /\ \A x, y \in 1..m : chain[x].subject = chain[y].subject => x = y
      /\ m = (k - 1) + 1 \/ Link(store, chain) = chain
  BY DEF LinkedUp
<1>b. Last(chain) = c
  BY DEF Last
<1>c. m \in 1..(k + 1) /\ m \in Nat /\ m # 0 /\ m <= k
  BY <1>a
<1>d. ToSet(chain) = {chain[x] : x \in 1..m}
  BY <1>a, LenProperties DEF ToSet
<1>1. CASE c.subject = c.issuer \/ p = 0 \/ \E d \in ToSet(chain) : d.subject = store[p].subject
  <2>1. Link(store, chain) = chain
    BY <1>1, <1>b DEF Link
  <2>2. chain \in LinkedUp(store, leaf, k)
    BY <2>1, <1>a, <1>c DEF LinkedUp
  <2> QED BY <2>1, <2>2
<1>2. CASE ~(c.subject = c.issuer \/ p = 0 \/ \E d \in ToSet(chain) : d.subject = store[p].subject)
  <2>1. Link(store, chain) = new
    BY <1>2, <1>b DEF Link
  <2>2. Issued(store, c) /\ p \in 1..Len(store) /\ store[p] \in ToSet(store)
    BY <1>2, ParentFacts DEF Issued, ToSet
  <2>3. /\ new \in Seq(ToSet(store)) /\ Len(new) = m + 1 /\ new[m + 1] = store[p]
        /\ \A x \in 1..m : new[x] = chain[x]
    BY <2>2, <1>a, AppendProperties
  <2>4. m = k
    <3>1. new # chain
      BY <2>3, <1>c
    <3> QED BY <3>1, <2>1, <1>a
  <2> HIDE DEF new
  <2>5. new[1] = leaf
    BY <2>3, <1>a, <1>c
  <2>6. ASSUME NEW x \in 1..(Len(new) - 1)
        PROVE  Issued(store, new[x]) /\ new[x + 1] = store[Parent(store, new[x])]
    <3>1. CASE x = m
      BY <3>1, <2>2, <2>3, <1>c
    <3>2. CASE x # m
      <4>1. x \in 1..(m - 1) /\ x \in 1..m /\ x + 1 \in 1..m
        BY <3>2, <2>3, <1>c
      <4> QED BY <4>1, <2>3, <1>a
    <3> QED BY <3>1, <3>2
  <2>7. \A x \in 1..m : chain[x].subject # store[p].subject
    BY <1>2, <1>d
  <2>8. ASSUME NEW x \in 1..Len(new), NEW y \in 1..Len(new), new[x].subject = new[y].subject
        PROVE  x = y
    <3>1. (x \in 1..m \/ x = m + 1) /\ (y \in 1..m \/ y = m + 1)
      BY <2>3, <1>c
    <3> QED BY <3>1, <2>3, <2>7, <2>8, <1>a
  <2>9. Len(new) \in 1..(k + 1) /\ Len(new) = k + 1
    BY <2>3, <2>4
  <2> QED BY <2>1, <2>3, <2>5, <2>6, <2>8, <2>9 DEF LinkedUp
<1> QED BY <1>1, <1>2

\* The chain of a leaf is linked, and no further round adds anything to it: a
\* chain that has grown in each round is longer than the store.
LEMMA ChainGood ==
  ASSUME NEW store, Len(store) \in Nat, DOMAIN store = 1..Len(store), NEW leaf \in ToSet(store)
  PROVE  /\ ChainOf(store, leaf) \in LinkedUp(store, leaf, Len(store))
         /\ Link(store, ChainOf(store, leaf)) = ChainOf(store, leaf)
<1> DEFINE n == Len(store)
           a == <<leaf>>
           S == [k \in 0..n |-> LinkedUp(store, leaf, k)]
           step == [k \in 1..n |-> [x \in LinkedUp(store, leaf, k - 1) |-> Link(store, x)]]
           Rule(f) == [k \in 0..n |-> IF k = 0 THEN <<leaf>> ELSE Link(store, f[k - 1])]
<1>0. a \in LinkedUp(store, leaf, 0)
  <2>1. a \in Seq(ToSet(store)) /\ Len(a) = 1 /\ a[1] = leaf
    OBVIOUS
  <2> HIDE DEF a
  <2>2. Len(a) \in 1..(0 + 1) /\ Len(a) = 0 + 1 /\ 1..(Len(a) - 1) = {}
    BY <2>1
  <2>3. \A x, y \in 1..Len(a) : x = y
    BY <2>1
  <2> QED BY <2>1, <2>2, <2>3 DEF LinkedUp
<1>b. \A k \in 1..n : \A x \in LinkedUp(store, leaf, k - 1) : Link(store, x) \in LinkedUp(store, leaf, k)
  BY LinkGood
<1>1. PICK f : Stepwise(f, n, S, a, step)
  <2>1. n \in Nat /\ a \in S[0]
    BY <1>0
  <2>2. ASSUME NEW k \in 1..n, NEW x \in S[k - 1] PROVE step[k][x] \in S[k]
    <3>1. k - 1 \in 0..n /\ k \in 0..n /\ x \in LinkedUp(store, leaf, k - 1)
      BY <2>2
    <3>2. step[k][x] = Link(store, x)
      BY <3>1
    <3> QED BY <3>1, <3>2, <1>b
  <2> HIDE DEF step, n, a, S
  <2> QED BY ONLY <2>1, <2>2, StepwiseExists
<1>2. f = Rule(f)
  <2>1. ASSUME NEW k \in 0..n PROVE f[k] = Rule(f)[k]
    <3>1. CASE k = 0
      BY <3>1, <1>1 DEF Stepwise
    <3>2. CASE k # 0
      <4>1. k \in 1..n /\ k - 1 \in 0..n
        BY <3>2
      <4>2. f[k] = step[k][f[k - 1]] /\ f[k - 1] \in S[k - 1]
        <5> HIDE DEF step, S
        <5> QED BY <4>1, <1>1 DEF Stepwise
      <4>3. f[k] = Link(store, f[k - 1])
        BY <4>1, <4>2
      <4> QED BY <4>1, <4>3, <3>2
    <3> QED BY <3>1, <3>2
  <2> QED BY <2>1, <1>1 DEF Stepwise
<1>3. Chains(store, leaf) = CHOOSE g : g = Rule(g)
  BY DEF Chains
<1> DEFINE g == Chains(store, leaf)
<1> HIDE DEF g
<1>4. g = Rule(g)
  BY <1>2, <1>3 DEF g
<1> DEFINE T == {k \in 0..n : g[k] \in LinkedUp(store, leaf, k)}
<1>5. 0 \in T
  <2>1. g[0] = a
    BY <1>4
  <2> QED BY <2>1, <1>0
<1>6. ASSUME NEW k \in 1..n, k - 1 \in T PROVE k \in T
  <2>1. k \in 0..n /\ k # 0
    OBVIOUS
  <2>2. g[k] = Rule(g)[k]
    BY <1>4
  <2>3. g[k] = Link(store, g[k - 1])
    BY <2>1, <2>2
  <2> QED BY <2>1, <2>3, <1>6, <1>b
<1>7. n \in T
  <2>1. \A k \in 0..n : k \in T
    <3> HIDE DEF T
    <3> QED BY <1>5, <1>6, CountUp
  <2> QED BY <2>1
<1> DEFINE chain == ChainOf(store, leaf)
<1>8. chain \in LinkedUp(store, leaf, n)
  BY <1>7 DEF ChainOf, g
<1> HIDE DEF chain
<1>9. /\ chain \in Seq(ToSet(store))
      /\ \A x, y \in 1..Len(chain) : chain[x].subject = chain[y].subject => x = y
      /\ Len(chain) = n + 1 \/ Link(store, chain) = chain
  BY <1>8 DEF LinkedUp
<1>10. Len(chain) # n + 1
  <2> SUFFICES ASSUME Len(chain) = n + 1 PROVE FALSE
    OBVIOUS
  <2> DEFINE at == [x \in 1..(n + 1) |-> CHOOSE i \in 1..n : store[i] = chain[x]]
             from == 1..(n + 1)
             to == 1..n
  <2>1. \A x \in from : chain[x] \in ToSet(store)
    BY <1>9, LenProperties
  <2>2. \A x \in from : at[x] \in to /\ store[at[x]] = chain[x]
    <3>1. \A x \in from : \E i \in 1..n : store[i] = chain[x]
      BY <2>1 DEF ToSet
    <3> QED BY <3>1
  <2>3. at \in [from -> to]
    BY <2>2
  <2>4. IsFiniteSet(from) /\ IsFiniteSet(to) /\ Cardinality(to) < Cardinality(from)
    <3>1. IsFiniteSet(from) /\ Cardinality(from) = n + 1
      BY FS_Interval
    <3>2. IsFiniteSet(to) /\ Cardinality(to) = n
      BY FS_Interval
    <3> HIDE DEF from, to
    <3> QED BY <3>1, <3>2
  <2> HIDE DEF at, from, to
  <2>5. PICK x \in from, y \in from : x # y /\ at[x] = at[y]
    BY <2>3, <2>4, FS_PigeonHole
  <2>6. chain[x] = chain[y]
    BY <2>2, <2>5
  <2> QED BY <2>5, <2>6, <1>9 DEF from
<1> QED BY <1>8, <1>9, <1>10 DEF chain

\* WeakestLinkReported rests on this for any store, not only the small ones
\* that TLC draws: however far the issuers lead, in whatever order and under
\* whichever keys the certificates are found, the chain that _walk_and_emit
\* assembles has all that stands behind the leaf, if no two of them have one
\* name, and nothing else.
THEOREM ChainOfAnyStore ==
  ASSUME NEW store, Len(store) \in Nat, DOMAIN store = 1..Len(store), NEW leaf \in ToSet(store),
         \A c, d \in Behind(store, leaf) : c.subject = d.subject => c = d
  PROVE  ToSet(ChainOf(store, leaf)) = Behind(store, leaf)
<1> DEFINE chain == ChainOf(store, leaf)
           m == Len(chain)
           Closed(s) == \A c \in s : c.subject = c.issuer \/ Parent(store, c) = 0
                                      \/ store[Parent(store, c)] \in s
<1>a. chain \in LinkedUp(store, leaf, Len(store)) /\ Link(store, chain) = chain
  BY ChainGood
<1>b. Behind(store, leaf) =
        {c \in ToSet(store) : \A s \in SUBSET ToSet(store) : leaf \in s /\ Closed(s) => c \in s}
  BY DEF Behind
<1> HIDE DEF chain
<1>c. /\ chain \in Seq(ToSet(store)) /\ m \in Nat /\ m # 0 /\ chain[1] = leaf
      /\ \A x \in 1..(m - 1) : Issued(store, chain[x]) /\ chain[x + 1] = store[Parent(store, chain[x])]
  <2>1. /\ chain \in Seq(ToSet(store)) /\ m \in 1..(Len(store) + 1) /\ chain[1] = leaf
        /\ \A x \in 1..(m - 1) : Issued(store, chain[x]) /\ chain[x + 1] = store[Parent(store, chain[x])]
    BY <1>a DEF LinkedUp
  <2> QED BY <2>1
<1>d. /\ ToSet(chain) = {chain[x] : x \in 1..m}
      /\ \A x \in 1..m : chain[x] \in ToSet(store)
  BY <1>c, LenProperties DEF ToSet
<1>e. \A c \in ToSet(store) : Issued(store, c) => store[Parent(store, c)] \in ToSet(store)
  BY ParentFacts DEF Issued, ToSet
<1>1. ToSet(chain) \subseteq Behind(store, leaf)
  <2> DEFINE T == {x \in 0..(m - 1) : chain[x + 1] \in Behind(store, leaf)}
  <2>1. 0 \in T
    BY <1>b, <1>c
  <2>2. ASSUME NEW x \in 1..(m - 1), x - 1 \in T PROVE x \in T
    <3>1. chain[x] \in Behind(store, leaf) /\ x \in 0..(m - 1)
      BY <2>2
    <3>2. Issued(store, chain[x]) /\ chain[x + 1] = store[Parent(store, chain[x])]
      BY <1>c
    <3>3. chain[x + 1] \in Behind(store, leaf)
      BY <3>1, <3>2, <1>b, <1>e DEF Issued
    <3> QED BY <3>1, <3>3
  <2>3. \A x \in 0..(m - 1) : x \in T
    <3> HIDE DEF T
    <3>1. m - 1 \in Nat
      BY <1>c
    <3> DEFINE l == m - 1
    <3>2. l \in Nat /\ \A x \in 1..l : x - 1 \in T => x \in T
      BY <3>1, <2>2
    <3> HIDE DEF l
    <3>3. \A x \in 0..l : x \in T
      BY <2>1, <3>2, CountUp
    <3> QED BY <3>3 DEF l
  <2>4. ASSUME NEW x \in 1..m PROVE chain[x] \in Behind(store, leaf)
    <3>1. x - 1 \in 0..(m - 1) /\ (x - 1) + 1 = x
      BY <1>c
    <3>2. x - 1 \in T
      BY <2>3, <3>1
    <3> QED BY <3>1, <3>2
  <2> QED BY <2>4, <1>d
<1>2. Closed(ToSet(chain))
  <2> SUFFICES ASSUME NEW c \in ToSet(chain), Issued(store, c)
               PROVE  store[Parent(store, c)] \in ToSet(chain)
    BY DEF Issued
  <2>1. PICK x \in 1..m : c = chain[x]
    BY <1>d
  <2>2. CASE x # m
    <3>1. x \in 1..(m - 1) /\ x + 1 \in 1..m
      BY <2>2, <1>c
    <3> QED BY <2>1, <3>1, <1>c, <1>d
  <2>3. CASE x = m
    <3> DEFINE p == Parent(store, c)
    <3>1. Last(chain) = c
      BY <2>1, <2>3 DEF Last
    <3>2. Append(chain, store[p]) # chain
      <4>1. store[p] \in ToSet(store)
        BY <1>e, <1>d
      <4>2. Len(Append(chain, store[p])) = m + 1
        BY <4>1, <1>c, AppendProperties
      <4> QED BY <4>2, <1>c
    <3>3. \E d \in ToSet(chain) : d.subject = store[p].subject
      BY <3>1, <3>2, <1>a DEF Link, Issued
    <3>4. PICK d \in ToSet(chain) : d.subject = store[p].subject
      BY <3>3
    <3>5. store[p] \in Behind(store, leaf)
      BY <1>1, <1>b, <1>e DEF Issued
    <3>6. d = store[p]
      BY <3>4, <3>5, <1>1
    <3> QED BY <3>4, <3>6
  <2> QED BY <2>2, <2>3
<1>3. leaf \in ToSet(chain)
  BY <1>c, <1>d
<1>4. ToSet(chain) \in SUBSET ToSet(store)
  BY <1>d
<1>5. Behind(store, leaf) \subseteq ToSet(chain)
  <2> HIDE DEF Closed
  <2> QED BY <1>2, <1>3, <1>4, <1>b
<1> QED BY <1>1, <1>5 DEF chain

\* What is reported of a chain is in it, and nothing in it is worse.
LEMMA WeakestFacts ==
  ASSUME NEW chain
  PROVE  /\ \A c \in ToSet(chain) : \A k \in ChainClassifications(c) : Rank(WeakestLink(chain)) <= Rank(k)
         /\ \A k : Rank(k) \in Nat
         /\ Rank("pqc-ready") = 4 /\ Rank("tinggi") = 1
<1> DEFINE classes == (UNION {ChainClassifications(c) : c \in ToSet(chain)}) \union {"pqc-ready"}
           ranks == {Rank(k) : k \in classes}
<1>1. \A k : Rank(k) \in Nat
  BY DEF Rank
<1>2. PICK r \in ranks : \A q \in ranks : r <= q
  <2>1. ranks \in SUBSET Nat
    BY <1>1
  <2>2. "pqc-ready" \in classes
    OBVIOUS
  <2> HIDE DEF classes
  <2>3. ranks # {}
    BY <2>2
  <2> HIDE DEF ranks
  <2> QED BY <2>1, <2>3, LeastNumber
<1>3. WeakestLink(chain) = CHOOSE c \in classes : \A d \in classes : Rank(c) <= Rank(d)
  BY DEF WeakestLink
<1>4. \A c \in ToSet(chain) : \A k \in ChainClassifications(c) : k \in classes
  OBVIOUS
<1> HIDE DEF classes
<1>5. \E c \in classes : \A d \in classes : Rank(c) <= Rank(d)
  BY <1>2
<1>6. \A d \in classes : Rank(WeakestLink(chain)) <= Rank(d)
  BY <1>3, <1>5
<1>7. Rank("pqc-ready") = 4 /\ Rank("tinggi") = 1
  BY DEF Rank
<1> QED BY <1>1, <1>4, <1>6, <1>7

\* The stores begin with an end entity, whose key is classical.
LEMMA StoreFacts ==
  ASSUME NEW store \in Stores
  PROVE  /\ Len(store) \in Nat /\ DOMAIN store = 1..Len(store) /\ 1 \in DOMAIN store
         /\ ~store[1].ca /\ KeyClass(store[1].key) = "tinggi"
<1>1. \E l : /\ l \in EndEntities("EC") \union EndEntities("RSA-4096")
             /\ \/ store = <<l>>
                \/ \E a : store = <<l, a>>
                \/ \E a, b : store = <<l, a, b>>
  BY DEF Stores
<1>2. PICK l \in EndEntities("EC") \union EndEntities("RSA-4096") :
        store = <<l>> \/ (\E a : store = <<l, a>>) \/ (\E a, b : store = <<l, a, b>>)
  BY <1>1
<1>3. ~l.ca /\ l.key \in {"EC", "RSA-4096"}
  BY DEF EndEntities
<1>4. KeyClass(l.key) = "tinggi"
  BY <1>3 DEF KeyClass
<1>5. Len(store) \in Nat /\ DOMAIN store = 1..Len(store) /\ 1 \in DOMAIN store /\ store[1] = l
  BY <1>2
<1> QED BY <1>3, <1>4, <1>5

\* What _emit_chains says of the first certificate's chain.
LEMMA FirstChainEmitted ==
  ASSUME NEW store \in Stores, ~\E i \in LeafIndices(store) : Fails(store, i),
         \A c, d \in Behind(store, store[1]) : c.subject = d.subject => c = d
  PROVE  \E f \in EmitChains(store) :
           \A c \in Behind(store, store[1]) : \A k \in ChainClassifications(c) : Rank(f.cls) <= Rank(k)
<1> DEFINE leaf == store[1]
           chain == ChainOf(store, leaf)
           w == WeakestLink(chain)
<1>1. /\ Len(store) \in Nat /\ DOMAIN store = 1..Len(store) /\ 1 \in DOMAIN store
      /\ ~leaf.ca /\ KeyClass(leaf.key) = "tinggi"
  BY StoreFacts
<1>2. leaf \in ToSet(store)
  BY <1>1 DEF ToSet
<1>3. ToSet(chain) = Behind(store, leaf)
  <2> HIDE DEF chain, leaf
  <2>1. \A c, d \in Behind(store, leaf) : c.subject = d.subject => c = d
    BY DEF leaf
  <2> QED BY <1>1, <1>2, <2>1, ChainOfAnyStore DEF chain
<1>4. leaf \in ToSet(chain)
  <2>1. leaf \in Behind(store, leaf)
    BY <1>2 DEF Behind
  <2> QED BY <2>1, <1>3
<1>5. /\ \A c \in ToSet(chain) : \A k \in ChainClassifications(c) : Rank(w) <= Rank(k)
      /\ \A k : Rank(k) \in Nat
      /\ Rank("pqc-ready") = 4 /\ Rank("tinggi") = 1
  <2> HIDE DEF chain
  <2> QED BY WeakestFacts
<1>6. 1 \in LeafIndices(store)
  BY <1>1 DEF LeafIndices, IsLeaf
<1> HIDE DEF w
<1>7. w # "pqc-ready"
  <2> HIDE DEF chain, leaf
  <2>1. "tinggi" \in ChainClassifications(leaf)
    BY <1>1 DEF ChainClassifications
  <2>2. Rank(w) <= 1
    BY <1>4, <1>5, <2>1
  <2> QED BY <2>2, <1>5
<1>8. Graded(w) \in EmitChains(store)
  BY <1>6, <1>7 DEF EmitChains, w
<1>9. Graded(w).cls = w
  BY DEF Graded, Finding
<1> QED BY <1>3, <1>5, <1>8, <1>9

\* WeakestLinkReported for any catalogue that has fs.cert.chain.
THEOREM RunsReportWeakest ==
  Catalog["FsCertChain"] = FsCertChain /\ Spec => []WeakestLinkReported
<1> DEFINE Listed == Catalog["FsCertChain"] = FsCertChain
<1>1. Listed /\ IInv /\ AnswerKept => WeakestLinkReported
  <2> DEFINE store == last[1]
             t == FsCertChain.turns[1]
  <2> SUFFICES ASSUME Listed, IInv, AnswerKept,
                      probe = "FsCertChain", last # Silence, outcome # "raised", Len(store) > 1,
                      \A c, d \in Behind(store, store[1]) : c.subject = d.subject => c = d
               PROVE  \E f \in SaidOf(1) : \A c \in Behind(store, store[1]) :
                        \A k \in ChainClassifications(c) : Rank(f.cls) <= Rank(k)
    BY DEF WeakestLinkReported
  <2>1. FsCertChain.turns = <<t>> /\ DOMAIN t.judge = Stores /\ FsCertChain.items = {1}
    BY DEF FsCertChain, Compared, Look, Walk, Each, Program, Turn
  <2>2. P.turns = <<t>> /\ P.items = {1}
    BY <2>1 DEF P
  <2>3. store \in DOMAIN t.judge /\ Passed(t.judge[store])
    <3> HIDE DEF t
    <3>1. last[1] \in DOMAIN t.judge /\ Passed(t.judge[last[1]])
      BY <2>2, OnlyTurn
    <3> QED BY <3>1
  <2>4. store \in Stores
    BY <2>1, <2>3
  <2>5. t.judge[store] = CASE Len(store) < 2 -> Quiet
           [] \E i \in LeafIndices(store) : Fails(store, i) -> Raise(EmitChains(store))
           [] OTHER -> Stop(EmitChains(store) \union EmitKeyReuse(store))
    BY <2>4 DEF FsCertChain, Compared, Look, Walk, Each, Program, Turn
  <2> HIDE DEF store, t
  <2>6. total = 1
    BY <2>2 DEF IInv, TypeOK
  <2>7. ~(Len(store) < 2)
    <3>1. Len(store) \in Nat
      BY <2>4, StoreFacts
    <3> QED BY <3>1
  <2>8. ~\E i \in LeafIndices(store) : Fails(store, i)
    <3> SUFFICES ASSUME \E i \in LeafIndices(store) : Fails(store, i) PROVE FALSE
      OBVIOUS
    <3>1. t.judge[store].next = "raise"
      BY <2>5, <2>7 DEF Raise
    <3> QED BY <3>1, <2>3 DEF Passed
  <2>9. EmitChains(store) \subseteq t.judge[store].says
    BY <2>5, <2>7, <2>8 DEF Stop
  <2>10. \A f \in EmitChains(store) : <<1, f>> \in said
    <3>1. PICK k \in 1..1 : {k} \X t.judge[store].says \subseteq said
      BY <2>3, <2>6 DEF Passed
    <3> QED BY <3>1, <2>9
  <2>11. EmitChains(store) \subseteq SaidOf(1)
    <3> SUFFICES ASSUME NEW f \in EmitChains(store) PROVE f \in SaidOf(1)
      OBVIOUS
    <3> DEFINE s == <<1, f>>
    <3>1. s \in {x \in said : x[1] = 1} /\ s[2] = f
      BY <2>10
    <3> HIDE DEF s
    <3> QED BY <3>1 DEF SaidOf
  <2>12. \E f \in EmitChains(store) : \A c \in Behind(store, store[1]) :
           \A k \in ChainClassifications(c) : Rank(f.cls) <= Rank(k)
    BY <2>4, <2>8, FirstChainEmitted
  <2> QED BY <2>11, <2>12
<1>2. Listed => []Listed
  <2>1. Listed => Listed'
    OBVIOUS
  <2> HIDE DEF Listed
  <2> QED BY <2>1, PTL
<1> QED BY <1>1, <1>2, AnswersKept, InvHolds, PTL
=============================================================================
