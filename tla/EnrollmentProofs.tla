-------------------------- MODULE EnrollmentProofs --------------------------
(***************************************************************************)
(* Proofs about Enrollment, for any machines and any number of tokens.     *)
(*                                                                         *)
(* None of the three safety properties is inductive.  What makes them so   *)
(* is that every token in the table was minted (so the next one is new),   *)
(* that no two rows hold the same one, that what was retired was minted    *)
(* and is in no row, and that `revoked` follows the operators' word.       *)
(***************************************************************************)
EXTENDS Enrollment, TLAPS

Minted ==
  /\ \A m \in Machines : token[m] \in 0..minted
  /\ \A t \in retired : t \in 1..minted

Distinct ==
  \A m, n \in Machines : token[m] # 0 /\ token[m] = token[n] => m = n

RetiredAbsent ==
  \A t \in retired : \A m \in Machines : token[m] # t

\* A request past its check has room for one more token.
Room == enrolling # None => minted < MaxTokens

\* The inductive invariant.
IInv ==
  /\ TypeOK
  /\ Room
  /\ Minted
  /\ Distinct
  /\ RetiredAbsent
  /\ banned \subseteq revoked

-----------------------------------------------------------------------------
\* The empty table satisfies the invariant.
LEMMA InitIInv == Init => IInv
BY MachinesAssumption, MaxTokensAssumption
   DEF Init, IInv, TypeOK, Room, Minted, Distinct, RetiredAbsent, Tokens

\* Every step of an enrollment, an operator or a crash preserves it.
LEMMA NextIInv == IInv /\ [Next]_vars => IInv'
<1> SUFFICES ASSUME IInv, [Next]_vars PROVE IInv'
  OBVIOUS
<1> USE MachinesAssumption, MaxTokensAssumption
        DEF IInv, TypeOK, Room, Minted, Distinct, RetiredAbsent, Tokens, auditVars
<1>1. ASSUME NEW m \in Machines, EnrollCheck(m) PROVE IInv'
  BY <1>1 DEF EnrollCheck, LoopFree
<1>2. ASSUME NEW m \in Machines, EnrollRefused(m) PROVE IInv'
  BY <1>2 DEF EnrollRefused, vars
<1>3. ASSUME NEW m \in Machines, RevokeHost(m) PROVE IInv'
  <2> USE <1>3 DEF RevokeHost
  <2>a. m \in Machines /\ token[m] \in 0..MaxTokens
    OBVIOUS
  <2>b. token' \in [Machines -> 0..MaxTokens]
    BY <2>a
  <2>c. retired' \subseteq Tokens
    <3>1. {token[m]} \ {0} \subseteq 1..MaxTokens
      BY <2>a
    <3> QED BY <3>1, Zenon
  <2>d. revoked' \subseteq hosts' /\ banned' \subseteq Machines /\ cleared' \subseteq Machines
    OBVIOUS
  <2>1. TypeOK' /\ Room'
    BY <2>b, <2>c, <2>d
  <2>2. Minted' /\ Distinct'
    OBVIOUS
  <2>3. RetiredAbsent'
    OBVIOUS
  <2>4. (banned \subseteq revoked)'
    OBVIOUS
  <2> QED BY <2>1, <2>2, <2>3, <2>4
<1>4. ASSUME NEW m \in Machines, UnrevokeHost(m) PROVE IInv'
  BY <1>4 DEF UnrevokeHost
<1>5. ASSUME EnrollUpsert PROVE IInv'
  <2> USE <1>5 DEF EnrollUpsert
  <2>1. enrolling \in Machines /\ minted < MaxTokens /\ minted \in Nat
    OBVIOUS
  <2>a. token' \in [Machines -> 0..MaxTokens] /\ minted' \in 0..MaxTokens
    BY <2>1
  <2>b. retired' \subseteq Tokens
    <3>1. token[enrolling] \in 0..MaxTokens
      BY <2>1
    <3>2. {token[enrolling]} \ {0} \subseteq 1..MaxTokens
      BY <3>1
    <3> QED BY <3>2, Zenon
  <2>c. /\ hosts' \subseteq Machines /\ revoked' \subseteq hosts'
        /\ banned' \subseteq Machines /\ cleared' \subseteq Machines
    BY <2>1
  <2>2. TypeOK' /\ Room'
    BY <2>a, <2>b, <2>c
  <2>3. Minted'
    BY <2>1
  <2>4. Distinct'
    \* The new token is above every one in the table.
    BY <2>1
  <2>5. RetiredAbsent'
    \* What is retired here was in this row, and rows are distinct.
    BY <2>1
  <2>6. (banned \subseteq revoked)'
    OBVIOUS
  <2> QED BY <2>2, <2>3, <2>4, <2>5, <2>6
<1>6. ASSUME Crash PROVE IInv'
  BY <1>6 DEF Crash
<1>7. ASSUME UNCHANGED vars PROVE IInv'
  BY <1>7 DEF vars
<1> QED
  BY <1>1, <1>2, <1>3, <1>4, <1>5, <1>6, <1>7 DEF Next

\* The invariant holds in every reachable state.
LEMMA Invariance == Spec => []IInv
BY InitIInv, NextIInv, PTL DEF Spec

-----------------------------------------------------------------------------
\* The types of the hosts table and of the enroll request in progress; in
\* particular only a host that has enrolled is ever revoked.
THEOREM TypeCorrect == Spec => []TypeOK
<1>1. IInv => TypeOK
  BY DEF IInv
<1> QED BY <1>1, Invariance, PTL

\* get_host_by_token_hash finds at most one row, for every number of hosts.
THEOREM OneHostPerToken == Spec => []TokenNamesOneHost
<1>1. IInv => TokenNamesOneHost
  BY DEF IInv, TypeOK, Distinct, TokenNamesOneHost, HostOf
<1> QED BY <1>1, Invariance, PTL

\* A token that a revoke or a rotation took out of the table opens no host
\* again.
THEOREM DeadTokensStayDead == Spec => []RetiredTokensDead
<1>1. IInv => RetiredTokensDead
  BY DEF IInv, TypeOK, RetiredAbsent, RetiredTokensDead, HostOf
<1> QED BY <1>1, Invariance, PTL

\* After an operator's revoke no token authenticates as the host until an
\* operator unrevokes it, whatever enrollment was already under way.
THEOREM RevocationHolds == Spec => []OperatorWordStands
<1>1. IInv => OperatorWordStands
  BY DEF IInv, OperatorWordStands, Authenticates
<1> QED BY <1>1, Invariance, PTL

\* The token a step leaves in a row was in no other row before it, and had
\* not been retired.
TokenStays ==
  \A n \in Machines : token'[n] # 0 =>
    /\ token'[n] \notin retired
    /\ \A m \in Machines : token[m] = token'[n] => m = n

\* A token belongs to one host for ever: enroll never writes into a row a hash
\* that another row holds or that any row held before, so what an agent has
\* kept on disk can become useless but never another host's.
THEOREM TokensNeverMove == Spec => [][TokenStays]_vars
<1>1. IInv /\ [Next]_vars => [TokenStays]_vars
  <2> SUFFICES ASSUME IInv, Next PROVE TokenStays
    BY DEF vars
  <2> USE DEF IInv, TypeOK, Minted, Distinct, RetiredAbsent, TokenStays, auditVars
  <2>1. ASSUME UNCHANGED token PROVE TokenStays
    BY <2>1
  <2>2. ASSUME NEW m \in Machines, RevokeHost(m) PROVE TokenStays
    BY <2>2 DEF RevokeHost
  <2>3. ASSUME EnrollUpsert PROVE TokenStays
    BY <2>3 DEF EnrollUpsert
  <2> QED
    BY <2>1, <2>2, <2>3
       DEF Next, EnrollCheck, EnrollRefused, UnrevokeHost, Crash, vars
<1> QED BY <1>1, Invariance, PTL DEF Spec

=============================================================================
