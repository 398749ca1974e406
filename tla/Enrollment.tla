----------------------------- MODULE Enrollment -----------------------------
(***************************************************************************)
(* The fleet's `hosts` table and the tokens that open it: enrollment in    *)
(* daemon/fleet.py, bearer authentication of an ingest request, and the    *)
(* operator's revoke and unrevoke, which run in the daemon or in a         *)
(* `pqcscan agents` process of their own.                                  *)
(*                                                                         *)
(* The enroll handler never awaits between its check of the prior row and  *)
(* its write, so no other handler of the daemon's event loop runs in       *)
(* between; a CLI process can.  `enrolling` names the machine whose enroll *)
(* request is between the two statements and holds the loop.               *)
(*                                                                         *)
(* A token is a positive number, the order in which it was minted, and     *)
(* stands for its SHA-256 as well (collisions are not modelled).           *)
(***************************************************************************)
EXTENDS Integers, FiniteSets

CONSTANTS
  Machines,     \* machine ids; the host row of a machine is named by it
  None,         \* no machine
  MaxTokens     \* bound: tokens the daemon mints

ASSUME MachinesAssumption == None \notin Machines
ASSUME MaxTokensAssumption == MaxTokens \in Nat

VARIABLES
  hosts,        \* machines that have a row in `hosts`
  token,        \* token[m]: hosts.token_hash of m, 0 when NULL
  revoked,      \* machines whose row is revoked
  minted,       \* number of tokens handed out so far
  enrolling,    \* machine whose enroll request passed the check, or None
  \* What the operators have said and done, for the properties only:
  retired,      \* tokens a revoke or a rotation has taken out of the table
  banned,       \* hosts whose last operator command was revoke
  cleared       \* hosts revoked, and not enrolled outside a revocation since

auditVars == <<retired, banned, cleared>>
vars == <<hosts, token, revoked, minted, enrolling, auditVars>>

Tokens == 1..MaxTokens

\* The rows get_host_by_token_hash can return; the unique index makes it one.
HostOf(t) == {m \in hosts : t # 0 /\ token[m] = t}

LoopFree == enrolling = None

Init ==
  /\ hosts = {}
  /\ token = [m \in Machines |-> 0]
  /\ revoked = {}
  /\ minted = 0
  /\ enrolling = None
  /\ retired = {}
  /\ banned = {}
  /\ cleared = {}

-----------------------------------------------------------------------------
\* POST /api/agents/enroll with a good enrollment token, up to the check of
\* the prior row: a revoked host is refused and nothing changes.
EnrollCheck(m) ==
  /\ LoopFree
  /\ m \notin revoked
  /\ minted < MaxTokens
  /\ enrolling' = m
  /\ UNCHANGED <<hosts, token, revoked, minted, auditVars>>

EnrollRefused(m) ==
  /\ LoopFree
  /\ m \in revoked
  /\ UNCHANGED vars

\* Mutated: a re-enrollment also re-approves the host.
EnrollUpsertReapproves ==
  /\ enrolling # None
  /\ minted' = minted + 1
  /\ hosts' = hosts \cup {enrolling}
  /\ token' = [token EXCEPT ![enrolling] = minted + 1]
  /\ revoked' = revoked \ {enrolling}
  /\ retired' = retired \cup ({token[enrolling]} \ {0})
  /\ cleared' = cleared \ {enrolling}
  /\ enrolling' = None
  /\ UNCHANGED banned

\* Mutated: the minted count is not advanced, so a token is handed out twice.
EnrollUpsertRemints ==
  /\ enrolling # None
  /\ hosts' = hosts \cup {enrolling}
  /\ token' = [token EXCEPT ![enrolling] = minted + 1]
  /\ retired' = retired \cup ({token[enrolling]} \ {0})
  /\ enrolling' = None
  /\ UNCHANGED <<revoked, minted, banned, cleared>>

\* The rest of the handler: mint a token and upsert the row.  upsert_host
\* writes the hash whatever `revoked` says, and never clears `revoked`.
EnrollUpsert ==
  /\ enrolling # None
  /\ minted' = minted + 1
  /\ hosts' = hosts \cup {enrolling}
  /\ token' = [token EXCEPT ![enrolling] = minted + 1]
  /\ retired' = retired \cup ({token[enrolling]} \ {0})
  /\ cleared' = cleared \ ({enrolling} \ revoked)
  /\ enrolling' = None
  /\ UNCHANGED <<revoked, banned>>

\* _agent_host: what a presented bearer token opens, if anything.
Authenticates(t, m) ==
  /\ LoopFree
  /\ m \in HostOf(t)
  /\ m \notin revoked

\* 401: the token opens nothing.
Unauthorised(t) ==
  /\ LoopFree
  /\ HostOf(t) \subseteq revoked

\* Mutated: the flag is set and the token hash left in the row.
RevokeHostKeepsToken(m) ==
  /\ m \in hosts
  /\ revoked' = revoked \cup {m}
  /\ retired' = retired \cup ({token[m]} \ {0})
  /\ banned' = banned \cup {m}
  /\ cleared' = cleared \cup {m}
  /\ UNCHANGED <<hosts, token, minted, enrolling>>

\* Mutated: no look-up of the row, so a host that never enrolled is revoked.
RevokeHostUnknown(m) ==
  /\ revoked' = revoked \cup {m}
  /\ token' = [token EXCEPT ![m] = 0]
  /\ retired' = retired \cup ({token[m]} \ {0})
  /\ banned' = banned \cup {m}
  /\ cleared' = cleared \cup {m}
  /\ UNCHANGED <<hosts, minted, enrolling>>

\* revoke_host, from the endpoint or from `pqcscan agents revoke`.
RevokeHost(m) ==
  /\ m \in hosts
  /\ revoked' = revoked \cup {m}
  /\ token' = [token EXCEPT ![m] = 0]
  /\ retired' = retired \cup ({token[m]} \ {0})
  /\ banned' = banned \cup {m}
  /\ cleared' = cleared \cup {m}
  /\ UNCHANGED <<hosts, minted, enrolling>>

\* unrevoke_host: only the flag changes.
UnrevokeHost(m) ==
  /\ m \in hosts
  /\ revoked' = revoked \ {m}
  /\ banned' = banned \ {m}
  /\ UNCHANGED <<hosts, token, minted, enrolling, retired, cleared>>

\* A killed daemon loses the request it was enrolling; the rows are on disk.
Crash ==
  /\ enrolling' = None
  /\ UNCHANGED <<hosts, token, revoked, minted, auditVars>>

Next ==
  \/ \E m \in Machines :
       \/ EnrollCheck(m)
       \/ EnrollRefused(m)
       \/ RevokeHost(m)
       \/ UnrevokeHost(m)
  \/ EnrollUpsert
  \/ Crash

Spec == Init /\ [][Next]_vars

-----------------------------------------------------------------------------
\* Types of the table, of the request in progress and of the audit sets.
TypeOK ==
  /\ hosts \subseteq Machines
  /\ token \in [Machines -> 0..MaxTokens]
  /\ revoked \subseteq hosts
  /\ minted \in 0..MaxTokens
  /\ enrolling \in Machines \cup {None}
  /\ retired \subseteq Tokens
  /\ banned \subseteq Machines
  /\ cleared \subseteq Machines

\* A token names at most one host, so scalar_one_or_none in
\* get_host_by_token_hash never meets two rows.
TokenNamesOneHost ==
  \A t \in Tokens : \A m, n \in HostOf(t) : m = n

\* Once a revoke or a re-enrollment has taken a token out of the table it
\* never opens a host again, however revokes, unrevokes, enrollments and
\* restarts follow each other.
RetiredTokensDead ==
  \A t \in retired : HostOf(t) = {}

\* While the operators' last word on a host is `revoke`, no token opens it,
\* not even one minted by an enrollment that was already past its check.
OperatorWordStands ==
  \A m \in banned : \A t \in Tokens : ~ Authenticates(t, m)

\* unrevoke_host's promise: "The token stays cleared, so the agent must
\* re-enroll" (store/repo.py:413): a host that was revoked, and has not
\* enrolled since at a time when it was not revoked, is opened by no token.
MustReenroll ==
  \A m \in cleared : \A t \in Tokens : ~ Authenticates(t, m)

=============================================================================
