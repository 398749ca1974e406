------------------------------ MODULE Collector ------------------------------
(***************************************************************************)
(* The fleet collector: the `scans` and `baselines` tables of              *)
(* store/repo.py and everything that reads and writes them at once -       *)
(* concurrent POST /api/ingest requests (daemon/fleet.py), each followed   *)
(* by its retention pass, a `pqcscan fleet prune` process, a fleet export  *)
(* with its temporary rollup scan (daemon/app.py), an operator saving      *)
(* baselines, and the daemon being killed and restarted.                   *)
(*                                                                         *)
(* The store is SQLite through SQLAlchemy: a SELECT is a snapshot of its   *)
(* own, a transaction starts at the first write, writers are serial.  So   *)
(* each action below is one statement or one write transaction, and what   *)
(* a handler read earlier may be stale when it writes.  A new row's id is  *)
(* the largest id in the table plus one, so the id of a deleted last row   *)
(* is used again.                                                          *)
(*                                                                         *)
(* A bundle is abstracted to what the store tells apart: its scan_uuid,    *)
(* the machine it names, the scan's status, the parity keys of its         *)
(* findings and whether load_bundle accepts the document.                  *)
(***************************************************************************)
EXTENDS Integers, FiniteSets

CONSTANTS
  Machines,     \* enrolled hosts, each named by its machine id
  None,         \* NULL
  Bundles,      \* bundles that agents post
  Keys,         \* parity keys of findings
  Reqs,         \* ingest requests in flight at once
  Cli,          \* the `pqcscan fleet prune` process
  Keep,         \* keep_scans_per_host
  CliKeep,      \* --keep of `pqcscan fleet prune`
  ParseSlots,   \* INGEST_PARALLELISM
  MaxPosts,     \* bound: ingest requests
  MaxExports,   \* bound: fleet exports
  MaxBaselines, \* bound: baselines saved
  MaxCrashes,   \* bound: times the daemon is killed
  SlowRender,   \* whether an export may run for more than an hour
  MaxTrims,     \* bound: runs of `pqcscan fleet prune`
  Faults        \* which faults occur, among "throttle", "busy" and "trim"

Statuses == {"done", "failed", "interrupted"}
Uuids == {b.uuid : b \in Bundles}
Workers == Reqs \cup {Cli}
ScanIds == 1..(MaxPosts + MaxExports)

ASSUME NamesAssumption ==
  /\ None \notin Machines
  /\ None \notin Uuids
  /\ None \notin Bundles
  /\ Cli \notin Reqs
ASSUME BundlesAssumption ==
  \A b \in Bundles :
    /\ DOMAIN b = {"uuid", "machine", "status", "keys", "form"}
    /\ b.machine \in Machines
    /\ b.status \in Statuses \cup {"running"}
    /\ b.keys \subseteq Keys
    /\ b.form \in {"ok", "big", "bad"}
ASSUME KeepAssumption ==
  /\ Keep \in Nat /\ Keep >= 2        \* click.IntRange(min=2)
  /\ CliKeep \in Nat /\ CliKeep >= 1  \* click.IntRange(min=1)
ASSUME BoundsAssumption ==
  /\ MaxPosts \in Nat /\ MaxExports \in Nat
  /\ MaxBaselines \in Nat /\ MaxCrashes \in Nat
  /\ ParseSlots \in Nat /\ MaxTrims \in Nat
  /\ Faults \subseteq {"throttle", "busy", "trim"}
  /\ SlowRender \in BOOLEAN

VARIABLES
  scans,        \* id -> row, for the ids present in the table
  baselines,    \* scan ids some baseline row points at
  \* Ingest requests and the CLI process:
  pc,           \* next statement of each worker
  who,          \* host the request authenticated as, or the host being pruned
  body,         \* bundle posted
  prev,         \* id of the scan to compare with, 0 for none
  drift,        \* fleet.drift rows to be stored with the bundle
  newest,       \* prune_host's newest_done, 0 for none
  old,          \* ids a retention pass has decided to delete
  code,         \* HTTP status of the answer, 0 while there is none
  todo,         \* hosts the CLI process has still to prune
  \* Export and baseline handlers:
  exporter,     \* [at, latest, id] of the fleet export
  basing,       \* scan id a baseline request has checked, 0 for none
  \* Counters behind the bounds, and history for the properties:
  posts, exports, crashes, trims,
  ever,         \* bundles that have been stored
  unpruned,     \* ids stored since the last complete retention pass read
  cover,        \* the part of `unpruned` a retention pass has read
  misfired      \* a deletion meant for a rollup has hit a row that took its id

table == <<scans, baselines>>
work == <<who, body, prev, drift, newest, old, code, todo>>
history == <<posts, exports, crashes, trims, ever, unpruned, cover, misfired>>
vars == <<scans, baselines, pc, work, exporter, basing, history>>

-----------------------------------------------------------------------------
(* Reads of the table.                                                       *)

NoDrift == [added |-> {}, removed |-> {}]
Findings(b) == {b.machine} \X b.keys

OfHost(m) == {i \in DOMAIN scans : scans[i].host = m}
DoneOf(m) == {i \in OfHost(m) : scans[i].status = "done"}
WithUuid(u) == {i \in DOMAIN scans : scans[i].uuid = u}
IsRollup(i) == scans[i].host = None

\* i is the largest of a set of ids, 0 when the set is empty.
IsLast(i, ids) ==
  IF ids = {} THEN i = 0 ELSE i \in ids /\ \A j \in ids : j <= i

\* Mutated: the list is sorted oldest first.
BeyondOldest(m, keep) ==
  {i \in OfHost(m) : Cardinality({j \in OfHost(m) : j < i}) >= keep}

\* Mutated: the offset is one short.
BeyondOneShort(m, keep) ==
  {i \in OfHost(m) : Cardinality({j \in OfHost(m) : j > i}) >= keep - 1}

\* Mutated: only complete scans are trimmed.
BeyondDoneOnly(m, keep) ==
  {i \in DoneOf(m) : Cardinality({j \in DoneOf(m) : j > i}) >= keep}

\* The ids of a host beyond the newest `keep`, baselined scans left aside.
Beyond(m, keep) ==
  LET plain == OfHost(m) \ baselines
  IN  {i \in plain : Cardinality({j \in plain : j > i}) >= keep}

\* Mutated: rollups of any age are swept.
AnyRollups == {i \in DOMAIN scans : IsRollup(i)}

\* Rollups that delete_stale_rollups may sweep.
StaleRollups == {i \in DOMAIN scans : IsRollup(i) /\ scans[i].aged}

\* drift_rows: the parity keys that appeared and the ones that vanished.
Drift(before, now) == [added |-> now \ before, removed |-> before \ now]

(* Writes to the table, each one transaction.                                *)

\* The id SQLite gives the next row.
NextId(i) ==
  /\ \A j \in DOMAIN scans : j < i
  /\ i = 1 \/ i - 1 \in DOMAIN scans

AddRow(i, row) ==
  scans' = [j \in DOMAIN scans \cup {i} |-> IF j = i THEN row ELSE scans[j]]

\* delete_scan: the scan, its findings and its baselines; a missing id is
\* not an error.
DeleteScan(i) ==
  /\ scans' = [j \in DOMAIN scans \ {i} |-> scans[j]]
  /\ baselines' = baselines \ {i}

-----------------------------------------------------------------------------
Init ==
  /\ scans = [i \in {} |-> None]
  /\ baselines = {}
  /\ pc = [w \in Workers |-> "idle"]
  /\ who = [w \in Workers |-> None]
  /\ body = [w \in Workers |-> None]
  /\ prev = [w \in Workers |-> 0]
  /\ drift = [w \in Workers |-> NoDrift]
  /\ newest = [w \in Workers |-> 0]
  /\ old = [w \in Workers |-> {}]
  /\ code = [w \in Workers |-> 0]
  /\ todo = {}
  /\ exporter = [at |-> "idle", latest |-> [m \in Machines |-> 0], id |-> 0]
  /\ basing = 0
  /\ posts = 0 /\ exports = 0 /\ crashes = 0 /\ trims = 0
  /\ ever = {}
  /\ unpruned = [m \in Machines |-> {}]
  /\ cover = [w \in Workers |-> {}]
  /\ misfired = FALSE

-----------------------------------------------------------------------------
(* POST /api/ingest.  Authentication is Enrollment's.                        *)

At(w, here) == pc[w] = here
Goto(w, there) == pc' = [pc EXCEPT ![w] = there]
Answer(w, c) ==
  /\ Goto(w, "answer")
  /\ code' = [code EXCEPT ![w] = c]

\* A request authenticated as host m, allowed by the rate limiter.
Arrive(r, m, b) ==
  /\ At(r, "idle")
  /\ posts < MaxPosts
  /\ posts' = posts + 1
  /\ who' = [who EXCEPT ![r] = m]
  /\ body' = [body EXCEPT ![r] = b]
  /\ Goto(r, "body")
  /\ UNCHANGED <<table, prev, drift, newest, old, code, todo, exporter, basing,
                 exports, crashes, trims, ever, unpruned, cover, misfired>>

\* The bucket of the host is empty (see TokenBucket): 429 before the body.
Throttle(r, m, b) ==
  /\ "throttle" \in Faults
  /\ At(r, "idle")
  /\ posts < MaxPosts
  /\ posts' = posts + 1
  /\ who' = [who EXCEPT ![r] = m]
  /\ body' = [body EXCEPT ![r] = b]
  /\ Answer(r, 429)
  /\ UNCHANGED <<table, prev, drift, newest, old, todo, exporter, basing,
                 exports, crashes, trims, ever, unpruned, cover, misfired>>

Parsing == {"drift", "compare", "check", "insert", "conflict"}
SlotFree == Cardinality({r \in Reqs : pc[r] \in Parsing}) < ParseSlots

\* Mutated: the bundle's machine id is not compared with the token's host.
VerdictAnyMachine(m, b) ==
  CASE b.form = "big" -> 413
    [] b.form = "bad" -> 400
    [] b.form = "ok" /\ b.status \notin Statuses -> 400
    [] OTHER -> 200

\* Mutated: a scan that is still running is let through.
VerdictAnyStatus(m, b) ==
  CASE b.form = "big" -> 413
    [] b.form = "bad" -> 400
    [] b.form = "ok" /\ b.machine # m -> 403
    [] OTHER -> 200

\* load_bundle, then the machine id and status checks.
Verdict(m, b) ==
  CASE b.form = "big"             -> 413
    [] b.form = "bad"             -> 400
    [] b.form = "ok" /\ b.machine # m -> 403
    [] b.form = "ok" /\ b.machine = m /\ b.status \notin Statuses -> 400
    [] OTHER                      -> 200

Parse(r) ==
  /\ At(r, "body")
  /\ SlotFree
  /\ IF Verdict(who[r], body[r]) = 200
     THEN Goto(r, "drift") /\ UNCHANGED code
     ELSE Answer(r, Verdict(who[r], body[r]))
  /\ UNCHANGED <<table, who, body, prev, drift, newest, old, todo,
                 exporter, basing, history>>

\* Mutated: a partial scan is compared too.
DriftBaseAnyStatus(m, b) == IF WithUuid(b.uuid) # {} THEN {} ELSE DoneOf(m)

\* _bundle_drift: pick the host's previous done scan.  A partial scan, or a
\* scan_uuid already stored, is compared with nothing.
DriftBase(m, b) ==
  IF b.status # "done" \/ WithUuid(b.uuid) # {} THEN {} ELSE DoneOf(m)

PickPrevious(r) ==
  /\ At(r, "drift")
  /\ \E i \in ScanIds \cup {0} :
       /\ IsLast(i, DriftBase(who[r], body[r]))
       /\ prev' = [prev EXCEPT ![r] = i]
       /\ Goto(r, IF i = 0 THEN "check" ELSE "compare")
  /\ UNCHANGED <<table, who, body, drift, newest, old, code, todo,
                 exporter, basing, history>>

\* ... and read its findings: none if it has been deleted since.
Compare(r) ==
  /\ At(r, "compare")
  /\ LET before == IF prev[r] \in DOMAIN scans THEN scans[prev[r]].findings
                                               ELSE {}
     IN  drift' = [drift EXCEPT ![r] = Drift(before, Findings(body[r]))]
  /\ prev' = [prev EXCEPT ![r] = 0]
  /\ Goto(r, "check")
  /\ UNCHANGED <<table, who, body, newest, old, code, todo,
                 exporter, basing, history>>

\* ingest_bundle's look for the scan_uuid, before its transaction begins.
CheckUuid(r) ==
  /\ At(r, "check")
  /\ LET known == WithUuid(body[r].uuid)
     IN  \/ known = {} /\ Goto(r, "insert") /\ UNCHANGED code
         \/ \E i \in known : Answer(r, IF scans[i].host = who[r] THEN 200 ELSE 400)
  /\ UNCHANGED <<table, who, body, prev, drift, newest, old, todo,
                 exporter, basing, history>>

\* Mutated: no unique index.
IndexAllowsAll(u) == TRUE

\* The unique index on scan_uuid.
IndexAllows(u) == WithUuid(u) = {}

RowOf(b, m, d) ==
  [host |-> m, uuid |-> b.uuid, status |-> b.status,
   findings |-> Findings(b), drift |-> d, aged |-> FALSE]

\* The write transaction: the row, its findings and its drift rows.
Insert(r) ==
  /\ At(r, "insert")
  /\ IndexAllows(body[r].uuid)
  /\ \E i \in ScanIds :
       /\ NextId(i)
       /\ AddRow(i, RowOf(body[r], who[r], drift[r]))
       /\ unpruned' = [unpruned EXCEPT ![who[r]] = @ \cup {i}]
  /\ ever' = ever \cup {body[r]}
  /\ Goto(r, "newest")
  /\ UNCHANGED <<baselines, work, exporter, basing,
                 posts, exports, crashes, trims, cover, misfired>>

\* IntegrityError: another request stored the scan_uuid after CheckUuid.
InsertConflict(r) ==
  /\ At(r, "insert")
  /\ ~ IndexAllows(body[r].uuid)
  /\ Goto(r, "conflict")
  /\ UNCHANGED <<table, work, exporter, basing, history>>

\* The handler's second look: a duplicate, unless the row is gone again.
ResolveConflict(r) ==
  /\ At(r, "conflict")
  /\ Answer(r, IF WithUuid(body[r].uuid) # {} THEN 200 ELSE 400)
  /\ UNCHANGED <<table, who, body, prev, drift, newest, old, todo,
                 exporter, basing, history>>

\* Mutated: the answer does not tell the agent to retry.
StoreBusySaysOk(r) ==
  /\ "busy" \in Faults
  /\ At(r, "insert")
  /\ Answer(r, 200)
  /\ UNCHANGED <<table, who, body, prev, drift, newest, old, todo,
                 exporter, basing, history>>

\* The write lock is not had within the busy timeout.
StoreBusy(r) ==
  /\ "busy" \in Faults
  /\ At(r, "insert")
  /\ Answer(r, 503)
  /\ UNCHANGED <<table, who, body, prev, drift, newest, old, todo,
                 exporter, basing, history>>

\* The answer has left (or its connection is gone).
Respond(r) ==
  /\ At(r, "answer")
  /\ Goto(r, "idle")
  /\ who' = [who EXCEPT ![r] = None]
  /\ body' = [body EXCEPT ![r] = None]
  /\ drift' = [drift EXCEPT ![r] = NoDrift]
  /\ code' = [code EXCEPT ![r] = 0]
  /\ UNCHANGED <<table, prev, newest, old, todo, exporter, basing, history>>

-----------------------------------------------------------------------------
(* Retention: prune_host and delete_stale_rollups, by a request after its    *)
(* insert or by the CLI process.                                             *)

KeepOf(w) == IF w = Cli THEN CliKeep ELSE Keep

ReadNewestDone(w) ==
  /\ At(w, "newest")
  /\ \E i \in ScanIds \cup {0} :
       /\ IsLast(i, DoneOf(who[w]))
       /\ newest' = [newest EXCEPT ![w] = i]
  /\ Goto(w, "old")
  /\ UNCHANGED <<table, who, body, prev, drift, old, code, todo,
                 exporter, basing, history>>

ReadOld(w) ==
  /\ At(w, "old")
  /\ old' = [old EXCEPT ![w] = Beyond(who[w], KeepOf(w)) \ {newest[w]}]
  /\ cover' = [cover EXCEPT ![w] = unpruned[who[w]]]
  /\ newest' = [newest EXCEPT ![w] = 0]
  /\ Goto(w, "delete")
  /\ UNCHANGED <<table, who, body, prev, drift, code, todo, exporter, basing,
                 posts, exports, crashes, trims, ever, unpruned, misfired>>

\* One delete_scan of the list, newest first.
DeleteOld(w) ==
  /\ At(w, "delete")
  /\ \E i \in old[w] :
       /\ IsLast(i, old[w])
       /\ DeleteScan(i)
       /\ old' = [old EXCEPT ![w] = @ \ {i}]
  /\ UNCHANGED <<pc, who, body, prev, drift, newest, code, todo,
                 exporter, basing, history>>

PruneDone(w) ==
  /\ At(w, "delete")
  /\ old[w] = {}
  /\ unpruned' = [unpruned EXCEPT ![who[w]] = @ \ cover[w]]
  /\ cover' = [cover EXCEPT ![w] = {}]
  /\ Goto(w, IF w = Cli THEN "hosts" ELSE "sweep")
  /\ UNCHANGED <<table, work, exporter, basing,
                 posts, exports, crashes, trims, ever, misfired>>

ReadStale(w) ==
  /\ At(w, "sweep")
  /\ old' = [old EXCEPT ![w] = StaleRollups]
  /\ Goto(w, "unroll")
  /\ UNCHANGED <<table, who, body, prev, drift, newest, code, todo,
                 exporter, basing, history>>

\* delete_scan by id, whatever row has the id by now.
DeleteRollup(w) ==
  /\ At(w, "unroll")
  /\ \E i \in old[w] :
       /\ DeleteScan(i)
       /\ old' = [old EXCEPT ![w] = @ \ {i}]
       /\ misfired' = (misfired \/ i \in DOMAIN scans \ StaleRollups)
  /\ UNCHANGED <<pc, who, body, prev, drift, newest, code, todo, exporter,
                 basing, posts, exports, crashes, trims, ever, unpruned, cover>>

SweepDone(w) ==
  /\ At(w, "unroll")
  /\ old[w] = {}
  /\ IF w = Cli THEN /\ Goto(w, "hosts")
                     /\ todo' = Machines
                     /\ UNCHANGED code
                ELSE Answer(w, 200) /\ UNCHANGED todo
  /\ UNCHANGED <<table, who, body, prev, drift, newest, old,
                 exporter, basing, history>>

Retaining == {"newest", "old", "delete", "sweep", "unroll"}

\* A failed trim: the request still answers 200, the CLI process dies.
TrimFails(w) ==
  /\ "trim" \in Faults
  /\ pc[w] \in Retaining
  /\ IF w = Cli THEN Goto(w, "idle") /\ UNCHANGED code
                ELSE Answer(w, 200)
  /\ newest' = [newest EXCEPT ![w] = 0]
  /\ old' = [old EXCEPT ![w] = {}]
  /\ cover' = [cover EXCEPT ![w] = {}]
  /\ who' = [who EXCEPT ![w] = IF w = Cli THEN None ELSE @]
  /\ todo' = IF w = Cli THEN {} ELSE todo
  /\ UNCHANGED <<table, body, prev, drift, exporter, basing,
                 posts, exports, crashes, trims, ever, unpruned, misfired>>

\* prune_scans of the CLI: sweep the rollups, then each host in turn.
CliPrune ==
  /\ At(Cli, "idle")
  /\ trims < MaxTrims
  /\ trims' = trims + 1
  /\ Goto(Cli, "sweep")
  /\ UNCHANGED <<table, work, exporter, basing,
                 posts, exports, crashes, ever, unpruned, cover, misfired>>

CliNextHost ==
  /\ At(Cli, "hosts")
  /\ \E m \in todo :
       /\ todo' = todo \ {m}
       /\ who' = [who EXCEPT ![Cli] = m]
  /\ Goto(Cli, "newest")
  /\ UNCHANGED <<table, body, prev, drift, newest, old, code,
                 exporter, basing, history>>

CliDone ==
  /\ At(Cli, "hosts")
  /\ todo = {}
  /\ Goto(Cli, "idle")
  /\ who' = [who EXCEPT ![Cli] = None]
  /\ UNCHANGED <<table, body, prev, drift, newest, old, code, todo,
                 exporter, basing, history>>

-----------------------------------------------------------------------------
(* GET /api/scans/fleet/export/<fmt>: summary, rollup, render, discard.      *)

\* Mutated: the latest scan of a host, complete or not.
CandidatesAnyStatus(m) == OfHost(m)

\* fleet_summary shows each host's latest done scan.
Candidates(m) == DoneOf(m)

ExportSummary ==
  /\ exporter.at = "idle"
  /\ exports < MaxExports
  /\ \E m \in Machines : Candidates(m) # {}
  /\ \E f \in [Machines -> ScanIds \cup {0}] :
       /\ \A m \in Machines : IsLast(f[m], Candidates(m))
       /\ exporter' = [at |-> "copy", latest |-> f, id |-> 0]
  /\ exports' = exports + 1
  /\ UNCHANGED <<table, pc, work, basing, posts, crashes, trims, ever, unpruned, cover, misfired>>

\* materialize_fleet_rollup's transaction: copy what is left of those scans.
ExportCopy ==
  /\ exporter.at = "copy"
  /\ LET sources == {exporter.latest[m] : m \in Machines} \cap DOMAIN scans
         rollup  == [host |-> None, uuid |-> None, status |-> "done",
                     findings |-> UNION {scans[i].findings : i \in sources},
                     drift |-> NoDrift, aged |-> FALSE]
     IN  \E i \in ScanIds :
           /\ NextId(i)
           /\ AddRow(i, rollup)
           /\ exporter' = [at |-> "render", id |-> i,
                           latest |-> [m \in Machines |-> 0]]
  /\ UNCHANGED <<baselines, pc, work, basing, history>>

\* The renderer has read the rollup, or failed: either way `finally` follows.
ExportRender ==
  /\ exporter.at = "render"
  /\ exporter' = [exporter EXCEPT !.at = "discard"]
  /\ UNCHANGED <<table, pc, work, basing, history>>

ExportDiscard ==
  /\ exporter.at = "discard"
  /\ DeleteScan(exporter.id)
  /\ misfired' = (misfired \/ (exporter.id \in DOMAIN scans /\ ~ IsRollup(exporter.id)))
  /\ exporter' = [exporter EXCEPT !.at = "idle", !.id = 0]
  /\ UNCHANGED <<pc, work, basing, posts, exports, crashes, trims, ever, unpruned, cover>>

\* An hour goes by: every rollup in the table becomes stale.
HourPasses ==
  /\ SlowRender \/ exporter.at \notin {"render", "discard"}
  /\ \E i \in DOMAIN scans : IsRollup(i) /\ ~ scans[i].aged
  /\ scans' = [i \in DOMAIN scans |-> [scans[i] EXCEPT !.aged = IsRollup(i)]]
  /\ UNCHANGED <<baselines, pc, work, exporter, basing, history>>

-----------------------------------------------------------------------------
(* create_baseline, and the daemon's own death.                              *)

BaselineCheck(i) ==
  /\ basing = 0
  /\ Cardinality(baselines) < MaxBaselines
  /\ i \in DOMAIN scans
  /\ basing' = i
  /\ UNCHANGED <<table, pc, work, exporter, history>>

BaselineInsert ==
  /\ basing # 0
  /\ baselines' = baselines \cup {basing}
  /\ basing' = 0
  /\ UNCHANGED <<scans, pc, work, exporter, history>>

\* The daemon is killed and started again: requests, export and baseline
\* handler are gone, committed rows stay, and startup sweeps stale rollups.
CrashRestart ==
  /\ crashes < MaxCrashes
  /\ crashes' = crashes + 1
  /\ pc' = [w \in Workers |-> IF w = Cli THEN pc[w] ELSE "idle"]
  /\ who' = [w \in Workers |-> IF w = Cli THEN who[w] ELSE None]
  /\ body' = [w \in Workers |-> None]
  /\ prev' = [w \in Workers |-> 0]
  /\ drift' = [w \in Workers |-> NoDrift]
  /\ newest' = [w \in Workers |-> IF w = Cli THEN newest[w] ELSE 0]
  /\ old' = [w \in Workers |-> IF w = Cli THEN old[w] ELSE {}]
  /\ cover' = [w \in Workers |-> IF w = Cli THEN cover[w] ELSE {}]
  /\ code' = [w \in Workers |-> 0]
  /\ exporter' = [at |-> "idle", latest |-> [m \in Machines |-> 0], id |-> 0]
  /\ basing' = 0
  /\ scans' = [i \in DOMAIN scans \ StaleRollups |-> scans[i]]
  /\ baselines' = baselines \ StaleRollups
  /\ UNCHANGED <<todo, posts, exports, trims, ever, unpruned, misfired>>

-----------------------------------------------------------------------------
Handle(r) ==
  \/ Parse(r) \/ PickPrevious(r) \/ Compare(r) \/ CheckUuid(r)
  \/ Insert(r) \/ InsertConflict(r) \/ ResolveConflict(r) \/ StoreBusy(r)
  \/ Respond(r)

Retain(w) ==
  \/ ReadNewestDone(w) \/ ReadOld(w) \/ DeleteOld(w) \/ PruneDone(w)
  \/ ReadStale(w) \/ DeleteRollup(w) \/ SweepDone(w) \/ TrimFails(w)

Export == ExportSummary \/ ExportCopy \/ ExportRender \/ ExportDiscard

Operate ==
  \/ CliPrune \/ CliNextHost \/ CliDone
  \/ \E i \in ScanIds : BaselineCheck(i)
  \/ BaselineInsert

Next ==
  \/ \E r \in Reqs, m \in Machines, b \in Bundles : Arrive(r, m, b) \/ Throttle(r, m, b)
  \/ \E r \in Reqs : Handle(r)
  \/ \E w \in Workers : Retain(w)
  \/ Export
  \/ Operate
  \/ HourPasses
  \/ CrashRestart

Spec == Init /\ [][Next]_vars

-----------------------------------------------------------------------------
Deltas == [added : SUBSET (Machines \X Keys), removed : SUBSET (Machines \X Keys)]

Rows ==
  [host : Machines \cup {None}, uuid : Uuids \cup {None}, status : Statuses,
   findings : SUBSET (Machines \X Keys),
   drift : Deltas, aged : BOOLEAN]

Places == {"idle", "body", "hosts", "answer"} \cup Parsing \cup Retaining

TableType ==
  /\ DOMAIN scans \subseteq ScanIds
  /\ \A i \in DOMAIN scans : scans[i] \in Rows
  /\ baselines \subseteq ScanIds

WorkerType ==
  /\ pc \in [Workers -> Places]
  /\ who \in [Workers -> Machines \cup {None}]
  /\ body \in [Workers -> Bundles \cup {None}]
  /\ prev \in [Workers -> ScanIds \cup {0}]
  /\ drift \in [Workers -> Deltas]
  /\ newest \in [Workers -> ScanIds \cup {0}]
  /\ old \in [Workers -> SUBSET ScanIds]
  /\ code \in [Workers -> {0, 200, 400, 403, 413, 429, 503}]
  /\ todo \subseteq Machines

HandlerType ==
  /\ exporter \in [at : {"idle", "copy", "render", "discard"},
                   latest : [Machines -> ScanIds \cup {0}], id : ScanIds \cup {0}]
  /\ basing \in ScanIds \cup {0}

HistoryType ==
  /\ posts \in 0..MaxPosts /\ exports \in 0..MaxExports
  /\ crashes \in 0..MaxCrashes /\ trims \in 0..MaxTrims
  /\ ever \subseteq Bundles
  /\ unpruned \in [Machines -> SUBSET ScanIds]
  /\ cover \in [Workers -> SUBSET ScanIds]
  /\ misfired \in BOOLEAN

\* Types of the table, of every handler's local state and of the history.
TypeOK == TableType /\ WorkerType /\ HandlerType /\ HistoryType

\* However copies of a bundle race past the duplicate check, the table never
\* holds two scans with one scan_uuid.
UuidUnique ==
  \A i, j \in DOMAIN scans :
    scans[i].uuid = scans[j].uuid /\ scans[i].uuid # None => i = j

\* A host's history holds what that host found and nothing else, in its
\* findings and in its drift rows: a bundle posted with another machine's
\* token (a cloned image) leaves no trace, and the previous scan that drift is
\* taken from is the host's own whatever was deleted and stored since it was
\* picked.
Attribution ==
  \A i \in DOMAIN scans : scans[i].host # None =>
    /\ \A f \in scans[i].findings : f[1] = scans[i].host
    /\ misfired \/ \A f \in scans[i].drift.added \cup scans[i].drift.removed :
                     f[1] = scans[i].host

\* The drift rows of a scan are the difference from one complete scan the same
\* host reported earlier (only additions if that scan was deleted while being
\* read); a partial scan has none and is never compared with.
DriftSound ==
  misfired \/ \A i \in DOMAIN scans :
    LET d == scans[i].drift  now == scans[i].findings
    IN  d # NoDrift =>
          /\ scans[i].status = "done"
          /\ \/ d = Drift({}, now)
             \/ \E b \in ever : /\ b.machine = scans[i].host
                                /\ b.status = "done"
                                /\ b.uuid # scans[i].uuid
                                /\ d = Drift(Findings(b), now)

KeepLeast == IF CliKeep < Keep THEN CliKeep ELSE Keep
KeepMost == IF CliKeep < Keep THEN Keep ELSE CliKeep

\* Concurrent retention passes never add up to deleting more than one of them
\* would: each scan about to be deleted still has `keep` newer ones.
RetentionFloor ==
  misfired \/ \A w \in Workers : At(w, "delete") =>
    \A i \in old[w] : Cardinality({j \in OfHost(who[w]) : j > i}) >= KeepLeast

\* The table does not grow without bound: a host has at most `keep` scans, its
\* newest done one and those stored since the last complete retention pass
\* read the table, baselines left aside.
RetentionBound ==
  misfired \/ \A m \in Machines :
    Cardinality(OfHost(m) \ baselines) <= KeepMost + 1 + Cardinality(unpruned[m])

\* A rollup shows, for each host, the findings of one complete scan of it,
\* never a mixture and never a partial scan.
RollupFaithful ==
  misfired \/ \A i \in DOMAIN scans : IsRollup(i) =>
    \A m \in Machines :
      LET part == {f \in scans[i].findings : f[1] = m}
      IN  part = {} \/ \E b \in ever : /\ b.machine = m /\ b.status = "done"
                                       /\ part = Findings(b)

\* Nobody deletes the rollup an export is still rendering, unless the render
\* takes more than an hour.
RollupOutlivesRender ==
  ~ SlowRender /\ ~ misfired /\ exporter.at = "render" =>
    exporter.id \in DOMAIN scans /\ IsRollup(exporter.id)

\* prune_host: "Baselined scans are never deleted" (store/repo.py:566).
BaselinedKept ==
  [][\A i \in baselines \cap DOMAIN scans :
       ~ IsRollup(i) => i \in DOMAIN scans']_vars

=============================================================================
