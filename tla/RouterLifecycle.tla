---------------------------- MODULE RouterLifecycle ---------------------------
(***************************************************************************)
(* What a router keeps over its life: the maps in memory, the database     *)
(* (storage/postgres.ts), the state file (state.ts), the retention timer   *)
(* (prune.ts), the reconciliation of payments (payments/reconcile.ts), the *)
(* start with its setup mode (main.ts) and the administrator (admin.ts).   *)
(*                                                                         *)
(* A row is an entry of one of the maps; all that matters of its value is  *)
(* the time it is pruned by: expiresAtMs, paidAtMs or lastHeartbeatMs.     *)
(* Health, cooldowns and manifests are kept as stakes are (state file) and *)
(* as nodes are (database) and are left out.                               *)
(***************************************************************************)
EXTENDS Integers, FiniteSets

CONSTANTS
  ClientKeys,        \* the payment keys of clients' requests
  FederationKeys,    \* the payment keys of federation jobs
  Nodes,             \* nodes that register
  Stakes,            \* stake commits and slashes
  Owners,            \* those who may claim the router
  None,              \* nobody
  Lifetime,          \* how long an offer can be paid
  Grace,             \* paymentReconcileGraceMs
  RequestRetention,  \* paymentRequestRetentionMs
  ReceiptRetention,  \* paymentReceiptRetentionMs
  NodeRetention,     \* nodeRetentionMs
  MaxTime,           \* bound: the clock stops here
  MaxRecords,        \* bound: so many rows recorded
  MaxCrashes,        \* bound: so many ends of the process
  MaxFailures        \* bound: so many failed reads and writes

Keys == ClientKeys \cup FederationKeys

ASSUME NamesAssumption ==
  /\ IsFiniteSet(Keys \cup Nodes \cup Stakes)
  /\ ClientKeys \cap FederationKeys = {}
  /\ None \notin Owners

ASSUME BoundsAssumption ==
  /\ MaxTime \in Nat
  /\ MaxRecords \in Nat
  /\ MaxCrashes \in Nat
  /\ MaxFailures \in Nat

(* The defaults are 60 minutes for receipts against 10 for requests, that    *)
(* can be paid for 5.                                                       *)
ASSUME ReceiptsOutliveRequests ==
  /\ Lifetime \in Nat \ {0}
  /\ Grace \in Nat
  /\ RequestRetention \in Nat
  /\ NodeRetention \in Nat
  /\ ReceiptRetention \in Nat
  /\ ReceiptRetention >= RequestRetention + Lifetime

Rows == ({"request", "receipt"} \X Keys) \cup ({"node"} \X Nodes) \cup ({"stake"} \X Stakes)

(* The tables of the database; the rest of the service is in the file only. *)
Durable(row) == \/ row[1] = "node"
                \/ row[1] \in {"request", "receipt"} /\ row[2] \in ClientKeys

VARIABLES
  now,         \* Date.now(); it starts at 1, for 0 is a row that is not there
  withStore,   \* whether config.db is set
  mode,        \* down, setup (setupMode) or running
  configured,  \* whether config.json and the environment are complete
  memory,      \* the maps of the service
  hydrated,    \* history: whether the last start could read what was kept
  database,    \* the rows in the database with their updated_at
  saving,      \* the saves the database has not answered; live: their
               \* handler still waits and the row was not removed again
  asking,      \* the requests whose invoice is awaited
  file,        \* the state file
  writing,     \* the snapshots being written
  queued,
  owner,       \* config.adminNpub
  identity,    \* admin-identity.json
  claimedBy,   \* history: who was told to have claimed the router
  acked,       \* history: the rows whose handler answered ok
  paid,        \* history: the keys whose last offer has an answered receipt
  records,
  crashes,
  failures

store == <<withStore, database, saving>>
disk == <<file, writing, queued>>
admin == <<owner, identity, claimedBy, configured>>
bounds == <<records, crashes, failures>>
vars == <<now, mode, memory, hydrated, asking, acked, paid, store, disk, admin, bounds>>

Snapshots == [rows : [Rows -> Nat], acked : [Rows -> Nat], paid : SUBSET Keys]

(* The maps, the database and the file have rows of the kinds they may have. *)
TypeOK ==
  /\ now \in Nat \ {0}
  /\ withStore \in BOOLEAN
  /\ mode \in {"down", "setup", "running"}
  /\ configured \in BOOLEAN
  /\ memory \in [Rows -> Nat]
  /\ hydrated \in BOOLEAN
  /\ database \in [Rows -> [stamp : Nat, at : Nat]]
  /\ saving \subseteq [row : {row \in Rows : Durable(row)}, stamp : Nat, live : BOOLEAN]
  /\ asking \subseteq ClientKeys
  /\ file \in Snapshots
  /\ writing \subseteq Snapshots
  /\ queued \in BOOLEAN
  /\ {owner, identity, claimedBy} \subseteq Owners \cup {None}
  /\ acked \in [Rows -> Nat]
  /\ paid \subseteq Keys
  /\ records \in 0 .. MaxRecords
  /\ crashes \in 0 .. MaxCrashes
  /\ failures \in 0 .. MaxFailures

NoRows == [row \in Rows |-> 0]
EmptyFile == [rows |-> NoRows, acked |-> NoRows, paid |-> {}]

Init ==
  /\ now = 1
  /\ withStore \in BOOLEAN
  /\ mode = "down"
  /\ configured \in BOOLEAN
  /\ memory = NoRows
  /\ hydrated = FALSE
  /\ database = [row \in Rows |-> [stamp |-> 0, at |-> 0]]
  /\ saving = {}
  /\ asking = {}
  /\ file = EmptyFile
  /\ writing = {}
  /\ queued = FALSE
  /\ owner = None
  /\ identity = None
  /\ claimedBy = None
  /\ acked = NoRows
  /\ paid = {}
  /\ records = 0
  /\ crashes = 0
  /\ failures = 0

Fault == failures < MaxFailures /\ failures' = failures + 1

-------------------------------------------------------------------------------
(* Recording *)

(* A receipt pays its key until another offer is recorded for it.           *)
PaidAfter(row, stamp) ==
  CASE row[1] = "receipt" -> paid \cup {row[2]}
    [] row[1] = "request" /\ memory[row] # stamp -> paid \ {row[2]}
    [] OTHER -> paid

(* Mutant: the handler answers before the save has ended.                   *)
RecordUnsaved(row, stamp) ==
  /\ memory' = [memory EXCEPT ![row] = stamp]
  /\ acked' = [acked EXCEPT ![row] = stamp]
  /\ paid' = PaidAfter(row, stamp)
  /\ saving' = IF withStore /\ Durable(row)
               THEN saving \cup {[row |-> row, stamp |-> stamp, live |-> TRUE]}
               ELSE saving

(* record...: into the map first, then into the database.                   *)
Record(row, stamp) ==
  /\ memory' = [memory EXCEPT ![row] = stamp]
  /\ IF withStore /\ Durable(row)
     THEN /\ saving' = saving \cup {[row |-> row, stamp |-> stamp, live |-> TRUE]}
          /\ paid' = IF row[1] = "request" THEN PaidAfter(row, stamp) ELSE paid
          /\ UNCHANGED acked
     ELSE /\ acked' = [acked EXCEPT ![row] = stamp]
          /\ paid' = PaidAfter(row, stamp)
          /\ UNCHANGED saving

Recording(row, stamp) ==
  /\ mode = "running"
  /\ records < MaxRecords
  /\ records' = records + 1
  /\ Record(row, stamp)
  /\ UNCHANGED <<now, mode, hydrated, withStore, database, disk, admin, crashes, failures>>

(* The payment is due, so that an invoice is asked for.                     *)
Infer(k) ==
  /\ mode = "running"
  /\ k \in ClientKeys \ asking
  /\ memory[<<"receipt", k>>] = 0
  /\ asking' = asking \cup {k}
  /\ UNCHANGED <<now, mode, memory, hydrated, acked, paid, store, disk, admin, bounds>>

(* The offer, when the invoice is there: an earlier one that can still be    *)
(* paid is recorded again.                                                  *)
SendOffer(k) ==
  LET row == <<"request", k>> IN
  /\ k \in asking
  /\ asking' = asking \ {k}
  /\ Recording(row, IF memory[row] > now THEN memory[row] ELSE now + Lifetime)

(* A receipt that settles a known request; the SDK stamps it as it posts it. *)
PostReceipt(k) ==
  /\ k \in ClientKeys
  /\ memory[<<"request", k>>] # 0
  /\ Recording(<<"receipt", k>>, now)
  /\ UNCHANGED asking

RegisterNode(n) == Recording(<<"node", n>>, now) /\ UNCHANGED asking

(* Commits and slashes are never pruned: any time will do.                  *)
RecordStake(s) == Recording(<<"stake", s>>, 1) /\ UNCHANGED asking

(* A peer asks for payment of a job and this router settles it: no store.   *)
OwePayment(k) ==
  /\ k \in FederationKeys
  /\ memory[<<"request", k>>] = 0
  /\ Recording(<<"request", k>>, now + Lifetime)
  /\ UNCHANGED asking

SettlePayment(k) ==
  /\ k \in FederationKeys
  /\ memory[<<"request", k>>] # 0
  /\ Recording(<<"receipt", k>>, now)
  /\ UNCHANGED asking

(* A save reaches the database, in any order; its handler answers if it      *)
(* still lives.  An upsert moves updated_at.                                *)
SaveLands ==
  \E s \in saving :
    /\ database' = [database EXCEPT ![s.row] = [stamp |-> s.stamp, at |-> now]]
    /\ saving' = saving \ {s}
    /\ IF s.live
       THEN /\ acked' = [acked EXCEPT ![s.row] = s.stamp]
            /\ paid' = IF s.row[1] = "receipt" THEN PaidAfter(s.row, s.stamp) ELSE paid
       ELSE UNCHANGED <<acked, paid>>
    /\ UNCHANGED <<now, withStore, mode, memory, hydrated, asking, disk, admin, bounds>>

(* The handler answers 500; its row stays in memory.                        *)
SaveFails ==
  \E s \in saving :
    /\ Fault
    /\ saving' = saving \ {s}
    /\ UNCHANGED <<now, withStore, database, mode, memory, hydrated, asking, acked, paid,
                   disk, admin, records, crashes>>

-------------------------------------------------------------------------------
(* Retention and reconciliation *)

(* Mutant: one retention for requests and receipts.                         *)
RetentionOfRequests(row) == IF row[1] = "node" THEN NodeRetention ELSE RequestRetention

Retention(row) ==
  CASE row[1] = "request" -> RequestRetention
    [] row[1] = "receipt" -> ReceiptRetention
    [] OTHER -> NodeRetention

Outdated(row, t) == row[1] # "stake" /\ t < now - Retention(row)

Pruned(rows) == [row \in Rows |-> IF Outdated(row, rows[row]) THEN 0 ELSE rows[row]]

Prune ==
  /\ mode = "running"
  /\ memory' = Pruned(memory)
  /\ UNCHANGED <<now, mode, hydrated, asking, acked, paid, store, disk, admin, bounds>>

(* The keys that reconcilePayments counts as missing a receipt.             *)
Missing ==
  {k \in Keys : /\ memory[<<"request", k>>] # 0
                /\ memory[<<"request", k>>] + Grace < now
                /\ memory[<<"receipt", k>>] = 0}

-------------------------------------------------------------------------------
(* The state file *)

(* Mutant: the payments of federation jobs are left out.                    *)
SnapshotOfClients(rows, answered, paidKeys) ==
  [rows |-> [row \in Rows |-> IF row[2] \in FederationKeys THEN 0 ELSE rows[row]],
   acked |-> IF withStore THEN NoRows ELSE answered,
   paid |-> IF withStore THEN {} ELSE paidKeys]

(* With what was answered by then, that a start without a database goes by.  *)
SnapshotWith(rows, answered, paidKeys) ==
  [rows |-> rows,
   acked |-> IF withStore THEN NoRows ELSE answered,
   paid |-> IF withStore THEN {} ELSE paidKeys]

Snapshot(rows) == SnapshotWith(rows, acked, paid)

(* Mutant: a timer that does not look at inFlight.                          *)
PersistAlways ==
  /\ mode = "running"
  /\ writing' = writing \cup {Snapshot(memory)}
  /\ UNCHANGED <<now, mode, memory, hydrated, asking, acked, paid, store, file, queued, admin,
                 bounds>>

(* The timer: one write at a time, one more behind it.                      *)
Persist ==
  /\ mode = "running"
  /\ IF writing = {}
     THEN writing' = {Snapshot(memory)} /\ UNCHANGED queued
     ELSE queued' = TRUE /\ UNCHANGED writing
  /\ UNCHANGED <<now, mode, memory, hydrated, asking, acked, paid, store, file, admin, bounds>>

(* finally: the next one starts from the state as it is now.                *)
PersistNext(s) ==
  /\ writing' = (writing \ {s}) \cup (IF queued THEN {Snapshot(memory)} ELSE {})
  /\ queued' = FALSE

(* The temporary file is complete and renamed.                              *)
PersistDone ==
  \E s \in writing :
    /\ file' = s
    /\ PersistNext(s)
    /\ UNCHANGED <<now, mode, memory, hydrated, asking, acked, paid, store, admin, bounds>>

PersistFails ==
  \E s \in writing :
    /\ Fault
    /\ PersistNext(s)
    /\ UNCHANGED <<now, mode, memory, hydrated, asking, acked, paid, store, file, admin,
                   records, crashes>>

-------------------------------------------------------------------------------
(* Start, end and administration *)

(* What load deletes and what it returns.                                   *)
Kept == [row \in Rows |-> IF Outdated(row, database[row].at)
                          THEN [stamp |-> 0, at |-> 0] ELSE database[row]]

(* Incomplete configuration: nothing is read and no timer is started.       *)
StartSetup ==
  /\ mode = "down"
  /\ ~configured
  /\ mode' = "setup"
  /\ owner' = identity
  /\ memory' = NoRows
  /\ hydrated' = FALSE
  /\ UNCHANGED <<now, asking, acked, paid, store, disk, identity, claimedBy, configured, bounds>>

(* What was answered since the snapshot was taken is lost with the process.  *)
StartFromFile ==
  /\ mode = "down"
  /\ configured
  /\ ~withStore
  /\ mode' = "running"
  /\ owner' = identity
  /\ memory' = Pruned(file.rows)
  /\ acked' = file.acked
  /\ paid' = file.paid
  /\ hydrated' = TRUE
  /\ writing' = {SnapshotWith(file.rows, file.acked, file.paid)}
  /\ UNCHANGED <<now, store, asking, file, queued, identity, claimedBy, configured, bounds>>

StartFromStore ==
  /\ mode = "down"
  /\ configured
  /\ withStore
  /\ mode' = "running"
  /\ owner' = identity
  /\ database' = Kept
  /\ LET rows == [row \in Rows |-> Kept[row].stamp] IN
     /\ memory' = Pruned(rows)
     /\ writing' = {Snapshot(rows)}
  /\ hydrated' = TRUE
  /\ UNCHANGED <<now, withStore, saving, asking, acked, paid, file, queued, identity, claimedBy,
                 configured, bounds>>

(* A failure to read is only logged: the router starts with nothing, and     *)
(* then writes its state file.                                              *)
StartEmpty ==
  /\ mode = "down"
  /\ configured
  /\ Fault
  /\ mode' = "running"
  /\ owner' = identity
  /\ memory' = NoRows
  /\ acked' = IF withStore THEN acked ELSE NoRows
  /\ paid' = IF withStore THEN paid ELSE {}
  /\ hydrated' = FALSE
  /\ writing' = {SnapshotWith(NoRows, NoRows, {})}
  /\ UNCHANGED <<now, store, asking, file, queued, identity, claimedBy, configured, records,
                 crashes>>

(* Saves that were sent may still reach the database.                       *)
Crash ==
  /\ mode # "down"
  /\ crashes < MaxCrashes
  /\ crashes' = crashes + 1
  /\ mode' = "down"
  /\ saving' = {[s EXCEPT !.live = FALSE] : s \in saving}
  /\ asking' = {}
  /\ writing' = {}
  /\ queued' = FALSE
  /\ memory' = NoRows
  /\ owner' = None
  /\ UNCHANGED <<now, withStore, database, hydrated, acked, paid, file, identity, claimedBy,
                 configured, records, failures>>

(* Mutant: the claim is kept in memory first.                               *)
ClaimInMemory(p) ==
  /\ mode # "down"
  /\ owner = None
  /\ owner' = p
  /\ claimedBy' = p
  /\ UNCHANGED <<now, mode, memory, hydrated, asking, acked, paid, store, disk, identity,
                 configured, bounds>>

(* POST /admin/setup/claim, while there is no administrator.  The file is     *)
(* written and the memory assigned without anything in between but the end   *)
(* of the process, which is Crash after this step.                           *)
Claim(p) ==
  /\ mode # "down"
  /\ owner = None
  /\ identity' = p
  /\ owner' = p
  /\ claimedBy' = p
  /\ UNCHANGED <<now, mode, memory, hydrated, asking, acked, paid, store, disk, configured,
                 bounds>>

(* POST /admin/config, read by the next start.                              *)
Configure ==
  /\ mode # "down"
  /\ owner # None
  /\ ~configured
  /\ configured' = TRUE
  /\ UNCHANGED <<now, mode, memory, hydrated, asking, acked, paid, store, disk, owner, identity,
                 claimedBy, bounds>>

(* DELETE /admin/nodes: only from memory.                                   *)
RemoveNode(n) ==
  LET row == <<"node", n>> IN
  /\ mode = "running"
  /\ owner # None
  /\ memory[row] # 0
  /\ memory' = [memory EXCEPT ![row] = 0]
  /\ acked' = [acked EXCEPT ![row] = 0]
  /\ saving' = {[s EXCEPT !.live = s.live /\ s.row # row] : s \in saving}
  /\ UNCHANGED <<now, mode, hydrated, asking, paid, withStore, database, disk, admin, bounds>>

(* Retentions are minutes; the database and the invoice take seconds.       *)
Tick ==
  /\ now < MaxTime
  /\ saving = {}
  /\ asking = {}
  /\ now' = now + 1
  /\ UNCHANGED <<mode, memory, hydrated, asking, acked, paid, store, disk, admin, bounds>>

Next ==
  \/ \E k \in Keys : \/ Infer(k) \/ SendOffer(k) \/ PostReceipt(k)
                     \/ OwePayment(k) \/ SettlePayment(k)
  \/ \E n \in Nodes : RegisterNode(n) \/ RemoveNode(n)
  \/ \E s \in Stakes : RecordStake(s)
  \/ \E p \in Owners : Claim(p)
  \/ SaveLands \/ SaveFails
  \/ Prune
  \/ Persist \/ PersistDone \/ PersistFails
  \/ StartSetup \/ StartFromFile \/ StartFromStore \/ StartEmpty
  \/ Crash
  \/ Configure
  \/ Tick

Spec == Init /\ [][Next]_vars

(* The interval timer fires again and again, and a write ends.              *)
FairSpec ==
  Spec /\ WF_vars(Prune) /\ WF_vars(Persist) /\ WF_vars(PersistDone \/ PersistFails)

-------------------------------------------------------------------------------
(* Properties *)

(* After any end of the process a running router that could read what it    *)
(* kept knows every receipt and every node whose handler answered 200 and    *)
(* that retention has not removed (without a database: up to the snapshot   *)
(* it started from).                                                        *)
AnsweredRowsAreKept ==
  (mode = "running" /\ hydrated) =>
    \A row \in Rows :
      (/\ acked[row] # 0
       /\ row[1] # "request"
       /\ ~Outdated(row, acked[row])
       /\ withStore => Durable(row)) => memory[row] # 0

(* Whatever was pruned, lost and reloaded: a payment is never counted as    *)
(* missing its receipt after a receipt for its last offer was answered with *)
(* 200.                                                                     *)
PaidIsNeverMissing == mode = "running" => Missing \cap paid = {}

(* The router belongs to the one who was told to have claimed it, after a    *)
(* restart as well, so that nobody else can claim it.                       *)
ClaimedOnce == mode # "down" => owner = claimedBy

(* The state file that a router started from never goes back to an older     *)
(* snapshot: a stake or a slash that it has and the router knows stays.     *)
FileMovesForward ==
  [][\A s \in Stakes :
       LET row == <<"stake", s>> IN
       (hydrated /\ ~withStore /\ file.rows[row] # 0 /\ memory[row] # 0) =>
          file'.rows[row] # 0]_vars

(* However writes fail, the state file follows the memory of a router that   *)
(* keeps running.                                                           *)
StateIsSaved == <>[](mode = "running" => file.rows = memory)
===============================================================================
