------------------------- MODULE RouterLifecycleProofs ------------------------
(***************************************************************************)
(* Proofs about what a router keeps, with and without a database, for any  *)
(* payments, nodes and stakes, any number of ends of the process and of    *)
(* failed writes, and all retentions that meet the assumptions.            *)
(***************************************************************************)
EXTENDS RouterLifecycle, TLAPS

Req(k) == <<"request", k>>
Rcpt(k) == <<"receipt", k>>

(* The administrator is in the file, and in memory while the router runs. *)
Claims ==
  /\ identity = claimedBy
  /\ mode # "down" => owner = identity

(* Saves that wait are no older than the clock, which they hold up; what a live *)
(* handler saves is in memory.                                               *)
SavesAreRecent ==
  \A s \in saving :
    /\ withStore
    /\ s.stamp # 0
    /\ s.row[1] = "request" => s.stamp <= now + Lifetime
    /\ s.row[1] # "request" => s.stamp = now
    /\ s.live => mode = "running" /\ (s.row[1] # "request" => memory[s.row] = now)

(* No offer can be paid for longer than one that is sent now. *)
Dated(rows) == \A k \in Keys : rows[Req(k)] <= now + Lifetime

(* Rows that have the receipt of every offer that is paid, or not the offer. *)
Covers(rows, paidKeys) ==
  \A k \in paidKeys :
    rows[Req(k)] # 0 => rows[Rcpt(k)] # 0 /\ rows[Req(k)] <= rows[Rcpt(k)] + Lifetime

(* A row of rows that was answered for is there until retention takes it. *)
Knows(rows, answered, row) ==
  row[1] # "request" /\ answered[row] # 0 /\ ~Outdated(row, answered[row]) =>
    rows[row] >= answered[row]

MemoryIsSound ==
  /\ Dated(memory)
  /\ Covers(memory, paid)
  /\ \A row \in Rows : row[1] # "request" =>
       acked[row] <= now /\ (row[1] = "stake" => acked[row] <= 1)
  /\ (mode = "running" /\ (hydrated \/ ~withStore)) =>
       \A row \in Rows : (withStore => Durable(row)) => Knows(memory, acked, row)

(* What a start without a database would find. *)
IsSound(s) ==
  /\ Dated(s.rows)
  /\ Covers(s.rows, s.paid)
  /\ \A row \in Rows :
       /\ row[1] # "request" =>
            s.acked[row] <= now /\ (row[1] = "stake" => s.acked[row] <= 1)
       /\ Knows(s.rows, s.acked, row)

FileIsSound == ~withStore => IsSound(file) /\ \A s \in writing : IsSound(s)

(* The time of an offer of k in memory, in the database or on its way there. *)
OfferTimes(k) ==
  {memory[Req(k)], database[Req(k)].stamp} \cup {s.stamp : s \in {s \in saving : s.row = Req(k)}}

(* What a start with the database would find: the receipt of every offer that *)
(* is paid and not outdated, and the other rows that were answered for.      *)
StoreIsSound ==
  withStore =>
    /\ \A row \in Rows :
         /\ ~Durable(row) => database[row].stamp = 0
         /\ row[1] # "request" => database[row].stamp <= database[row].at
         /\ Durable(row) /\ row[1] # "request" /\ acked[row] # 0 /\ ~Outdated(row, acked[row]) =>
              database[row].stamp >= acked[row]
    /\ \A k \in Keys : database[Req(k)].stamp <= now + Lifetime
    /\ \A k \in paid \cap ClientKeys : \A q \in OfferTimes(k) :
         \/ q = 0
         \/ q < now - RequestRetention
         \/ /\ database[Rcpt(k)].stamp # 0
            /\ q <= database[Rcpt(k)].stamp + Lifetime

(* One snapshot is written at a time, and what a file or a snapshot has of the *)
(* stakes, memory has as well.                                               *)
StakesStay ==
  /\ \A s, t \in writing : s = t
  /\ mode # "running" => writing = {}
  /\ (mode = "running" /\ hydrated /\ ~withStore) =>
       \A i \in Stakes :
         LET row == <<"stake", i>> IN
         /\ file.rows[row] # 0 => memory[row] # 0 /\ \A s \in writing : s.rows[row] # 0
         /\ \A s \in writing : s.rows[row] # 0 => memory[row] # 0

LifecycleInv ==
  /\ TypeOK
  /\ Claims
  /\ SavesAreRecent
  /\ MemoryIsSound
  /\ FileIsSound
  /\ StoreIsSound
  /\ StakesStay

-------------------------------------------------------------------------------
(* Rows and retention *)

LEMMA RowKinds ==
  /\ \A k \in Keys : /\ Req(k) \in Rows /\ Req(k)[1] = "request" /\ Req(k)[2] = k
                     /\ Rcpt(k) \in Rows /\ Rcpt(k)[1] = "receipt" /\ Rcpt(k)[2] = k
  /\ \A n \in Nodes : <<"node", n>> \in Rows
  /\ \A s \in Stakes : <<"stake", s>> \in Rows
  /\ \A row \in Rows :
       /\ row[1] \in {"request", "receipt", "node", "stake"}
       /\ row[1] = "request" => row[2] \in Keys /\ row = Req(row[2])
       /\ row[1] = "receipt" => row[2] \in Keys /\ row = Rcpt(row[2])
  BY DEF Rows, Req, Rcpt

LEMMA KeysDiffer ==
  \A k, j \in Keys : /\ Req(k) = Req(j) <=> k = j
                     /\ Rcpt(k) = Rcpt(j) <=> k = j
                     /\ Req(k) # Rcpt(j)
  BY DEF Req, Rcpt

LEMMA DurableKeys ==
  /\ \A k \in Keys : Durable(Req(k)) <=> k \in ClientKeys
  /\ \A k \in Keys : Durable(Rcpt(k)) <=> k \in ClientKeys
  /\ \A row \in Rows : Durable(row) => row[1] # "stake"
  BY RowKinds DEF Durable

LEMMA RetentionIsNat == \A row : Retention(row) \in Nat
  BY ReceiptsOutliveRequests DEF Retention

LEMMA RetentionOfKeys ==
  \A k \in Keys : /\ Retention(Req(k)) = RequestRetention
                  /\ Retention(Rcpt(k)) = ReceiptRetention
<1> TAKE k \in Keys
<1>1. Req(k)[1] = "request" /\ Rcpt(k)[1] = "receipt"
  BY RowKinds
<1> QED
  BY <1>1 DEF Retention

(* What is younger is not removed before what is older. *)
LEMMA YoungerStays ==
  ASSUME now \in Nat, NEW row, NEW t \in Nat, NEW u \in Nat, t <= u, ~Outdated(row, t)
  PROVE  ~Outdated(row, u)
  BY RetentionIsNat DEF Outdated

LEMMA NowStays ==
  ASSUME now \in Nat, NEW row
  PROVE  ~Outdated(row, now)
  BY RetentionIsNat DEF Outdated

(* A receipt stays for as long as the offer that it pays. *)
LEMMA ReceiptOutlives ==
  ASSUME now \in Nat, NEW k \in Keys, NEW q \in Nat, NEW r \in Nat,
         q <= r + Lifetime, q >= now - RequestRetention
  PROVE  ~Outdated(Rcpt(k), r)
<1>1. r >= now - ReceiptRetention
  BY ReceiptsOutliveRequests
<1> QED
  BY <1>1, RetentionOfKeys, ReceiptsOutliveRequests DEF Outdated

LEMMA RequestOutdated ==
  ASSUME now \in Nat, NEW k \in Keys, NEW q \in Nat
  PROVE  Outdated(Req(k), q) <=> q < now - RequestRetention
  BY RowKinds, RetentionOfKeys DEF Outdated

-------------------------------------------------------------------------------
(* Pruning *)

LEMMA PrunedType ==
  ASSUME NEW rows \in [Rows -> Nat]
  PROVE  /\ Pruned(rows) \in [Rows -> Nat]
         /\ \A row \in Rows : Pruned(rows)[row] = IF Outdated(row, rows[row]) THEN 0 ELSE rows[row]
  BY DEF Pruned

LEMMA PrunedIsDated ==
  ASSUME now \in Nat, NEW rows \in [Rows -> Nat], Dated(rows)
  PROVE  Dated(Pruned(rows))
  BY PrunedType, RowKinds, ReceiptsOutliveRequests DEF Dated

LEMMA PrunedCovers ==
  ASSUME now \in Nat, NEW rows \in [Rows -> Nat], NEW paidKeys \in SUBSET Keys,
         Covers(rows, paidKeys)
  PROVE  Covers(Pruned(rows), paidKeys)
<1> SUFFICES ASSUME NEW k \in paidKeys, Pruned(rows)[Req(k)] # 0
             PROVE  /\ Pruned(rows)[Rcpt(k)] # 0
                    /\ Pruned(rows)[Req(k)] <= Pruned(rows)[Rcpt(k)] + Lifetime
  BY DEF Covers
<1>1. k \in Keys /\ Req(k) \in Rows /\ Rcpt(k) \in Rows
  BY RowKinds
<1>2. rows[Req(k)] \in Nat /\ rows[Rcpt(k)] \in Nat
  BY <1>1
<1>3. Pruned(rows)[Req(k)] = rows[Req(k)] /\ ~Outdated(Req(k), rows[Req(k)])
  BY <1>1, PrunedType
<1>4. rows[Rcpt(k)] # 0 /\ rows[Req(k)] <= rows[Rcpt(k)] + Lifetime
  BY <1>3 DEF Covers
<1>5. rows[Req(k)] >= now - RequestRetention
  BY <1>1, <1>2, <1>3, RequestOutdated, ReceiptsOutliveRequests
<1>6. ~Outdated(Rcpt(k), rows[Rcpt(k)])
  BY <1>1, <1>2, <1>4, <1>5, ReceiptOutlives
<1>7. Pruned(rows)[Rcpt(k)] = rows[Rcpt(k)]
  BY <1>1, <1>6, PrunedType
<1> QED
  BY <1>3, <1>4, <1>7

LEMMA PrunedKnows ==
  ASSUME now \in Nat, NEW rows \in [Rows -> Nat], NEW answered \in [Rows -> Nat],
         NEW row \in Rows, Knows(rows, answered, row)
  PROVE  Knows(Pruned(rows), answered, row)
<1> SUFFICES ASSUME row[1] # "request", answered[row] # 0, ~Outdated(row, answered[row])
             PROVE  Pruned(rows)[row] >= answered[row]
  BY DEF Knows
<1>1. rows[row] >= answered[row] /\ rows[row] \in Nat /\ answered[row] \in Nat
  BY DEF Knows
<1>2. ~Outdated(row, rows[row])
  BY <1>1, YoungerStays
<1> QED
  BY <1>1, <1>2, PrunedType

-------------------------------------------------------------------------------
(* Time *)

LEMMA DatedLater ==
  ASSUME now \in Nat, now' = now + 1, NEW rows \in [Rows -> Nat], Dated(rows)
  PROVE  \A k \in Keys : rows[Req(k)] <= now' + Lifetime
  BY RowKinds, ReceiptsOutliveRequests DEF Dated

LEMMA OutdatedLater ==
  ASSUME now \in Nat, now' = now + 1, NEW row, NEW t \in Nat, Outdated(row, t)
  PROVE  row[1] # "stake" /\ t < now' - Retention(row)
  BY RetentionIsNat DEF Outdated


-------------------------------------------------------------------------------
(* The steps *)

(* What may be recorded, and when. *)
MayRecord(row, stamp) ==
  /\ row \in Rows
  /\ stamp \in Nat \ {0}
  /\ row[1] = "request" => stamp <= now + Lifetime
  /\ row[1] \in {"receipt", "node"} => stamp = now
  /\ row[1] = "stake" => stamp = 1

Recorded ==
  /\ \E row \in Rows, stamp \in Nat : MayRecord(row, stamp) /\ Recording(row, stamp)
  /\ asking' \subseteq asking

LEMMA HandlersRecord ==
  ASSUME TypeOK, Dated(memory),
         \/ \E k \in Keys : SendOffer(k) \/ PostReceipt(k) \/ OwePayment(k) \/ SettlePayment(k)
         \/ \E n \in Nodes : RegisterNode(n)
         \/ \E s \in Stakes : RecordStake(s)
  PROVE  Recorded
<1>1. now \in Nat \ {0} /\ Lifetime \in Nat \ {0} /\ memory \in [Rows -> Nat]
  BY ReceiptsOutliveRequests DEF TypeOK
<1>2. ASSUME NEW row \in Rows, NEW stamp \in Nat, Recording(row, stamp), MayRecord(row, stamp),
             asking' \subseteq asking
      PROVE  Recorded
  BY <1>2 DEF Recorded
<1>3. ASSUME NEW k \in Keys, SendOffer(k)
      PROVE  Recorded
  <2> DEFINE stamp == IF memory[Req(k)] > now THEN memory[Req(k)] ELSE now + Lifetime
  <2>1. Recording(Req(k), stamp) /\ asking' \subseteq asking
    BY <1>3 DEF SendOffer, Req
  <2>2. stamp \in Nat \ {0} /\ stamp <= now + Lifetime
    BY <1>1, RowKinds DEF Dated
  <2>3. MayRecord(Req(k), stamp)
    BY <2>2, RowKinds DEF MayRecord
  <2> HIDE DEF stamp
  <2> QED
    BY <2>1, <2>2, <2>3, <1>2, RowKinds
<1>4. ASSUME NEW k \in Keys, PostReceipt(k) \/ SettlePayment(k)
      PROVE  Recorded
  <2>1. Recording(Rcpt(k), now) /\ asking' \subseteq asking
    BY <1>4 DEF PostReceipt, SettlePayment, Rcpt
  <2>2. MayRecord(Rcpt(k), now)
    BY <1>1, RowKinds DEF MayRecord
  <2> QED
    BY <2>1, <2>2, <1>1, <1>2, RowKinds
<1>5. ASSUME NEW k \in Keys, OwePayment(k)
      PROVE  Recorded
  <2>1. Recording(Req(k), now + Lifetime) /\ asking' \subseteq asking
    BY <1>5 DEF OwePayment, Req
  <2>2. MayRecord(Req(k), now + Lifetime) /\ now + Lifetime \in Nat
    BY <1>1, RowKinds DEF MayRecord
  <2> QED
    BY <2>1, <2>2, <1>2, RowKinds
<1>6. ASSUME NEW n \in Nodes, RegisterNode(n)
      PROVE  Recorded
  <2>1. Recording(<<"node", n>>, now) /\ asking' \subseteq asking
    BY <1>6 DEF RegisterNode
  <2>2. MayRecord(<<"node", n>>, now)
    BY <1>1, RowKinds DEF MayRecord
  <2> QED
    BY <2>1, <2>2, <1>1, <1>2, RowKinds
<1>7. ASSUME NEW s \in Stakes, RecordStake(s)
      PROVE  Recorded
  <2>1. Recording(<<"stake", s>>, 1) /\ asking' \subseteq asking
    BY <1>7 DEF RecordStake
  <2>2. MayRecord(<<"stake", s>>, 1)
    BY RowKinds DEF MayRecord
  <2> QED
    BY <2>1, <2>2, <1>2, RowKinds
<1> QED
  BY <1>3, <1>4, <1>5, <1>6, <1>7

LEMMA StepKinds ==
  ASSUME LifecycleInv, [Next]_vars
  PROVE  \/ Recorded
         \/ \E k \in Keys : Infer(k)
         \/ \E n \in Nodes : RemoveNode(n)
         \/ \E p \in Owners : Claim(p)
         \/ SaveLands \/ SaveFails
         \/ Prune
         \/ Persist \/ PersistDone \/ PersistFails
         \/ StartSetup \/ StartFromFile \/ StartFromStore \/ StartEmpty
         \/ Crash
         \/ Configure
         \/ Tick
         \/ UNCHANGED vars
<1>1. TypeOK /\ Dated(memory)
  BY DEF LifecycleInv, MemoryIsSound
<1> QED
  BY <1>1, HandlersRecord DEF Next

LEMMA KeptType ==
  ASSUME TypeOK
  PROVE  /\ Kept \in [Rows -> [stamp : Nat, at : Nat]]
         /\ \A row \in Rows : Kept[row] = IF Outdated(row, database[row].at)
                                          THEN [stamp |-> 0, at |-> 0] ELSE database[row]
<1>1. database \in [Rows -> [stamp : Nat, at : Nat]]
  BY DEF TypeOK
<1> QED
  BY <1>1 DEF Kept

LEMMA SnapshotType ==
  ASSUME NEW rows \in [Rows -> Nat], NEW answered \in [Rows -> Nat], NEW paidKeys \in SUBSET Keys
  PROVE  LET s == SnapshotWith(rows, answered, paidKeys) IN
         /\ s \in Snapshots
         /\ s.rows = rows
         /\ ~withStore => s.acked = answered /\ s.paid = paidKeys
<1>1. NoRows \in [Rows -> Nat]
  BY DEF NoRows
<1> QED
  BY <1>1 DEF SnapshotWith, Snapshots

LEMMA TypeStep ==
  ASSUME LifecycleInv, [Next]_vars
  PROVE  TypeOK'
<1> USE BoundsAssumption
<1>0. TypeOK /\ NoRows \in [Rows -> Nat] /\ now \in Nat \ {0}
  BY DEF LifecycleInv, NoRows, TypeOK
<1>1. CASE Recorded
  <2>1. PICK row \in Rows, stamp \in Nat : MayRecord(row, stamp) /\ Recording(row, stamp)
    BY <1>1 DEF Recorded
  <2>2. asking' \subseteq ClientKeys
    BY <1>0, <1>1 DEF Recorded, TypeOK
  <2>3. PaidAfter(row, stamp) \subseteq Keys
    BY <1>0, <2>1, RowKinds DEF PaidAfter, TypeOK
  <2>4. records' \in 0 .. MaxRecords
    BY <1>0, <2>1 DEF Recording, TypeOK
  <2>5. memory' \in [Rows -> Nat] /\ acked' \in [Rows -> Nat] /\ paid' \subseteq Keys
    BY <1>0, <2>1, <2>3 DEF Recording, Record, TypeOK
  <2>6. saving' \subseteq [row : {r \in Rows : Durable(r)}, stamp : Nat, live : BOOLEAN]
    <3>1. saving \subseteq [row : {r \in Rows : Durable(r)}, stamp : Nat, live : BOOLEAN]
      BY <1>0 DEF TypeOK
    <3>2. Durable(row) => [row |-> row, stamp |-> stamp, live |-> TRUE]
                            \in [row : {r \in Rows : Durable(r)}, stamp : Nat, live : BOOLEAN]
      OBVIOUS
    <3> QED
      BY <2>1, <3>1, <3>2 DEF Recording, Record
  <2> QED
    BY <1>0, <2>1, <2>2, <2>4, <2>5, <2>6 DEF Recording, TypeOK, disk, admin
<1>2. CASE \E k \in Keys : Infer(k)
  BY <1>0, <1>2 DEF Infer, TypeOK, store, disk, admin, bounds
<1>3. CASE \E n \in Nodes : RemoveNode(n)
  <2>1. PICK n \in Nodes : RemoveNode(n)
    BY <1>3
  <2>2. memory' \in [Rows -> Nat] /\ acked' \in [Rows -> Nat]
    BY <1>0, <2>1 DEF RemoveNode, TypeOK
  <2>3. saving' \subseteq [row : {r \in Rows : Durable(r)}, stamp : Nat, live : BOOLEAN]
    <3>1. saving' = {[s EXCEPT !.live = s.live /\ s.row # <<"node", n>>] : s \in saving}
      BY <2>1 DEF RemoveNode
    <3>2. saving \subseteq [row : {r \in Rows : Durable(r)}, stamp : Nat, live : BOOLEAN]
      BY <1>0 DEF TypeOK
    <3> QED
      BY <3>1, <3>2
  <2> QED
    BY <1>0, <2>1, <2>2, <2>3 DEF RemoveNode, TypeOK, disk, admin, bounds
<1>4. CASE \E p \in Owners : Claim(p)
  BY <1>0, <1>4 DEF Claim, TypeOK, store, disk, bounds
<1>5. CASE SaveLands
  <2>1. PICK s \in saving :
          /\ database' = [database EXCEPT ![s.row] = [stamp |-> s.stamp, at |-> now]]
          /\ saving' = saving \ {s}
          /\ IF s.live
             THEN /\ acked' = [acked EXCEPT ![s.row] = s.stamp]
                  /\ paid' = IF s.row[1] = "receipt" THEN PaidAfter(s.row, s.stamp) ELSE paid
             ELSE UNCHANGED <<acked, paid>>
          /\ UNCHANGED <<now, withStore, mode, memory, hydrated, asking, disk, admin, bounds>>
    BY <1>5 DEF SaveLands
  <2>2. s.row \in Rows /\ s.stamp \in Nat
    BY <1>0 DEF TypeOK
  <2>3. PaidAfter(s.row, s.stamp) \subseteq Keys
    BY <1>0, <2>2, RowKinds DEF PaidAfter, TypeOK
  <2>4. database' \in [Rows -> [stamp : Nat, at : Nat]]
    BY <1>0, <2>1, <2>2 DEF TypeOK
  <2>5. acked' \in [Rows -> Nat] /\ paid' \subseteq Keys
    BY <1>0, <2>1, <2>2, <2>3 DEF TypeOK
  <2>6. saving' \subseteq [row : {r \in Rows : Durable(r)}, stamp : Nat, live : BOOLEAN]
    BY <1>0, <2>1 DEF TypeOK
  <2> QED
    BY <1>0, <2>1, <2>4, <2>5, <2>6 DEF TypeOK, disk, admin, bounds
<1>6. CASE SaveFails
  BY <1>0, <1>6 DEF SaveFails, Fault, TypeOK, disk, admin
<1>7. CASE Prune
  BY <1>0, <1>7, PrunedType DEF Prune, TypeOK, store, disk, admin, bounds
<1>8. Snapshot(memory) \in Snapshots
  BY <1>0, SnapshotType DEF Snapshot, TypeOK
<1>9. CASE Persist
  BY <1>0, <1>8, <1>9 DEF Persist, TypeOK, store, admin, bounds
<1>10. CASE PersistDone
  BY <1>0, <1>8, <1>10 DEF PersistDone, PersistNext, TypeOK, store, admin, bounds
<1>11. CASE PersistFails
  <2>1. writing' \subseteq Snapshots /\ queued' = FALSE
    BY <1>0, <1>8, <1>11 DEF PersistFails, PersistNext, TypeOK
  <2>2. failures' \in 0 .. MaxFailures
    BY <1>0, <1>11 DEF PersistFails, Fault, TypeOK
  <2>3. UNCHANGED <<now, mode, memory, hydrated, asking, acked, paid, store, file, admin, records, crashes>>
    BY <1>11 DEF PersistFails
  <2> QED
    BY <1>0, <2>1, <2>2, <2>3 DEF TypeOK, store, admin
<1>12. CASE StartSetup
  BY <1>0, <1>12 DEF StartSetup, TypeOK, store, disk, bounds
<1>13. CASE StartFromFile
  <2>1. /\ file.rows \in [Rows -> Nat] /\ file.acked \in [Rows -> Nat]
        /\ file.paid \in SUBSET Keys
    BY <1>0 DEF TypeOK, Snapshots
  <2>2. SnapshotWith(file.rows, file.acked, file.paid) \in Snapshots
    BY <2>1, SnapshotType
  <2>3. Pruned(file.rows) \in [Rows -> Nat]
    BY <2>1, PrunedType
  <2> QED
    BY <1>0, <1>13, <2>1, <2>2, <2>3 DEF StartFromFile, TypeOK, store, bounds
<1>14. CASE StartFromStore
  <2> DEFINE rows == [row \in Rows |-> Kept[row].stamp]
  <2>1. Kept \in [Rows -> [stamp : Nat, at : Nat]]
    BY <1>0, KeptType
  <2>2. rows \in [Rows -> Nat]
    BY <2>1
  <2>3. memory' = Pruned(rows) /\ writing' = {Snapshot(rows)}
    BY <1>14 DEF StartFromStore
  <2> HIDE DEF rows
  <2>4. Pruned(rows) \in [Rows -> Nat] /\ Snapshot(rows) \in Snapshots
    BY <1>0, <2>2, PrunedType, SnapshotType DEF Snapshot, TypeOK
  <2> QED
    BY <1>0, <1>14, <2>1, <2>3, <2>4 DEF StartFromStore, TypeOK, bounds
<1>15. CASE StartEmpty
  <2>1. SnapshotWith(NoRows, NoRows, {}) \in Snapshots
    BY <1>0, SnapshotType
  <2>2. failures' \in 0 .. MaxFailures
    BY <1>0, <1>15 DEF StartEmpty, Fault, TypeOK
  <2>3. acked' \in [Rows -> Nat] /\ paid' \subseteq Keys
    BY <1>0, <1>15 DEF StartEmpty, TypeOK
  <2> QED
    BY <1>0, <1>15, <2>1, <2>2, <2>3 DEF StartEmpty, TypeOK, store
<1>16. CASE Crash
  <2>1. saving' \subseteq [row : {r \in Rows : Durable(r)}, stamp : Nat, live : BOOLEAN]
    <3>1. saving' = {[s EXCEPT !.live = FALSE] : s \in saving}
      BY <1>16 DEF Crash
    <3>2. saving \subseteq [row : {r \in Rows : Durable(r)}, stamp : Nat, live : BOOLEAN]
      BY <1>0 DEF TypeOK
    <3> QED
      BY <3>1, <3>2
  <2>2. crashes' \in 0 .. MaxCrashes
    BY <1>0, <1>16 DEF Crash, TypeOK
  <2> QED
    BY <1>0, <1>16, <2>1, <2>2 DEF Crash, TypeOK
<1>17. CASE Configure
  BY <1>0, <1>17 DEF Configure, TypeOK, store, disk, bounds
<1>18. CASE Tick
  BY <1>0, <1>18 DEF Tick, TypeOK, store, disk, admin, bounds
<1>19. CASE UNCHANGED vars
  BY <1>0, <1>19 DEF vars, TypeOK, store, disk, admin, bounds
<1> QED
  BY <1>1, <1>2, <1>3, <1>4, <1>5, <1>6, <1>7, <1>9, <1>10, <1>11, <1>12, <1>13, <1>14,
     <1>15, <1>16, <1>17, <1>18, <1>19, StepKinds

LEMMA ClaimStep ==
  ASSUME LifecycleInv, [Next]_vars
  PROVE  Claims'
<1>0. Claims
  BY DEF LifecycleInv
<1>1. CASE Recorded
  BY <1>0, <1>1 DEF Recorded, Recording, Claims, admin
<1>2. CASE \/ \E k \in Keys : Infer(k)
           \/ \E n \in Nodes : RemoveNode(n)
           \/ SaveLands \/ SaveFails \/ Prune \/ Persist \/ PersistDone \/ PersistFails \/ Tick
           \/ Configure
  BY <1>0, <1>2 DEF Infer, RemoveNode, SaveLands, SaveFails, Prune, Persist, PersistDone,
     PersistFails, Tick, Configure, Claims, admin
<1>3. CASE \E p \in Owners : Claim(p)
  BY <1>0, <1>3 DEF Claim, Claims
<1>4. CASE StartSetup \/ StartFromFile \/ StartFromStore \/ StartEmpty \/ Crash
  BY <1>0, <1>4 DEF StartSetup, StartFromFile, StartFromStore, StartEmpty, Crash, Claims
<1>5. CASE UNCHANGED vars
  BY <1>0, <1>5 DEF vars, Claims, admin
<1> QED
  BY <1>1, <1>2, <1>3, <1>4, <1>5, StepKinds

LEMMA SavesStep ==
  ASSUME LifecycleInv, [Next]_vars
  PROVE  SavesAreRecent'
<1> USE DEF SavesAreRecent
<1>0. /\ SavesAreRecent
      /\ now \in Nat \ {0}
      /\ memory \in [Rows -> Nat]
      /\ \A s \in saving : s.row \in Rows /\ s.row[1] # "stake"
  BY DurableKeys DEF LifecycleInv, TypeOK
<1>1. CASE Recorded
  <2>1. PICK row \in Rows, stamp \in Nat : MayRecord(row, stamp) /\ Recording(row, stamp)
    BY <1>1 DEF Recorded
  <2>2. /\ UNCHANGED <<now, mode, withStore>>
        /\ mode = "running"
        /\ memory' = [memory EXCEPT ![row] = stamp]
    BY <2>1 DEF Recording, Record
  <2>3. stamp # 0 /\ (row[1] = "request" => stamp <= now + Lifetime)
    BY <2>1 DEF MayRecord
  <2>4. row[1] \notin {"request", "stake"} => stamp = now
    BY <2>1, RowKinds DEF MayRecord
  <2>5. \/ saving' = saving
        \/ /\ withStore
           /\ row[1] # "stake"
           /\ saving' = saving \cup {[row |-> row, stamp |-> stamp, live |-> TRUE]}
    BY <2>1, DurableKeys DEF Recording, Record
  <2>6. \A s \in saving : s.row[1] # "request" /\ memory[s.row] = now => memory'[s.row] = now
    BY <1>0, <2>2, <2>4
  <2>7. CASE saving' = saving
    BY <1>0, <2>2, <2>6, <2>7
  <2>8. CASE /\ withStore
             /\ row[1] # "stake"
             /\ saving' = saving \cup {[row |-> row, stamp |-> stamp, live |-> TRUE]}
    <3>1. ASSUME NEW s \in saving'
          PROVE  s \in saving \/ (s.row = row /\ s.stamp = stamp /\ s.live)
      BY <2>8, <3>1
    <3>2. memory'[row] = stamp
      BY <1>0, <2>2
    <3> QED
      BY <1>0, <2>2, <2>3, <2>4, <2>6, <2>8, <3>1, <3>2
  <2> QED
    BY <2>5, <2>7, <2>8
<1>2. CASE \E n \in Nodes : RemoveNode(n)
  <2>1. PICK n \in Nodes : RemoveNode(n)
    BY <1>2
  <2> DEFINE row == <<"node", n>>
  <2>2. /\ UNCHANGED <<now, mode, withStore>>
        /\ memory' = [memory EXCEPT ![row] = 0]
        /\ saving' = {[s EXCEPT !.live = s.live /\ s.row # row] : s \in saving}
    BY <2>1 DEF RemoveNode
  <2> HIDE DEF row
  <2>3. ASSUME NEW t \in saving'
        PROVE  \E s \in saving : t.row = s.row /\ t.stamp = s.stamp /\ (t.live => s.live /\ s.row # row)
    <3>1. PICK s \in saving : t = [s EXCEPT !.live = s.live /\ s.row # row]
      BY <2>2
    <3>2. s \in [row : {r \in Rows : Durable(r)}, stamp : Nat, live : BOOLEAN]
      BY DEF LifecycleInv, TypeOK
    <3> QED
      BY <3>1, <3>2
  <2> QED
    BY <1>0, <2>2, <2>3
<1>3. CASE Crash
  <2>1. ASSUME NEW t \in saving'
        PROVE  \E s \in saving : t.row = s.row /\ t.stamp = s.stamp /\ ~t.live
    <3>1. PICK s \in saving : t = [s EXCEPT !.live = FALSE]
      BY <1>3, <2>1 DEF Crash
    <3>2. s \in [row : {r \in Rows : Durable(r)}, stamp : Nat, live : BOOLEAN]
      BY DEF LifecycleInv, TypeOK
    <3> QED
      BY <3>1, <3>2
  <2>2. UNCHANGED <<now, withStore>>
    BY <1>3 DEF Crash
  <2> QED
    BY <1>0, <2>1, <2>2
<1>4. CASE SaveLands \/ SaveFails
  <2>1. saving' \subseteq saving /\ UNCHANGED <<now, withStore, mode, memory>>
    BY <1>4 DEF SaveLands, SaveFails
  <2> QED
    BY <1>0, <2>1
<1>5. CASE Prune
  <2>1. /\ UNCHANGED <<now, mode, withStore, saving>>
        /\ memory' = Pruned(memory)
    BY <1>5 DEF Prune, store
  <2>2. \A s \in saving : memory[s.row] = now => memory'[s.row] = now
    BY <1>0, <2>1, PrunedType, NowStays
  <2> QED
    BY <1>0, <2>1, <2>2
<1>6. CASE \/ \E k \in Keys : Infer(k)
           \/ \E p \in Owners : Claim(p)
           \/ Persist \/ PersistDone \/ PersistFails \/ Configure
  <2>1. UNCHANGED <<now, withStore, saving, mode, memory>>
    BY <1>6 DEF Infer, Claim, Persist, PersistDone, PersistFails, Configure, store
  <2> QED
    BY <1>0, <2>1
<1>7. CASE StartSetup \/ StartFromFile \/ StartFromStore \/ StartEmpty
  <2>1. /\ mode = "down"
        /\ UNCHANGED <<now, withStore, saving>>
    BY <1>7 DEF StartSetup, StartFromFile, StartFromStore, StartEmpty, store
  <2> QED
    BY <1>0, <2>1
<1>8. CASE Tick
  BY <1>8 DEF Tick, store
<1>9. CASE UNCHANGED vars
  BY <1>0, <1>9 DEF vars, store
<1> QED
  BY <1>1, <1>2, <1>3, <1>4, <1>5, <1>6, <1>7, <1>8, <1>9, StepKinds

LEMMA StakesStep ==
  ASSUME LifecycleInv, [Next]_vars
  PROVE  StakesStay'
<1> USE DEF StakesStay
<1> DEFINE Row(i) == <<"stake", i>>
<1>0. /\ StakesStay
      /\ memory \in [Rows -> Nat]
      /\ \A i \in Stakes : Row(i) \in Rows /\ Row(i)[1] = "stake"
  BY RowKinds DEF LifecycleInv, TypeOK
<1>1. \A rows \in [Rows -> Nat], i \in Stakes : Pruned(rows)[Row(i)] = rows[Row(i)]
  BY <1>0, PrunedType DEF Outdated
<1> USE <1>0
<1>2. CASE Recorded
  <2>1. PICK row \in Rows, stamp \in Nat : MayRecord(row, stamp) /\ Recording(row, stamp)
    BY <1>2 DEF Recorded
  <2>2. /\ UNCHANGED <<mode, hydrated, withStore, file, writing>>
        /\ memory' = [memory EXCEPT ![row] = stamp]
        /\ stamp # 0
    BY <2>1 DEF Recording, Record, MayRecord, disk
  <2>3. \A i \in Stakes : memory[Row(i)] # 0 => memory'[Row(i)] # 0
    BY <2>2
  <2> QED
    BY <2>2, <2>3
<1>3. CASE \/ \E k \in Keys : Infer(k)
           \/ \E p \in Owners : Claim(p)
           \/ SaveLands \/ SaveFails \/ Tick \/ Configure
  <2>1. UNCHANGED <<mode, hydrated, withStore, file, writing, memory>>
    BY <1>3 DEF Infer, Claim, SaveLands, SaveFails, Tick, Configure, store, disk
  <2> QED
    BY <2>1
<1>4. CASE \E n \in Nodes : RemoveNode(n)
  <2>1. PICK n \in Nodes : RemoveNode(n)
    BY <1>4
  <2>2. /\ UNCHANGED <<mode, hydrated, withStore, file, writing>>
        /\ memory' = [memory EXCEPT ![<<"node", n>>] = 0]
    BY <2>1 DEF RemoveNode, disk
  <2>3. \A i \in Stakes : memory'[Row(i)] = memory[Row(i)]
    BY <2>2
  <2> QED
    BY <2>2, <2>3
<1>5. CASE Prune
  <2>1. /\ UNCHANGED <<mode, hydrated, withStore, file, writing>>
        /\ memory' = Pruned(memory)
    BY <1>5 DEF Prune, store, disk
  <2>2. \A i \in Stakes : memory'[Row(i)] = memory[Row(i)]
    BY <2>1, <1>1
  <2> QED
    BY <2>1, <2>2
<1>6. Snapshot(memory).rows = memory
  BY DEF Snapshot, SnapshotWith
<1>7. CASE Persist
  BY <1>6, <1>7 DEF Persist, store
<1>8. CASE PersistDone
  <2>1. PICK s \in writing : /\ file' = s
                             /\ PersistNext(s)
                             /\ UNCHANGED <<mode, memory, hydrated, withStore>>
    BY <1>8 DEF PersistDone, store
  <2>2. writing' = {} \/ writing' = {Snapshot(memory)}
    BY <2>1 DEF PersistNext
  <2>3. mode = "running"
    BY <2>1
  <2> QED
    BY <1>6, <2>1, <2>2, <2>3
<1>9. CASE PersistFails
  <2>1. PICK s \in writing : /\ UNCHANGED <<mode, memory, hydrated, withStore, file>>
                             /\ PersistNext(s)
    BY <1>9 DEF PersistFails, store
  <2>2. writing' = {} \/ writing' = {Snapshot(memory)}
    BY <2>1 DEF PersistNext
  <2>3. mode = "running"
    BY <2>1
  <2> QED
    BY <1>6, <2>1, <2>2, <2>3
<1>10. CASE StartSetup
  BY <1>10 DEF StartSetup, disk
<1>11. CASE StartFromFile
  <2>1. /\ mode = "down"
        /\ mode' = "running"
        /\ memory' = Pruned(file.rows)
        /\ writing' = {SnapshotWith(file.rows, file.acked, file.paid)}
        /\ UNCHANGED <<withStore, file>>
    BY <1>11 DEF StartFromFile, store
  <2>2. SnapshotWith(file.rows, file.acked, file.paid).rows = file.rows
    BY DEF SnapshotWith
  <2>3. \A i \in Stakes : memory'[Row(i)] = file.rows[Row(i)]
    BY <1>1, <2>1 DEF LifecycleInv, TypeOK, Snapshots
  <2> QED
    BY <2>1, <2>2, <2>3
<1>12. CASE StartFromStore
  <2>1. PICK rows : writing' = {Snapshot(rows)}
    BY <1>12 DEF StartFromStore
  <2> QED
    BY <1>12, <2>1 DEF StartFromStore
<1>13. CASE StartEmpty
  BY <1>13 DEF StartEmpty
<1>14. CASE Crash
  BY <1>14 DEF Crash
<1>15. CASE UNCHANGED vars
  BY <1>15 DEF vars, store, disk
<1> QED
  BY <1>2, <1>3, <1>4, <1>5, <1>7, <1>8, <1>9, <1>10, <1>11, <1>12, <1>13, <1>14, <1>15, StepKinds

(* What is paid after a row was recorded. *)
LEMMA PaidAfterRow ==
  ASSUME TypeOK, NEW row \in Rows, NEW stamp \in Nat, NEW k \in PaidAfter(row, stamp)
  PROVE  /\ k \in Keys
         /\ k \in paid \/ row = Rcpt(k)
         /\ row = Req(k) => k \in paid /\ memory[row] = stamp
<1>0. paid \subseteq Keys
  BY DEF TypeOK
<1>1. CASE row[1] = "receipt"
  <2>1. PaidAfter(row, stamp) = paid \cup {row[2]}
    BY <1>1 DEF PaidAfter
  <2>2. row[2] \in Keys /\ row = Rcpt(row[2])
    BY <1>1, RowKinds
  <2> QED
    BY <1>0, <2>1, <2>2, KeysDiffer
<1>2. CASE row[1] = "request"
  <2>1. row[2] \in Keys /\ row = Req(row[2])
    BY <1>2, RowKinds
  <2>2. CASE memory[row] # stamp
    <3>1. PaidAfter(row, stamp) = paid \ {row[2]}
      BY <1>2, <2>2 DEF PaidAfter
    <3> QED
      BY <1>0, <2>1, <3>1, KeysDiffer
  <2>3. CASE memory[row] = stamp
    BY <1>0, <1>2, <2>3 DEF PaidAfter
  <2> QED
    BY <2>2, <2>3
<1>3. CASE row[1] \notin {"receipt", "request"}
  BY <1>0, <1>3, RowKinds DEF PaidAfter
<1> QED
  BY <1>1, <1>2, <1>3

(* What recording a row changes. *)
LEMMA RecordingFacts ==
  ASSUME TypeOK, NEW row \in Rows, NEW stamp \in Nat, Recording(row, stamp)
  PROVE  /\ memory' = [memory EXCEPT ![row] = stamp]
         /\ mode = "running"
         /\ UNCHANGED <<now, mode, hydrated, withStore, database, file, writing>>
         /\ acked' \in {acked, [acked EXCEPT ![row] = stamp]}
         /\ (acked' = acked => withStore /\ Durable(row)) \/ acked'[row] = stamp
         /\ withStore /\ Durable(row) => acked' = acked
         /\ \A k \in paid' :
              /\ k \in Keys
              /\ k \in paid \/ (row = Rcpt(k) /\ ~(withStore /\ Durable(row)))
              /\ row = Req(k) => k \in paid /\ memory[row] = stamp
<1>0. paid \subseteq Keys /\ acked \in [Rows -> Nat]
  BY DEF TypeOK
<1>1. CASE withStore /\ Durable(row)
  <2>1. acked' = acked /\ paid' = IF row[1] = "request" THEN PaidAfter(row, stamp) ELSE paid
    BY <1>1 DEF Recording, Record
  <2>2. \A k \in paid' : /\ k \in Keys /\ k \in paid
                         /\ row = Req(k) => memory[row] = stamp
    <3>1. CASE row[1] = "request"
      BY <2>1, <3>1, PaidAfterRow, RowKinds
    <3>2. CASE row[1] # "request"
      BY <1>0, <2>1, <3>2, RowKinds
    <3> QED
      BY <3>1, <3>2
  <2> QED
    BY <1>1, <2>1, <2>2 DEF Recording, Record, disk
<1>2. CASE ~(withStore /\ Durable(row))
  <2>1. acked' = [acked EXCEPT ![row] = stamp] /\ paid' = PaidAfter(row, stamp)
    BY <1>2 DEF Recording, Record
  <2>2. acked'[row] = stamp
    BY <1>0, <2>1
  <2>3. \A k \in paid' : /\ k \in Keys
                         /\ k \in paid \/ row = Rcpt(k)
                         /\ row = Req(k) => k \in paid /\ memory[row] = stamp
    BY <2>1, PaidAfterRow
  <2> QED
    BY <1>2, <2>1, <2>2, <2>3 DEF Recording, Record, disk
<1> QED
  BY <1>1, <1>2

(* What a save that lands changes. *)
LEMMA LandingFacts ==
  ASSUME LifecycleInv, NEW s \in saving,
         IF s.live
         THEN /\ acked' = [acked EXCEPT ![s.row] = s.stamp]
              /\ paid' = IF s.row[1] = "receipt" THEN PaidAfter(s.row, s.stamp) ELSE paid
         ELSE UNCHANGED <<acked, paid>>
  PROVE  /\ s.row \in Rows /\ s.stamp \in Nat /\ Durable(s.row) /\ s.live \in BOOLEAN
         /\ s.row[1] \in {"request", "receipt", "node"}
         /\ \A row \in Rows : \/ acked'[row] = acked[row]
                              \/ s.live /\ row = s.row /\ acked'[row] = s.stamp
         /\ \A k \in paid' : /\ k \in Keys
                             /\ k \in paid \/ (s.live /\ s.row = Rcpt(k))
<1>0. /\ TypeOK
      /\ s \in [row : {r \in Rows : Durable(r)}, stamp : Nat, live : BOOLEAN]
      /\ acked \in [Rows -> Nat] /\ paid \subseteq Keys
  BY DEF LifecycleInv, TypeOK
<1>1. /\ s.row \in Rows /\ s.stamp \in Nat /\ Durable(s.row) /\ s.live \in BOOLEAN
      /\ s.row[1] \in {"request", "receipt", "node"}
  BY <1>0, RowKinds, DurableKeys
<1>2. \A k \in PaidAfter(s.row, s.stamp) : k \in Keys /\ (k \in paid \/ s.row = Rcpt(k))
  BY <1>0, <1>1, PaidAfterRow
<1> QED
  BY <1>0, <1>1, <1>2

LEMMA MemoryStep ==
  ASSUME LifecycleInv, [Next]_vars
  PROVE  MemoryIsSound'
<1>0. /\ TypeOK /\ MemoryIsSound /\ Dated(memory) /\ Covers(memory, paid)
      /\ now \in Nat \ {0} /\ memory \in [Rows -> Nat] /\ acked \in [Rows -> Nat]
      /\ paid \in SUBSET Keys /\ Lifetime \in Nat
      /\ withStore \in BOOLEAN /\ hydrated \in BOOLEAN
  BY ReceiptsOutliveRequests DEF LifecycleInv, MemoryIsSound, TypeOK
<1> DEFINE Bounded(row) == row[1] # "request" =>
                             acked[row] <= now /\ (row[1] = "stake" => acked[row] <= 1)
           Mine(row) == withStore => Durable(row)
<1>1. /\ \A row \in Rows : Bounded(row)
      /\ (mode = "running" /\ (hydrated \/ ~withStore)) =>
           \A row \in Rows : Mine(row) => Knows(memory, acked, row)
  BY <1>0 DEF MemoryIsSound
<1>2. ASSUME UNCHANGED <<now, withStore, mode, hydrated, memory, acked, paid>>
      PROVE  MemoryIsSound'
  BY <1>0, <1>2 DEF MemoryIsSound, Dated, Covers, Knows, Outdated
<1>3. CASE Recorded
  <2>1. PICK row \in Rows, stamp \in Nat : MayRecord(row, stamp) /\ Recording(row, stamp)
    BY <1>3 DEF Recorded
  <2>2. /\ memory' = [memory EXCEPT ![row] = stamp]
        /\ UNCHANGED <<now, mode, hydrated, withStore>>
        /\ acked' \in {acked, [acked EXCEPT ![row] = stamp]}
        /\ (acked' = acked => withStore /\ Durable(row)) \/ acked'[row] = stamp
        /\ \A k \in paid' : /\ k \in Keys
                            /\ k \in paid \/ row = Rcpt(k)
                            /\ row = Req(k) => k \in paid /\ memory[row] = stamp
    BY <1>0, <2>1, RecordingFacts
  <2>3. /\ row[1] = "request" => stamp <= now + Lifetime
        /\ row[1] \in {"receipt", "node"} => stamp = now
        /\ row[1] = "stake" => stamp = 1
    BY <2>1 DEF MayRecord
  <2>4. Dated(memory)'
    BY <1>0, <2>2, <2>3, RowKinds DEF Dated
  <2>5. Covers(memory, paid)'
    <3> SUFFICES ASSUME NEW k \in paid', memory'[Req(k)] # 0
                 PROVE  /\ memory'[Rcpt(k)] # 0
                        /\ memory'[Req(k)] <= memory'[Rcpt(k)] + Lifetime
      BY DEF Covers
    <3>1. k \in Keys /\ Req(k) \in Rows /\ Rcpt(k) \in Rows /\ Req(k) # Rcpt(k)
      BY <2>2, RowKinds, KeysDiffer
    <3>2. CASE row = Rcpt(k)
      <4>1. memory'[Rcpt(k)] = now /\ memory'[Req(k)] = memory[Req(k)]
        BY <1>0, <2>2, <2>3, <3>1, <3>2, RowKinds
      <4> QED
        BY <1>0, <3>1, <4>1 DEF Dated
    <3>3. CASE row # Rcpt(k)
      <4>1. k \in paid /\ memory'[Rcpt(k)] = memory[Rcpt(k)] /\ memory'[Req(k)] = memory[Req(k)]
        BY <1>0, <2>2, <3>1, <3>3
      <4> QED
        BY <1>0, <4>1 DEF Covers
    <3> QED
      BY <3>2, <3>3
  <2>6. \A r \in Rows : Bounded(r)'
    <3> TAKE r \in Rows
    <3>1. CASE r = row /\ acked'[row] = stamp
      BY <1>0, <2>2, <2>3, <3>1, RowKinds
    <3>2. CASE acked'[r] = acked[r]
      BY <1>1, <2>2, <3>2
    <3> QED
      BY <1>0, <2>2, <3>1, <3>2
  <2>7. ASSUME mode = "running", hydrated \/ ~withStore, NEW r \in Rows, Mine(r)
        PROVE  Knows(memory, acked, r)'
    <3>1. Knows(memory, acked, r)
      BY <1>1, <2>7
    <3>2. CASE r # row
      <4>1. memory'[r] = memory[r] /\ acked'[r] = acked[r]
        BY <1>0, <2>2, <3>2
      <4> QED
        BY <2>2, <3>1, <4>1 DEF Knows, Outdated
    <3>3. CASE r = row /\ acked'[row] = stamp
      BY <1>0, <2>2, <3>3 DEF Knows
    <3>4. CASE r = row /\ withStore /\ Durable(row) /\ acked' = acked
      <4>1. row[1] # "request" => memory'[row] = now
        BY <1>0, <2>2, <2>3, <3>4, RowKinds, DurableKeys
      <4> QED
        BY <1>0, <1>1, <2>2, <3>4, <4>1 DEF Knows
    <3> QED
      BY <1>0, <2>2, <3>2, <3>3, <3>4
  <2> QED
    BY <2>2, <2>4, <2>5, <2>6, <2>7 DEF MemoryIsSound
<1>4. CASE \E n \in Nodes : RemoveNode(n)
  <2>1. PICK n \in Nodes : RemoveNode(n)
    BY <1>4
  <2> DEFINE row == <<"node", n>>
  <2>2. /\ memory' = [memory EXCEPT ![row] = 0]
        /\ acked' = [acked EXCEPT ![row] = 0]
        /\ UNCHANGED <<now, mode, hydrated, withStore, paid>>
    BY <2>1 DEF RemoveNode
  <2>3. row \in Rows /\ \A k \in Keys : row # Req(k) /\ row # Rcpt(k)
    BY RowKinds DEF Req, Rcpt
  <2> HIDE DEF row
  <2>4. Dated(memory)' /\ Covers(memory, paid)'
    BY <1>0, <2>2, <2>3, RowKinds DEF Dated, Covers
  <2>5. \A r \in Rows : Bounded(r)'
    BY <1>0, <1>1, <2>2, <2>3
  <2>6. ASSUME mode = "running", hydrated \/ ~withStore, NEW r \in Rows, Mine(r)
        PROVE  Knows(memory, acked, r)'
    <3>1. Knows(memory, acked, r)
      BY <1>1, <2>6
    <3> QED
      BY <1>0, <2>2, <2>3, <3>1 DEF Knows, Outdated
  <2> QED
    BY <2>2, <2>4, <2>5, <2>6 DEF MemoryIsSound
<1>5. CASE SaveLands
  <2>1. PICK s \in saving :
          /\ IF s.live
             THEN /\ acked' = [acked EXCEPT ![s.row] = s.stamp]
                  /\ paid' = IF s.row[1] = "receipt" THEN PaidAfter(s.row, s.stamp) ELSE paid
             ELSE UNCHANGED <<acked, paid>>
          /\ UNCHANGED <<now, withStore, mode, memory, hydrated>>
    BY <1>5 DEF SaveLands
  <2>2. /\ s.row \in Rows /\ s.stamp \in Nat
        /\ s.row[1] \in {"request", "receipt", "node"}
        /\ \A row \in Rows : \/ acked'[row] = acked[row]
                             \/ s.live /\ row = s.row /\ acked'[row] = s.stamp
        /\ \A k \in paid' : /\ k \in Keys
                            /\ k \in paid \/ (s.live /\ s.row = Rcpt(k))
    BY <2>1, LandingFacts
  <2>3. s.row[1] # "request" => s.stamp = now /\ (s.live => memory[s.row] = now)
    BY DEF LifecycleInv, SavesAreRecent
  <2>4. Dated(memory)'
    BY <1>0, <2>1 DEF Dated
  <2>5. Covers(memory, paid)'
    <3> SUFFICES ASSUME NEW k \in paid', memory[Req(k)] # 0
                 PROVE  memory[Rcpt(k)] # 0 /\ memory[Req(k)] <= memory[Rcpt(k)] + Lifetime
      BY <2>1 DEF Covers
    <3>1. CASE k \in paid
      BY <1>0, <3>1 DEF Covers
    <3>2. CASE s.live /\ s.row = Rcpt(k)
      <4>1. k \in Keys /\ memory[Rcpt(k)] = now
        BY <2>2, <2>3, <3>2, RowKinds
      <4> QED
        BY <1>0, <4>1 DEF Dated
    <3> QED
      BY <2>2, <3>1, <3>2
  <2>6. \A r \in Rows : Bounded(r)'
    BY <1>0, <1>1, <2>1, <2>2, <2>3
  <2>7. ASSUME mode = "running", hydrated \/ ~withStore, NEW r \in Rows, Mine(r)
        PROVE  Knows(memory, acked, r)'
    <3>1. Knows(memory, acked, r)
      BY <1>1, <2>7
    <3>2. CASE acked'[r] = acked[r]
      BY <2>1, <3>1, <3>2 DEF Knows, Outdated
    <3>3. CASE s.live /\ r = s.row /\ acked'[r] = s.stamp
      BY <1>0, <2>1, <2>2, <2>3, <3>3 DEF Knows
    <3> QED
      BY <2>2, <3>2, <3>3
  <2> QED
    BY <2>1, <2>4, <2>5, <2>6, <2>7 DEF MemoryIsSound
<1>6. CASE Prune
  <2>1. /\ memory' = Pruned(memory)
        /\ UNCHANGED <<now, withStore, mode, hydrated, acked, paid>>
    BY <1>6 DEF Prune, store
  <2>2. /\ Dated(Pruned(memory)) /\ Covers(Pruned(memory), paid)
        /\ \A row \in Rows : Knows(memory, acked, row) => Knows(Pruned(memory), acked, row)
    BY <1>0, PrunedIsDated, PrunedCovers, PrunedKnows
  <2>3. Dated(memory)' /\ Covers(memory, paid)'
    BY <2>1, <2>2 DEF Dated, Covers
  <2>4. \A row \in Rows : Knows(memory, acked, row) => Knows(memory, acked, row)'
    BY <2>1, <2>2 DEF Knows, Outdated
  <2> QED
    BY <1>1, <2>1, <2>3, <2>4 DEF MemoryIsSound
<1>7. NoRows \in [Rows -> Nat] /\ \A row \in Rows : NoRows[row] = 0
  BY DEF NoRows
<1>8. ASSUME memory' = NoRows, UNCHANGED now
      PROVE  Dated(memory)' /\ Covers(memory, paid)'
  <2>1. paid' \subseteq Keys
    BY TypeStep DEF TypeOK
  <2> QED
    BY <1>0, <1>7, <1>8, <2>1, RowKinds DEF Dated, Covers
<1>9. CASE StartSetup \/ Crash
  <2>1. memory' = NoRows /\ mode' # "running" /\ UNCHANGED <<now, acked>>
    BY <1>9 DEF StartSetup, Crash
  <2> QED
    BY <1>1, <1>8, <2>1 DEF MemoryIsSound
<1>10. CASE StartFromFile
  <2>1. /\ ~withStore
        /\ memory' = Pruned(file.rows) /\ acked' = file.acked /\ paid' = file.paid
        /\ UNCHANGED <<now, withStore>>
    BY <1>10 DEF StartFromFile, store
  <2>2. /\ file.rows \in [Rows -> Nat] /\ file.acked \in [Rows -> Nat]
        /\ file.paid \in SUBSET Keys
    BY <1>0 DEF TypeOK, Snapshots
  <2>3. IsSound(file)
    BY <2>1 DEF LifecycleInv, FileIsSound
  <2>4. /\ Dated(Pruned(file.rows)) /\ Covers(Pruned(file.rows), file.paid)
        /\ \A row \in Rows : Knows(Pruned(file.rows), file.acked, row)
    BY <1>0, <2>2, <2>3, PrunedIsDated, PrunedCovers, PrunedKnows DEF IsSound
  <2>5. Dated(memory)' /\ Covers(memory, paid)'
    BY <2>1, <2>4 DEF Dated, Covers
  <2>6. \A row \in Rows : Knows(memory, acked, row)'
    BY <2>1, <2>4 DEF Knows, Outdated
  <2>7. \A row \in Rows : Bounded(row)'
    BY <2>1, <2>3 DEF IsSound
  <2> QED
    BY <2>5, <2>6, <2>7 DEF MemoryIsSound
<1>11. CASE StartFromStore
  <2> DEFINE rows == [row \in Rows |-> Kept[row].stamp]
  <2>1. withStore /\ memory' = Pruned(rows) /\ UNCHANGED <<now, withStore, acked, paid>>
    BY <1>11 DEF StartFromStore
  <2>2. /\ database \in [Rows -> [stamp : Nat, at : Nat]]
        /\ StoreIsSound
    BY DEF LifecycleInv, TypeOK
  <2>3. /\ rows \in [Rows -> Nat]
        /\ \A row \in Rows : rows[row] = IF Outdated(row, database[row].at) THEN 0
                                         ELSE database[row].stamp
    BY <1>0, KeptType
  <2> HIDE DEF rows
  <2>4. Dated(rows)
    BY <1>0, <2>1, <2>2, <2>3, RowKinds DEF Dated, StoreIsSound
  <2>5. Covers(Pruned(rows), paid)
    <3> SUFFICES ASSUME NEW k \in paid, Pruned(rows)[Req(k)] # 0
                 PROVE  /\ Pruned(rows)[Rcpt(k)] # 0
                        /\ Pruned(rows)[Req(k)] <= Pruned(rows)[Rcpt(k)] + Lifetime
      BY DEF Covers
    <3> DEFINE q == database[Req(k)].stamp
               r == database[Rcpt(k)].stamp
    <3>1. k \in Keys /\ Req(k) \in Rows /\ Rcpt(k) \in Rows
      BY <1>0, RowKinds
    <3>2. /\ q \in Nat /\ r \in Nat /\ database[Rcpt(k)].at \in Nat
          /\ r <= database[Rcpt(k)].at
      BY <2>1, <2>2, <3>1, RowKinds DEF StoreIsSound
    <3>3. Pruned(rows)[Req(k)] = q /\ q # 0 /\ ~Outdated(Req(k), q)
      BY <2>3, <3>1, PrunedType
    <3>4. k \in ClientKeys
      BY <2>1, <2>2, <3>1, <3>3, DurableKeys DEF StoreIsSound
    <3>5. q >= now - RequestRetention
      BY <1>0, <3>1, <3>2, <3>3, RequestOutdated, ReceiptsOutliveRequests
    <3>6. r # 0 /\ q <= r + Lifetime
      BY <1>0, <2>1, <2>2, <3>2, <3>3, <3>4, <3>5, ReceiptsOutliveRequests
         DEF StoreIsSound, OfferTimes
    <3>7. ~Outdated(Rcpt(k), r)
      BY <1>0, <3>1, <3>2, <3>5, <3>6, ReceiptOutlives
    <3>8. ~Outdated(Rcpt(k), database[Rcpt(k)].at)
      BY <1>0, <3>2, <3>7, YoungerStays
    <3>9. Pruned(rows)[Rcpt(k)] = r
      BY <2>3, <3>1, <3>7, <3>8, PrunedType
    <3> QED
      BY <3>3, <3>6, <3>9
  <2>6. ASSUME NEW row \in Rows, Durable(row)
        PROVE  Knows(Pruned(rows), acked, row)
    <3> SUFFICES ASSUME row[1] # "request", acked[row] # 0, ~Outdated(row, acked[row])
                 PROVE  Pruned(rows)[row] >= acked[row]
      BY DEF Knows
    <3>1. /\ database[row].stamp >= acked[row]
          /\ database[row].at >= database[row].stamp
          /\ database[row].stamp \in Nat /\ database[row].at \in Nat /\ acked[row] \in Nat
      BY <1>0, <2>1, <2>2, <2>6 DEF StoreIsSound
    <3>2. ~Outdated(row, database[row].stamp) /\ ~Outdated(row, database[row].at)
      BY <1>0, <3>1, YoungerStays
    <3> QED
      BY <2>3, <3>1, <3>2, PrunedType
  <2>7. Dated(Pruned(rows))
    BY <1>0, <2>3, <2>4, PrunedIsDated
  <2>8. Dated(memory)' /\ Covers(memory, paid)'
    BY <2>1, <2>5, <2>7 DEF Dated, Covers
  <2>9. \A row \in Rows : Durable(row) => Knows(memory, acked, row)'
    BY <2>1, <2>6 DEF Knows, Outdated
  <2> QED
    BY <1>1, <2>1, <2>8, <2>9 DEF MemoryIsSound
<1>12. CASE StartEmpty
  <2>1. /\ memory' = NoRows /\ hydrated' = FALSE /\ UNCHANGED <<now, withStore>>
        /\ acked' = IF withStore THEN acked ELSE NoRows
    BY <1>12 DEF StartEmpty, store
  <2>2. \A row \in Rows : Bounded(row)'
    BY <1>0, <1>1, <1>7, <2>1
  <2>3. ~withStore => \A row \in Rows : Knows(memory, acked, row)'
    BY <1>7, <2>1 DEF Knows
  <2> QED
    BY <1>8, <2>1, <2>2, <2>3 DEF MemoryIsSound
<1>13. CASE Tick
  <2>1. now' = now + 1 /\ UNCHANGED <<memory, acked, paid, mode, hydrated, withStore>>
    BY <1>13 DEF Tick, store
  <2>2. Dated(memory)' /\ Covers(memory, paid)'
    BY <1>0, <2>1, DatedLater DEF Dated, Covers
  <2>3. \A row \in Rows : Knows(memory, acked, row) => Knows(memory, acked, row)'
    <3> TAKE row \in Rows
    <3>1. Outdated(row, acked[row]) => Outdated(row, acked[row])'
      BY <1>0, <2>1, OutdatedLater DEF Outdated
    <3> QED
      BY <2>1, <3>1 DEF Knows
  <2>4. \A row \in Rows : Bounded(row)'
    BY <1>0, <1>1, <2>1
  <2> QED
    BY <1>1, <2>1, <2>2, <2>3, <2>4 DEF MemoryIsSound
<1>14. CASE \/ \E k \in Keys : Infer(k)
            \/ \E p \in Owners : Claim(p)
            \/ SaveFails \/ Persist \/ PersistDone \/ PersistFails \/ Configure
  <2>1. UNCHANGED <<now, withStore, mode, hydrated, memory, acked, paid>>
    BY <1>14 DEF Infer, Claim, SaveFails, Persist, PersistDone, PersistFails, Configure, store
  <2> QED
    BY <1>2, <2>1
<1>15. CASE UNCHANGED vars
  BY <1>2, <1>15 DEF vars, store
<1> QED
  BY <1>3, <1>4, <1>5, <1>6, <1>9, <1>10, <1>11, <1>12, <1>13, <1>14, <1>15, StepKinds

LEMMA MemorySnapshotIsSound ==
  ASSUME LifecycleInv, ~withStore, mode = "running"
  PROVE  IsSound(Snapshot(memory))
<1>1. /\ memory \in [Rows -> Nat] /\ acked \in [Rows -> Nat] /\ paid \in SUBSET Keys
      /\ MemoryIsSound
  BY DEF LifecycleInv, TypeOK
<1> DEFINE s == Snapshot(memory)
<1>2. s.rows = memory /\ s.acked = acked /\ s.paid = paid
  BY <1>1, SnapshotType DEF Snapshot
<1> HIDE DEF s
<1>3. IsSound(s)
  BY <1>1, <1>2 DEF MemoryIsSound, IsSound
<1> QED
  BY <1>3 DEF s

LEMMA FileStep ==
  ASSUME LifecycleInv, [Next]_vars
  PROVE  FileIsSound'
<1>0. /\ FileIsSound /\ TypeOK /\ now \in Nat \ {0}
      /\ file \in Snapshots /\ writing \subseteq Snapshots
      /\ NoRows \in [Rows -> Nat] /\ \A row \in Rows : NoRows[row] = 0
      /\ Lifetime \in Nat
  BY ReceiptsOutliveRequests DEF LifecycleInv, TypeOK, NoRows
<1>1. ASSUME NEW s, IsSound(s), UNCHANGED now
      PROVE  IsSound(s)'
  BY <1>1 DEF IsSound, Dated, Covers, Knows, Outdated
<1>2. ASSUME UNCHANGED <<now, withStore>>,
             ~withStore => \A s \in {file'} \cup writing' :
                             s \in {file} \cup writing \/ IsSound(s)
      PROVE  FileIsSound'
  BY <1>0, <1>1, <1>2 DEF FileIsSound
<1>3. CASE Recorded
  <2>1. UNCHANGED <<now, withStore, file, writing>>
    BY <1>3 DEF Recorded, Recording, Record, disk
  <2> QED
    BY <1>2, <2>1
<1>4. CASE \/ \E k \in Keys : Infer(k)
           \/ \E n \in Nodes : RemoveNode(n)
           \/ \E p \in Owners : Claim(p)
           \/ SaveLands \/ SaveFails \/ Prune \/ StartSetup \/ Configure
  <2>1. UNCHANGED <<now, withStore, file, writing>>
    BY <1>4 DEF Infer, RemoveNode, Claim, SaveLands, SaveFails, Prune, StartSetup, Configure,
       store, disk
  <2> QED
    BY <1>2, <2>1
<1>5. CASE Persist
  <2>1. /\ mode = "running"
        /\ UNCHANGED <<now, withStore, file>>
        /\ writing' = {Snapshot(memory)} \/ writing' = writing
    BY <1>5 DEF Persist, store
  <2> QED
    BY <1>2, <2>1, MemorySnapshotIsSound
<1>6. CASE PersistDone \/ PersistFails
  <2>1. PICK s \in writing : /\ file' \in {file, s}
                             /\ PersistNext(s)
                             /\ UNCHANGED <<now, withStore>>
    BY <1>6 DEF PersistDone, PersistFails, store
  <2>2. mode = "running"
    BY <2>1 DEF LifecycleInv, StakesStay
  <2>3. writing' \subseteq writing \cup {Snapshot(memory)}
    BY <2>1 DEF PersistNext
  <2> QED
    BY <1>2, <2>1, <2>2, <2>3, MemorySnapshotIsSound
<1>7. CASE StartFromFile
  <2> DEFINE s == SnapshotWith(file.rows, file.acked, file.paid)
  <2>1. ~withStore /\ UNCHANGED <<now, withStore, file>> /\ writing' = {s}
    BY <1>7 DEF StartFromFile, store
  <2>2. s.rows = file.rows /\ s.acked = file.acked /\ s.paid = file.paid
    BY <1>0, <2>1, SnapshotType DEF Snapshots
  <2> HIDE DEF s
  <2>3. IsSound(s)
    BY <1>0, <2>1, <2>2 DEF FileIsSound, IsSound
  <2> QED
    BY <1>2, <2>1, <2>3
<1>8. CASE StartFromStore
  <2>1. withStore /\ UNCHANGED <<now, withStore>>
    BY <1>8 DEF StartFromStore
  <2> QED
    BY <1>2, <2>1
<1>9. CASE StartEmpty
  <2> DEFINE s == SnapshotWith(NoRows, NoRows, {})
  <2>1. UNCHANGED <<now, withStore, file>> /\ writing' = {s}
    BY <1>9 DEF StartEmpty, store
  <2>2. s.rows = NoRows /\ (~withStore => s.acked = NoRows /\ s.paid = {})
    BY <1>0, SnapshotType
  <2> HIDE DEF s
  <2>3. ~withStore => IsSound(s)
    BY <1>0, <2>2, RowKinds DEF IsSound, Dated, Covers, Knows
  <2> QED
    BY <1>2, <2>1, <2>3
<1>10. CASE Crash
  <2>1. UNCHANGED <<now, withStore, file>> /\ writing' = {}
    BY <1>10 DEF Crash
  <2> QED
    BY <1>2, <2>1
<1>11. CASE Tick
  <2>1. now' = now + 1 /\ UNCHANGED <<withStore, file, writing>>
    BY <1>11 DEF Tick, store, disk
  <2>2. ASSUME NEW s \in Snapshots, IsSound(s)
        PROVE  IsSound(s)'
    <3>1. s.rows \in [Rows -> Nat] /\ s.acked \in [Rows -> Nat]
      BY DEF Snapshots
    <3>2. Dated(s.rows)'
      BY <1>0, <2>1, <2>2, <3>1, DatedLater DEF Dated, IsSound
    <3>3. \A row \in Rows : Knows(s.rows, s.acked, row)'
      <4> TAKE row \in Rows
      <4>1. Outdated(row, s.acked[row]) => Outdated(row, s.acked[row])'
        BY <1>0, <2>1, <3>1, OutdatedLater DEF Outdated
      <4> QED
        BY <2>2, <4>1 DEF Knows, IsSound
    <3>4. \A row \in Rows : row[1] # "request" =>
            s.acked[row] <= now' /\ (row[1] = "stake" => s.acked[row] <= 1)
      BY <1>0, <2>1, <2>2, <3>1 DEF IsSound
    <3>5. Covers(s.rows, s.paid)'
      BY <2>2 DEF IsSound, Covers
    <3> QED
      BY <3>2, <3>3, <3>4, <3>5 DEF IsSound
  <2> QED
    BY <1>0, <2>1, <2>2 DEF FileIsSound
<1>12. CASE UNCHANGED vars
  BY <1>2, <1>12 DEF vars, store, disk
<1> QED
  BY <1>3, <1>4, <1>5, <1>6, <1>7, <1>8, <1>9, <1>10, <1>11, <1>12, StepKinds

(* No offer on its way can be paid for longer than one that is sent now. *)
LEMMA OfferTimesBound ==
  ASSUME LifecycleInv, withStore, NEW k \in Keys, NEW q \in OfferTimes(k)
  PROVE  q \in Nat /\ q <= now + Lifetime
<1>1. /\ memory \in [Rows -> Nat] /\ database \in [Rows -> [stamp : Nat, at : Nat]]
      /\ saving \subseteq [row : {r \in Rows : Durable(r)}, stamp : Nat, live : BOOLEAN]
      /\ Req(k) \in Rows /\ Req(k)[1] = "request"
  BY RowKinds DEF LifecycleInv, TypeOK
<1>2. memory[Req(k)] <= now + Lifetime /\ database[Req(k)].stamp <= now + Lifetime
  BY DEF LifecycleInv, MemoryIsSound, Dated, StoreIsSound
<1>3. \A s \in saving : s.row = Req(k) => s.stamp \in Nat /\ s.stamp <= now + Lifetime
  BY <1>1 DEF LifecycleInv, SavesAreRecent
<1> QED
  BY <1>1, <1>2, <1>3 DEF OfferTimes

LEMMA StoreStep ==
  ASSUME LifecycleInv, [Next]_vars
  PROVE  StoreIsSound'
<1> SUFFICES ASSUME withStore'
             PROVE  StoreIsSound'
  BY DEF StoreIsSound
<1> DEFINE RowIsSound(row) ==
             /\ ~Durable(row) => database[row].stamp = 0
             /\ row[1] # "request" => database[row].stamp <= database[row].at
             /\ Durable(row) /\ row[1] # "request" /\ acked[row] # 0
                  /\ ~Outdated(row, acked[row]) =>
                     database[row].stamp >= acked[row]
           IsBounded(k) == database[Req(k)].stamp <= now + Lifetime
           IsCovered(k, q) == \/ q = 0
                              \/ q < now - RequestRetention
                              \/ /\ database[Rcpt(k)].stamp # 0
                                 /\ q <= database[Rcpt(k)].stamp + Lifetime
<1>1. withStore
  BY StepKinds DEF Recorded, Recording, Infer, RemoveNode, Claim, SaveLands, SaveFails, Prune,
     Persist, PersistDone, PersistFails, StartSetup, StartFromFile, StartFromStore, StartEmpty,
     Crash, Configure, Tick, vars, store
<1>2. /\ TypeOK /\ now \in Nat \ {0} /\ memory \in [Rows -> Nat] /\ acked \in [Rows -> Nat]
      /\ database \in [Rows -> [stamp : Nat, at : Nat]]
      /\ saving \subseteq [row : {r \in Rows : Durable(r)}, stamp : Nat, live : BOOLEAN]
      /\ paid \in SUBSET Keys
      /\ Lifetime \in Nat /\ RequestRetention \in Nat
  BY ReceiptsOutliveRequests DEF LifecycleInv, TypeOK
<1>3. /\ \A row \in Rows : RowIsSound(row)
      /\ \A k \in Keys : IsBounded(k)
      /\ \A k \in paid \cap ClientKeys : \A q \in OfferTimes(k) : IsCovered(k, q)
  BY <1>1 DEF LifecycleInv, StoreIsSound
<1>4. ASSUME \A row \in Rows : RowIsSound(row)', \A k \in Keys : IsBounded(k)',
             \A k \in paid' \cap ClientKeys : \A q \in OfferTimes(k)' : IsCovered(k, q)'
      PROVE  StoreIsSound'
  BY <1>4 DEF StoreIsSound
<1>5. ASSUME UNCHANGED <<now, database>>,
             \A row \in Rows : Durable(row) => acked'[row] \in {0, acked[row]},
             \A k \in paid' \cap ClientKeys :
               k \in paid /\ \A q \in OfferTimes(k)' : q = 0 \/ q \in OfferTimes(k)
      PROVE  StoreIsSound'
  <2>1. \A row \in Rows : RowIsSound(row)'
    BY <1>3, <1>5 DEF Outdated
  <2>2. \A k \in Keys : IsBounded(k)'
    BY <1>3, <1>5
  <2>3. \A k \in paid' \cap ClientKeys : \A q \in OfferTimes(k)' : IsCovered(k, q)'
    BY <1>3, <1>5
  <2> QED
    BY <1>4, <2>1, <2>2, <2>3
<1>6. ASSUME NEW k \in Keys, memory'[Req(k)] \in {0, memory[Req(k)]}, UNCHANGED database,
             \A t \in saving' : t.row = Req(k) =>
               \/ t.stamp = memory[Req(k)]
               \/ \E s \in saving : s.row = t.row /\ s.stamp = t.stamp
      PROVE  \A q \in OfferTimes(k)' : q = 0 \/ q \in OfferTimes(k)
  BY <1>6 DEF OfferTimes
<1>7. CASE Recorded
  <2>1. PICK row \in Rows, stamp \in Nat : MayRecord(row, stamp) /\ Recording(row, stamp)
    BY <1>7 DEF Recorded
  <2>2. /\ memory' = [memory EXCEPT ![row] = stamp]
        /\ UNCHANGED <<now, database>>
        /\ acked' \in {acked, [acked EXCEPT ![row] = stamp]}
        /\ Durable(row) => acked' = acked
        /\ \A k \in paid' : /\ k \in Keys
                            /\ k \in paid \/ (row = Rcpt(k) /\ ~Durable(row))
                            /\ row = Req(k) => k \in paid /\ memory[row] = stamp
    BY <1>1, <1>2, <2>1, RecordingFacts
  <2>3. saving' \subseteq saving \cup {[row |-> row, stamp |-> stamp, live |-> TRUE]}
    BY <2>1 DEF Recording, Record
  <2>4. \A r \in Rows : Durable(r) => acked'[r] = acked[r]
    BY <1>2, <2>2
  <2>5. ASSUME NEW k \in paid' \cap ClientKeys
        PROVE  k \in paid /\ \A q \in OfferTimes(k)' : q = 0 \/ q \in OfferTimes(k)
    <3>1. k \in Keys /\ k \in paid /\ (row = Req(k) => memory[row] = stamp)
      BY <2>2, DurableKeys
    <3>2. memory'[Req(k)] = memory[Req(k)]
      BY <1>2, <2>2, <3>1, RowKinds
    <3>3. \A t \in saving' : t.row = Req(k) =>
            \/ t.stamp = memory[Req(k)]
            \/ \E s \in saving : s.row = t.row /\ s.stamp = t.stamp
      BY <2>3, <3>1
    <3> QED
      BY <1>6, <2>2, <3>1, <3>2, <3>3
  <2> QED
    BY <1>5, <2>2, <2>4, <2>5
<1>8. CASE \E n \in Nodes : RemoveNode(n)
  <2>1. PICK n \in Nodes : RemoveNode(n)
    BY <1>8
  <2> DEFINE row == <<"node", n>>
  <2>2. /\ memory' = [memory EXCEPT ![row] = 0]
        /\ acked' = [acked EXCEPT ![row] = 0]
        /\ saving' = {[s EXCEPT !.live = s.live /\ s.row # row] : s \in saving}
        /\ UNCHANGED <<now, database, paid>>
    BY <2>1 DEF RemoveNode
  <2>3. \A k \in Keys : row # Req(k)
    BY DEF Req
  <2> HIDE DEF row
  <2>4. \A k \in Keys : memory'[Req(k)] = memory[Req(k)]
    BY <1>2, <2>2, <2>3, RowKinds
  <2>5. \A t \in saving' : \E s \in saving : s.row = t.row /\ s.stamp = t.stamp
    BY <1>2, <2>2
  <2>6. \A r \in Rows : acked'[r] \in {0, acked[r]}
    BY <1>2, <2>2
  <2> QED
    BY <1>2, <1>5, <1>6, <2>2, <2>4, <2>5, <2>6
<1>9. CASE SaveLands
  <2>1. PICK s \in saving :
          /\ database' = [database EXCEPT ![s.row] = [stamp |-> s.stamp, at |-> now]]
          /\ saving' = saving \ {s}
          /\ IF s.live
             THEN /\ acked' = [acked EXCEPT ![s.row] = s.stamp]
                  /\ paid' = IF s.row[1] = "receipt" THEN PaidAfter(s.row, s.stamp) ELSE paid
             ELSE UNCHANGED <<acked, paid>>
          /\ UNCHANGED <<now, withStore, mode, memory, hydrated>>
    BY <1>9 DEF SaveLands
  <2>2. /\ s.row \in Rows /\ s.stamp \in Nat /\ Durable(s.row)
        /\ s.row[1] \in {"request", "receipt", "node"}
        /\ \A row \in Rows : \/ acked'[row] = acked[row]
                             \/ s.live /\ row = s.row /\ acked'[row] = s.stamp
        /\ \A k \in paid' : k \in Keys /\ (k \in paid \/ (s.live /\ s.row = Rcpt(k)))
    BY <2>1, LandingFacts
  <2>3. /\ s.row[1] # "request" => s.stamp = now
        /\ s.row[1] = "request" => s.stamp <= now + Lifetime
    BY DEF LifecycleInv, SavesAreRecent
  <2>4. /\ database'[s.row].stamp = s.stamp /\ database'[s.row].at = now
        /\ \A row \in Rows : row # s.row => database'[row] = database[row]
    BY <1>2, <2>1, <2>2
  <2>5. \A row \in Rows : RowIsSound(row)'
    <3> TAKE row \in Rows
    <3>1. CASE row # s.row
      <4>1. acked'[row] = acked[row] /\ database'[row] = database[row]
        BY <2>2, <2>4, <3>1
      <4> QED
        BY <1>3, <2>1, <4>1 DEF Outdated
    <3>2. CASE row = s.row
      <4>1. row[1] # "request" => acked'[row] \in Nat /\ acked'[row] <= now
        BY <1>2, <2>2, <2>3, <3>2 DEF LifecycleInv, MemoryIsSound
      <4> QED
        BY <1>2, <2>2, <2>3, <2>4, <3>2, <4>1
    <3> QED
      BY <3>1, <3>2
  <2>6. \A k \in Keys : IsBounded(k)'
    BY <1>3, <2>1, <2>3, <2>4, RowKinds
  <2>7. ASSUME NEW k \in paid' \cap ClientKeys, NEW q \in OfferTimes(k)'
        PROVE  IsCovered(k, q)'
    <3>1. k \in Keys /\ Req(k) \in Rows /\ Rcpt(k) \in Rows /\ Rcpt(k)[1] = "receipt"
      BY <2>2, RowKinds
    <3>2. q \in OfferTimes(k)
      <4>1. \/ q = memory[Req(k)]
            \/ q = database'[Req(k)].stamp
            \/ \E t \in saving' : t.row = Req(k) /\ t.stamp = q
        BY <2>1, <2>7 DEF OfferTimes
      <4>2. CASE q = database'[Req(k)].stamp /\ s.row = Req(k)
        BY <2>4, <4>2 DEF OfferTimes
      <4>3. CASE q = database'[Req(k)].stamp /\ s.row # Req(k)
        BY <2>4, <3>1, <4>3 DEF OfferTimes
      <4>4. CASE \E t \in saving' : t.row = Req(k) /\ t.stamp = q
        BY <2>1, <4>4 DEF OfferTimes
      <4>5. CASE q = memory[Req(k)]
        BY <4>5 DEF OfferTimes
      <4> QED
        BY <4>1, <4>2, <4>3, <4>4, <4>5
    <3>3. CASE s.row = Rcpt(k)
      <4>1. q \in Nat /\ q <= now + Lifetime
        BY <1>1, <3>1, <3>2, OfferTimesBound
      <4>2. database'[Rcpt(k)].stamp = now
        BY <2>3, <2>4, <3>1, <3>3
      <4> QED
        BY <1>2, <2>1, <4>1, <4>2
    <3>4. CASE s.row # Rcpt(k)
      <4>1. k \in paid /\ database'[Rcpt(k)] = database[Rcpt(k)]
        BY <2>2, <2>4, <3>1, <3>4
      <4>2. IsCovered(k, q)
        BY <1>3, <3>2, <4>1
      <4> QED
        BY <2>1, <4>1, <4>2
    <3> QED
      BY <3>3, <3>4
  <2> QED
    BY <1>4, <2>5, <2>6, <2>7
<1>10. CASE SaveFails
  <2>1. saving' \subseteq saving /\ UNCHANGED <<now, database, memory, acked, paid>>
    BY <1>10 DEF SaveFails
  <2> QED
    BY <1>2, <1>5, <1>6, <2>1
<1>11. CASE Prune
  <2>1. memory' = Pruned(memory) /\ UNCHANGED <<now, database, saving, acked, paid>>
    BY <1>11 DEF Prune, store
  <2>2. \A k \in Keys : memory'[Req(k)] \in {0, memory[Req(k)]}
    BY <1>2, <2>1, PrunedType, RowKinds
  <2> QED
    BY <1>2, <1>5, <1>6, <2>1, <2>2
<1>12. NoRows \in [Rows -> Nat] /\ \A k \in Keys : NoRows[Req(k)] = 0
  BY RowKinds DEF NoRows
<1>13. CASE StartSetup \/ StartEmpty
  <2>1. memory' = NoRows /\ UNCHANGED <<now, database, saving, acked, paid>>
    BY <1>1, <1>13 DEF StartSetup, StartEmpty, store
  <2> QED
    BY <1>2, <1>5, <1>6, <1>12, <2>1
<1>14. CASE StartFromFile
  BY <1>1, <1>14 DEF StartFromFile
<1>15. CASE StartFromStore
  <2> DEFINE rows == [row \in Rows |-> Kept[row].stamp]
  <2>1. /\ memory' = Pruned(rows) /\ database' = Kept
        /\ UNCHANGED <<now, saving, acked, paid>>
    BY <1>15 DEF StartFromStore
  <2>2. /\ rows \in [Rows -> Nat]
        /\ \A row \in Rows : rows[row] = database'[row].stamp
        /\ \A row \in Rows : database'[row] = IF Outdated(row, database[row].at)
                                              THEN [stamp |-> 0, at |-> 0] ELSE database[row]
    BY <1>2, <2>1, KeptType
  <2> HIDE DEF rows
  <2>3. \A row \in Rows : RowIsSound(row)'
    <3> TAKE row \in Rows
    <3>1. RowIsSound(row) /\ database[row].stamp \in Nat /\ database[row].at \in Nat /\ acked[row] \in Nat
      BY <1>2, <1>3
    <3>2. CASE ~Outdated(row, database[row].at)
      BY <2>1, <2>2, <3>1, <3>2 DEF Outdated
    <3>3. CASE Outdated(row, database[row].at)
      <4>1. row[1] # "request" /\ Outdated(row, database[row].at) =>
              \A t \in Nat : t <= database[row].stamp => Outdated(row, t)
        BY <1>2, <3>1, YoungerStays
      <4>2. database'[row].stamp = 0 /\ database'[row].at = 0
        BY <2>2, <3>3
      <4>3. Durable(row) /\ row[1] # "request" /\ acked[row] # 0 => Outdated(row, acked[row])
        BY <1>2, <3>1, <3>3, <4>1, YoungerStays
      <4> QED
        BY <2>1, <4>2, <4>3 DEF Outdated
    <3> QED
      BY <3>2, <3>3
  <2>4. \A k \in Keys : IsBounded(k)'
    BY <1>2, <1>3, <2>1, <2>2, RowKinds
  <2>5. ASSUME NEW k \in paid' \cap ClientKeys, NEW q \in OfferTimes(k)'
        PROVE  IsCovered(k, q)'
    <3>1. k \in Keys /\ k \in paid /\ Req(k) \in Rows /\ Rcpt(k) \in Rows /\ Rcpt(k)[1] = "receipt"
      BY <1>2, <2>1, RowKinds
    <3>2. q = 0 \/ q \in OfferTimes(k)
      <4>1. \/ q = memory'[Req(k)]
            \/ q = database'[Req(k)].stamp
            \/ \E t \in saving : t.row = Req(k) /\ t.stamp = q
        BY <2>1, <2>5 DEF OfferTimes
      <4>2. memory'[Req(k)] \in {0, database'[Req(k)].stamp}
        BY <2>1, <2>2, <3>1, PrunedType
      <4>3. database'[Req(k)].stamp \in {0, database[Req(k)].stamp}
        BY <2>2, <3>1
      <4> QED
        BY <4>1, <4>2, <4>3 DEF OfferTimes
    <3>3. CASE q = 0 \/ q < now - RequestRetention
      BY <2>1, <3>3
    <3>4. CASE q # 0 /\ ~(q < now - RequestRetention)
      <4> DEFINE r == database[Rcpt(k)].stamp
      <4>1. q \in OfferTimes(k) /\ q \in Nat /\ r \in Nat /\ database[Rcpt(k)].at \in Nat
        BY <1>1, <1>2, <3>1, <3>2, <3>4, OfferTimesBound
      <4>2. r # 0 /\ q <= r + Lifetime
        BY <1>3, <3>1, <3>4, <4>1
      <4> HIDE DEF r
      <4>5. now \in Nat /\ q >= now - RequestRetention
        BY <1>2, <3>4, <4>1, ReceiptsOutliveRequests
      <4>3. ~Outdated(Rcpt(k), r)
        BY <3>1, <4>1, <4>2, <4>5, ReceiptOutlives
      <4> USE DEF r
      <4>4. ~Outdated(Rcpt(k), database[Rcpt(k)].at)
        BY <1>2, <1>3, <3>1, <4>1, <4>3, YoungerStays
      <4> QED
        BY <2>2, <3>1, <4>2, <4>4
    <3> QED
      BY <3>3, <3>4
  <2> QED
    BY <1>4, <2>3, <2>4, <2>5
<1>16. CASE Crash
  <2>1. /\ memory' = NoRows
        /\ saving' = {[s EXCEPT !.live = FALSE] : s \in saving}
        /\ UNCHANGED <<now, database, acked, paid>>
    BY <1>16 DEF Crash
  <2>2. \A t \in saving' : \E s \in saving : s.row = t.row /\ s.stamp = t.stamp
    BY <1>2, <2>1
  <2> QED
    BY <1>2, <1>5, <1>6, <1>12, <2>1, <2>2
<1>17. CASE Tick
  <2>1. now' = now + 1 /\ UNCHANGED <<database, memory, saving, acked, paid>>
    BY <1>17 DEF Tick, store
  <2>2. \A row \in Rows : RowIsSound(row)'
    <3> TAKE row \in Rows
    <3>1. Outdated(row, acked[row]) => Outdated(row, acked[row])'
      BY <1>2, <2>1, OutdatedLater DEF Outdated
    <3> QED
      BY <1>3, <2>1, <3>1
  <2>3. \A k \in Keys : IsBounded(k)'
    BY <1>2, <1>3, <2>1, RowKinds
  <2>4. ASSUME NEW k \in paid' \cap ClientKeys, NEW q \in OfferTimes(k)'
        PROVE  IsCovered(k, q)'
    <3>1. k \in Keys /\ k \in paid /\ q \in OfferTimes(k)
      BY <1>2, <2>1, <2>4 DEF OfferTimes
    <3>2. q \in Nat /\ IsCovered(k, q)
      BY <1>1, <1>3, <3>1, OfferTimesBound
    <3> QED
      BY <1>2, <2>1, <3>2
  <2> QED
    BY <1>4, <2>2, <2>3, <2>4
<1>18. CASE \/ \E k \in Keys : Infer(k)
            \/ \E p \in Owners : Claim(p)
            \/ Persist \/ PersistDone \/ PersistFails \/ Configure \/ UNCHANGED vars
  <2>1. UNCHANGED <<now, database, memory, saving, acked, paid>>
    BY <1>18 DEF Infer, Claim, Persist, PersistDone, PersistFails, Configure, vars, store
  <2> QED
    BY <1>2, <1>5, <1>6, <2>1
<1> QED
  BY <1>7, <1>8, <1>9, <1>10, <1>11, <1>13, <1>14, <1>15, <1>16, <1>17, <1>18, StepKinds

-------------------------------------------------------------------------------
(* The invariant *)

LEMMA InitSatisfiesInv == Init => LifecycleInv
<1> SUFFICES ASSUME Init
             PROVE  LifecycleInv
  OBVIOUS
<1>0. NoRows \in [Rows -> Nat] /\ \A row \in Rows : NoRows[row] = 0
  BY DEF NoRows
<1>1. TypeOK
  <2>1. EmptyFile \in Snapshots
    BY <1>0 DEF EmptyFile, Snapshots
  <2>2. database \in [Rows -> [stamp : Nat, at : Nat]]
    BY DEF Init
  <2>3. /\ 0 \in 0 .. MaxRecords
        /\ 0 \in 0 .. MaxCrashes
        /\ 0 \in 0 .. MaxFailures
    BY BoundsAssumption
  <2>4. {owner, identity, claimedBy} \subseteq Owners \cup {None}
    BY DEF Init
  <2> QED
    <3>1. file \in Snapshots /\ writing \subseteq Snapshots
      BY <2>1 DEF Init
    <3>2. /\ records \in 0 .. MaxRecords
          /\ crashes \in 0 .. MaxCrashes
          /\ failures \in 0 .. MaxFailures
      BY <2>3 DEF Init
    <3>3. memory \in [Rows -> Nat] /\ acked \in [Rows -> Nat]
      BY <1>0 DEF Init
    <3>4. /\ now \in Nat \ {0}
          /\ withStore \in BOOLEAN
          /\ mode \in {"down", "setup", "running"}
          /\ configured \in BOOLEAN
          /\ hydrated \in BOOLEAN
          /\ queued \in BOOLEAN
      <4>1. now = 1
        BY DEF Init
      <4>2. now \in Nat \ {0}
        BY <4>1
      <4>3. mode = "down" /\ configured \in BOOLEAN /\ withStore \in BOOLEAN
        BY Zenon DEF Init
      <4>4. hydrated = FALSE /\ queued = FALSE
        BY Zenon DEF Init
      <4> QED
        BY <4>2, <4>3, <4>4
    <3>5. /\ saving \subseteq [row : {row \in Rows : Durable(row)}, stamp : Nat, live : BOOLEAN]
          /\ asking \subseteq ClientKeys
          /\ paid \subseteq Keys
      <4>1. saving = {} /\ asking = {} /\ paid = {}
        BY DEF Init
      <4> QED
        BY <4>1
    <3> QED
      BY <2>2, <2>4, <3>1, <3>2, <3>3, <3>4, <3>5 DEF TypeOK
<1>2. Claims /\ SavesAreRecent /\ StakesStay
  BY DEF Init, Claims, SavesAreRecent, StakesStay
<1>3. MemoryIsSound
  BY <1>0, RowKinds, ReceiptsOutliveRequests DEF Init, MemoryIsSound, Dated, Covers, Knows
<1>4. FileIsSound
  BY <1>0, RowKinds, ReceiptsOutliveRequests
     DEF Init, FileIsSound, IsSound, EmptyFile, Dated, Covers, Knows
<1>5. StoreIsSound
  BY <1>0, RowKinds, ReceiptsOutliveRequests DEF Init, StoreIsSound
<1> QED
  BY <1>1, <1>2, <1>3, <1>4, <1>5 DEF LifecycleInv

LEMMA StepKeepsInv == LifecycleInv /\ [Next]_vars => LifecycleInv'
<1> SUFFICES ASSUME LifecycleInv, [Next]_vars
             PROVE  LifecycleInv'
  OBVIOUS
<1> QED
  BY TypeStep, ClaimStep, SavesStep, MemoryStep, FileStep, StoreStep, StakesStep DEF LifecycleInv

LEMMA LifecycleInvariant == Spec => []LifecycleInv
  BY InitSatisfiesInv, StepKeepsInv, PTL DEF Spec

-------------------------------------------------------------------------------
(* Theorems *)

(* The maps, the database, the saves under way and the files keep their types. *)
THEOREM LifecycleTypeCorrect == Spec => []TypeOK
<1>1. LifecycleInv => TypeOK
  BY DEF LifecycleInv
<1> QED
  BY <1>1, LifecycleInvariant, PTL

(* Whenever the process ends, and in whatever order saves land: what a router  *)
(* answered 200 for is in memory while it runs, until retention removes it.   *)
THEOREM AnswersSurvive == Spec => []AnsweredRowsAreKept
<1>1. LifecycleInv => AnsweredRowsAreKept
  <2> SUFFICES ASSUME LifecycleInv, mode = "running", hydrated, NEW row \in Rows,
                      acked[row] # 0, row[1] # "request", ~Outdated(row, acked[row]),
                      withStore => Durable(row)
               PROVE  memory[row] # 0
    BY DEF AnsweredRowsAreKept
  <2>1. memory[row] >= acked[row]
    BY DEF LifecycleInv, MemoryIsSound, Knows
  <2>2. memory[row] \in Nat /\ acked[row] \in Nat
    BY DEF LifecycleInv, TypeOK
  <2> QED
    BY <2>1, <2>2
<1> QED
  BY <1>1, LifecycleInvariant, PTL

(* reconcilePayments never counts a payment as missing whose receipt was       *)
(* answered for, as receipts outlive the requests they pay on every path.     *)
THEOREM PaymentsAreReconciled == Spec => []PaidIsNeverMissing
<1>1. LifecycleInv => PaidIsNeverMissing
  BY DEF LifecycleInv, MemoryIsSound, Covers, PaidIsNeverMissing, Missing, Req, Rcpt
<1> QED
  BY <1>1, LifecycleInvariant, PTL

(* Nobody else can claim a router that was claimed, whenever it ends.          *)
THEOREM OneOwner == Spec => []ClaimedOnce
<1>1. LifecycleInv => ClaimedOnce
  BY DEF LifecycleInv, Claims, ClaimedOnce
<1> QED
  BY <1>1, LifecycleInvariant, PTL

(* A snapshot that is older than the file never replaces it, although writes   *)
(* are started by a timer and may fail.                                       *)
THEOREM FilesMoveForward == Spec => FileMovesForward
<1>1. LifecycleInv /\ [Next]_vars =>
        [\A s \in Stakes :
           LET row == <<"stake", s>> IN
           (hydrated /\ ~withStore /\ file.rows[row] # 0 /\ memory[row] # 0) =>
              file'.rows[row] # 0]_vars
  <2> SUFFICES ASSUME LifecycleInv, [Next]_vars, NEW s \in Stakes, hydrated, ~withStore,
                      file.rows[<<"stake", s>>] # 0
               PROVE  file'.rows[<<"stake", s>>] # 0
    OBVIOUS
  <2>1. file' = file \/ (PersistDone /\ file' \in writing)
    BY StepKinds DEF Recorded, Recording, Infer, RemoveNode, Claim, SaveLands, SaveFails, Prune,
       Persist, PersistDone, PersistFails, StartSetup, StartFromFile, StartFromStore, StartEmpty,
       Crash, Configure, Tick, vars, disk
  <2> QED
    BY <2>1 DEF LifecycleInv, StakesStay
<1> QED
  BY <1>1, LifecycleInvariant, PTL DEF Spec, FileMovesForward

===============================================================================
