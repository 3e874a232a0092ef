---------------------------- MODULE DecisionsProofs ----------------------------
(***************************************************************************)
(* Proofs about the decisions, for every input: what a record, a machine   *)
(* and stakes are worth, which nodes are ranked first and what they ask,   *)
(* that receipts honour offers, and which relays are found.                *)
(*                                                                         *)
(* Sums over finite sets are counts of the shares of their members.  Sorted *)
(* sequences are what has each position in an order, and two of them agree *)
(* when the one's entries are the other's in some order.  Loops and folds   *)
(* keep what holds of the entries that they have seen.                     *)
(***************************************************************************)
EXTENDS Decisions, FiniteSetTheorems, SequenceTheorems, WellFoundedInduction, TLAPS

-------------------------------------------------------------------------------
(* What records and machines are worth                                        *)

(* An input has the types of its kind. *)
InputTypeOK ==
  /\ input.kind = "schedule" => input \in Schedules
  /\ input.kind = "trust" => input \in Trusts
  /\ input.kind = "machine" => input \in Machines
  /\ input.kind = "stake" => input \in Stakes
  /\ input.kind = "offer" => input \in Offers
  /\ input.kind = "receipt" => input \in Receipts
  /\ input.kind = "unpaid" => input \in Unpaids
  /\ input.kind = "relays" => input \in Discoveries

LEMMA InputsAreTyped == DecisionSpec => []InputTypeOK
<1>1. DecisionInit => InputTypeOK
  BY DEF DecisionInit, InputTypeOK
<1>2. ASSUME InputTypeOK, [DecisionNext]_input
      PROVE  InputTypeOK'
  <2>1. CASE UNCHANGED input
    BY <1>2, <2>1 DEF InputTypeOK
  <2>2. CASE input' \in Trusts \cup Machines \cup Offers
    <3>1. /\ input' \in Trusts => input'.kind = "trust"
          /\ input' \in Machines => input'.kind = "machine"
          /\ input' \in Offers => input'.kind = "offer"
      BY WeightsAssumption, PaymentsAssumption
    <3> QED
      BY <2>2, <3>1 DEF InputTypeOK
  <2>3. CASE input' \in Stakes \cup Schedules
    BY <2>3, KindsAssumption DEF InputTypeOK
  <2>4. CASE input' \in Receipts \cup Unpaids \cup Discoveries
    BY <2>4, KindsAssumption DEF InputTypeOK
  <2> QED
    BY <1>2, <2>1, <2>2, <2>3, <2>4 DEF DecisionNext
<1> QED
  BY <1>1, <1>2, PTL DEF DecisionSpec

(* The quotient of a division is the greatest number of times that the divisor fits. *)
LEMMA Quotient ==
  ASSUME NEW a \in Int, NEW b \in Nat \ {0}
  PROVE  a \div b \in Int /\ b * (a \div b) <= a /\ a < b * (a \div b) + b
  OBVIOUS

LEMMA QuotientIsGreatest ==
  ASSUME NEW a \in Int, NEW b \in Nat \ {0}, NEW q \in Int, b * q <= a
  PROVE  q <= a \div b
<1> DEFINE d == a \div b
<1>1. d \in Int /\ a < b * d + b
  BY Quotient
<1> HIDE DEF d
<1>2. b * q < b * (d + 1)
  BY <1>1
<1>3. q < d + 1
  BY <1>1, <1>2
<1> QED
  BY <1>1, <1>3 DEF d

(* What is left of the manifest's points falls with every sample. *)
LEMMA ManifestFades ==
  ASSUME NEW points \in Nat, NEW n \in 0 .. 20, NEW m \in 0 .. 20, m <= n
  PROVE  /\ Weights!RoundDiv(points * m, 20) \in Int
         /\ Weights!RoundDiv(points * n, 20) \in Int
         /\ Weights!RoundDiv(points * m, 20) <= Weights!RoundDiv(points * n, 20)
<1> DEFINE x == points * m
           y == points * n
<1>1. x \in Nat /\ y \in Nat /\ x <= y
  <2>1. n - m \in Nat
    OBVIOUS
  <2>2. points * (n - m) \in Nat
    BY <2>1
  <2>3. y = x + points * (n - m)
    BY <2>1
  <2>4. x \in Nat /\ y \in Nat
    OBVIOUS
  <2> QED
    BY <2>2, <2>3, <2>4
<1> HIDE DEF x, y
<1>2. (2 * x + 20) \div 40 <= (2 * y + 20) \div 40
  BY <1>1
<1>3. Weights!RoundDiv(x, 20) \in Int /\ Weights!RoundDiv(y, 20) \in Int
  BY <1>1 DEF Weights!RoundDiv
<1>4. Weights!RoundDiv(x, 20) <= Weights!RoundDiv(y, 20)
  BY <1>1, <1>2 DEF Weights!RoundDiv
<1> QED
  BY <1>3, <1>4 DEF x, y

(* One failure more among T samples does not raise a rate of successes ...     *)
LEMMA RateFalls ==
  ASSUME NEW g \in Nat, NEW T \in Nat \ {0}
  PROVE  /\ Weights!RoundDiv(100 * g - 90 * T, T) \in Int
         /\ Weights!RoundDiv(100 * g - 90 * (T + 1), T + 1) \in Int
         /\ Weights!RoundDiv(100 * g - 90 * (T + 1), T + 1) <= Weights!RoundDiv(100 * g - 90 * T, T)
<1> DEFINE a == 2 * (100 * g - 90 * T) + T
           b == 2 * (100 * g - 90 * (T + 1)) + (T + 1)
           q == b \div (2 * (T + 1))
<1>1. a \in Int /\ b \in Int /\ 2 * T \in Nat \ {0} /\ 2 * (T + 1) \in Nat \ {0}
  OBVIOUS
<1>2. q \in Int /\ 2 * (T + 1) * q <= b /\ a \div (2 * T) \in Int
  BY <1>1, Quotient
<1>3. a = 200 * g - 179 * T /\ b = 200 * g - 179 * T - 179
  OBVIOUS
<1>4. (2 * T) * q <= a
  <2> HIDE DEF a, b, q
  <2> DEFINE s == 2 * q + 179
             st == s * T
  <2>1. s \in Int /\ st \in Int
    BY <1>2
  <2>2. st = 2 * T * q + 179 * T /\ st + s = 2 * (T + 1) * q + 179 * T + 179
    BY <1>2
  <2>3. st + s <= 200 * g
    BY <1>1, <1>2, <1>3, <2>2
  <2>4. st <= 200 * g
    <3>1. CASE s >= 0
      BY <2>1, <2>3, <3>1
    <3>2. CASE s < 0
      <4>1. s * T <= 0
        BY <2>1, <3>2
      <4> QED
        BY <2>1, <4>1
    <3> QED
      BY <2>1, <3>1, <3>2
  <2> HIDE DEF s, st
  <2> QED
    BY <1>1, <1>2, <1>3, <2>1, <2>2, <2>4
<1>5. q <= a \div (2 * T)
  BY <1>1, <1>2, <1>4, QuotientIsGreatest
<1> QED
  BY <1>2, <1>5 DEF Weights!RoundDiv

(* ... and does not lower a rate of failures. *)
LEMMA RateRises ==
  ASSUME NEW f \in Nat, NEW T \in Nat \ {0}, f <= T
  PROVE  /\ Weights!RoundDiv(20 * f, T) \in Nat
         /\ Weights!RoundDiv(20 * (f + 1), T + 1) \in Nat
         /\ Weights!RoundDiv(20 * f, T) <= Weights!RoundDiv(20 * (f + 1), T + 1)
<1> DEFINE a == 2 * (20 * f) + T
           b == 2 * (20 * (f + 1)) + (T + 1)
           q == a \div (2 * T)
           r == b \div (2 * (T + 1))
<1>1. a \in Nat /\ b \in Nat /\ 2 * T \in Nat \ {0} /\ 2 * (T + 1) \in Nat \ {0}
  OBVIOUS
<1>2. q \in Int /\ 2 * T * q <= a /\ r \in Int
  BY <1>1, Quotient
<1>3. a = 40 * f + T /\ b = 40 * f + T + 41
  OBVIOUS
<1>4. q >= 0 /\ r >= 0
  BY <1>1, QuotientIsGreatest
<1>5. q <= 20
  <2> HIDE DEF a, b, q, r
  <2>1. 2 * T * q <= 41 * T
    BY <1>2, <1>3
  <2>2. T * (41 - 2 * q) >= 0
    BY <1>2, <2>1
  <2>3. 41 - 2 * q >= 0
    BY <1>2, <2>2
  <2> QED
    BY <1>2, <2>3
<1>6. (2 * (T + 1)) * q <= b
  <2> HIDE DEF a, b, q, r
  <2>1. (2 * (T + 1)) * q = 2 * T * q + 2 * q
    BY <1>2
  <2> QED
    BY <1>1, <1>2, <1>3, <1>5, <2>1
<1>7. q <= r
  <2> HIDE DEF a, b, q
  <2> QED
    BY <1>1, <1>2, <1>6, QuotientIsGreatest
<1> QED
  BY <1>2, <1>4, <1>7 DEF Weights!RoundDiv

(* One failure more: less of the manifest, no better a record, no smaller a penalty. *)
LEMMA FailureWeighs ==
  ASSUME NEW h \in Health, NEW points \in Nat
  PROVE  LET f == Weights!Failed(h) IN
         /\ Weights!RoundDiv(points * Weights!ManifestDecay(f), 20)
              <= Weights!RoundDiv(points * Weights!ManifestDecay(h), 20)
         /\ Weights!PerformanceBonus(f) <= Weights!PerformanceBonus(h)
         /\ Weights!FailurePenalty(h) <= Weights!FailurePenalty(f)
         /\ {Weights!RoundDiv(points * Weights!ManifestDecay(f), 20),
             Weights!RoundDiv(points * Weights!ManifestDecay(h), 20),
             Weights!PerformanceBonus(f), Weights!PerformanceBonus(h),
             Weights!FailurePenalty(h), Weights!FailurePenalty(f)} \subseteq Int
<1> DEFINE f == Weights!Failed(h)
           T == Weights!Total(h)
<1>1. /\ h.good \in Nat /\ h.bad \in Nat /\ h.streak \in Nat
      /\ f.good = h.good /\ f.bad = h.bad + 1 /\ f.streak = h.streak + 1
  BY DEF Health, Weights!Failed
<1>2. /\ T \in Nat /\ T = h.good + h.bad
      /\ Weights!Total(f) = T + 1
  BY <1>1 DEF Weights!Total
<1> HIDE DEF f, T
<1>3. /\ Weights!RoundDiv(points * Weights!ManifestDecay(f), 20) \in Int
      /\ Weights!RoundDiv(points * Weights!ManifestDecay(h), 20) \in Int
      /\ Weights!RoundDiv(points * Weights!ManifestDecay(f), 20)
           <= Weights!RoundDiv(points * Weights!ManifestDecay(h), 20)
  <2>1. /\ Weights!ManifestDecay(h) \in 0 .. 20 /\ Weights!ManifestDecay(f) \in 0 .. 20
        /\ Weights!ManifestDecay(f) <= Weights!ManifestDecay(h)
    BY <1>2 DEF Weights!ManifestDecay, Weights!Lesser, T
  <2> QED
    BY <2>1, ManifestFades
<1>4. /\ Weights!PerformanceBonus(f) \in Int /\ Weights!PerformanceBonus(h) \in Int
      /\ Weights!PerformanceBonus(f) <= Weights!PerformanceBonus(h)
  <2>1. CASE T < 9
    <3>1. Weights!PerformanceBonus(f) = 0 /\ Weights!PerformanceBonus(h) = 0
      BY <1>2, <2>1 DEF Weights!PerformanceBonus, T
    <3> QED
      BY <3>1
  <2>2. CASE T = 9
    <3>1. /\ Weights!PerformanceBonus(h) = 0
          /\ Weights!PerformanceBonus(f) =
               Weights!Greater(-10, Weights!Lesser(10, Weights!RoundDiv(100 * h.good - 900, 10)))
      BY <1>1, <1>2, <2>2 DEF Weights!PerformanceBonus, T
    <3>2. h.good <= 9
      BY <1>1, <1>2, <2>2
    <3>3. /\ Weights!RoundDiv(100 * h.good - 900, 10) \in Int
          /\ Weights!RoundDiv(100 * h.good - 900, 10) <= 0
      BY <1>1, <3>2 DEF Weights!RoundDiv
    <3> QED
      BY <3>1, <3>3 DEF Weights!Greater, Weights!Lesser
  <2>3. CASE T >= 10
    <3> DEFINE old == Weights!RoundDiv(100 * h.good - 90 * T, T)
               new == Weights!RoundDiv(100 * h.good - 90 * (T + 1), T + 1)
    <3>1. old \in Int /\ new \in Int /\ new <= old
      BY <1>1, <1>2, <2>3, RateFalls
    <3>2. /\ Weights!PerformanceBonus(h) = Weights!Greater(-10, Weights!Lesser(10, old))
          /\ Weights!PerformanceBonus(f) = Weights!Greater(-10, Weights!Lesser(10, new))
      BY <1>1, <1>2, <2>3 DEF Weights!PerformanceBonus, T
    <3> HIDE DEF old, new
    <3> QED
      BY <3>1, <3>2 DEF Weights!Greater, Weights!Lesser
  <2> QED
    BY <1>2, <2>1, <2>2, <2>3
<1>5. /\ Weights!FailurePenalty(h) \in Int /\ Weights!FailurePenalty(f) \in Int
      /\ Weights!FailurePenalty(h) <= Weights!FailurePenalty(f)
  <2> DEFINE old == IF T >= 5 THEN Weights!Lesser(20, Weights!RoundDiv(20 * h.bad, T)) ELSE 0
             new == IF T + 1 >= 5
                    THEN Weights!Lesser(20, Weights!RoundDiv(20 * (h.bad + 1), T + 1)) ELSE 0
  <2>1. old \in Nat /\ new \in Nat /\ old <= new
    <3>1. CASE T >= 5
      <4>1. /\ Weights!RoundDiv(20 * h.bad, T) \in Nat
            /\ Weights!RoundDiv(20 * (h.bad + 1), T + 1) \in Nat
            /\ Weights!RoundDiv(20 * h.bad, T) <= Weights!RoundDiv(20 * (h.bad + 1), T + 1)
        BY <1>1, <1>2, <3>1, RateRises
      <4> QED
        BY <1>2, <3>1, <4>1 DEF Weights!Lesser
    <3>2. CASE T < 5
      <4>1. T > 0 /\ h.bad <= T => Weights!RoundDiv(20 * (h.bad + 1), T + 1) \in Nat
        BY <1>1, <1>2, RateRises
      <4> QED
        BY <1>1, <1>2, <3>2, <4>1 DEF Weights!Lesser
    <3> QED
      BY <1>2, <3>1, <3>2
  <2>2. /\ Weights!FailurePenalty(h)
             = Weights!Lesser(30, old + Weights!Lesser(20, 5 * h.streak))
        /\ Weights!FailurePenalty(f)
             = Weights!Lesser(30, new + Weights!Lesser(20, 5 * (h.streak + 1)))
    BY <1>1, <1>2 DEF Weights!FailurePenalty, T
  <2> HIDE DEF old, new
  <2> QED
    BY <1>1, <2>1, <2>2 DEF Weights!Lesser
<1> QED
  BY <1>3, <1>4, <1>5 DEF f

(* A failure never raises the trust that a node is ranked with, whatever its record, its  *)
(* manifest and its stake.                                                               *)
THEOREM FailuresNeverRaiseTrust == DecisionSpec => []FailuresNeverHelp
<1>1. InputTypeOK => FailuresNeverHelp
  <2> SUFFICES ASSUME InputTypeOK, input.kind = "trust"
               PROVE  Weights!WeightedTrust(input.claimed, input.points, input.units,
                                            Weights!Failed(input.health))
                        <= Weights!WeightedTrust(input.claimed, input.points, input.units,
                                                 input.health)
    BY DEF FailuresNeverHelp
  <2>1. /\ input.health \in Health /\ input.points \in Nat /\ input.claimed \in Nat
        /\ input.units \in Nat
    BY WeightsAssumption DEF InputTypeOK
  <2>2. Weights!StakeScore(input.units) \in Int
    BY <2>1 DEF Weights!StakeScore, Weights!Lesser
  <2> QED
    BY <2>1, <2>2, FailureWeighs DEF Weights!WeightedTrust, Weights!Greater, Weights!Lesser
<1> QED
  BY <1>1, InputsAreTyped, PTL

(* The points of a machine, by what each of its bands is. *)
LEMMA PointsOfBands ==
  ASSUME NEW m \in Machine
  PROVE  Weights!ManifestScore(Weights!CapabilityBands(m)) = Weights!Lesser(100,
           (IF Weights!CpuBand(m) = "cpu_high" THEN 30
            ELSE IF Weights!CpuBand(m) = "cpu_mid" THEN 15 ELSE 0)
           + (IF Weights!RamBand(m) = "ram_64_plus" THEN 25
              ELSE IF Weights!RamBand(m) = "ram_32" THEN 15
              ELSE IF Weights!RamBand(m) = "ram_16" THEN 5 ELSE 0)
           + (IF Weights!GpuBand(m) = "gpu_24gb_plus" THEN 20
              ELSE IF Weights!GpuBand(m) = "gpu_16gb" THEN 10
              ELSE IF Weights!GpuBand(m) = "gpu_8gb" THEN 5 ELSE 0)
           + (IF Weights!DiskBand(m) = "disk_ssd" THEN 10 ELSE 0)
           + (IF Weights!NetBand(m) = "net_good" THEN 10 ELSE 0))
  BY DEF Weights!ManifestScore, Weights!CapabilityBands, Machine, Weights!CpuBand,
         Weights!RamBand, Weights!GpuBand, Weights!DiskBand, Weights!NetBand

(* A disk is fast where it is known to be one. *)
LEMMA FastDisks ==
  ASSUME NEW m \in Machine
  PROVE  Weights!DiskBand(m) = "disk_ssd" <=> m.disk = "ssd"
<1>1. m.disk \in {"ssd", "hdd", "unknown"}
  BY DEF Machine
<1>2. CASE m.disk = "ssd"
  BY <1>2 DEF Weights!DiskBand
<1>3. CASE m.disk = "hdd"
  BY <1>3 DEF Weights!DiskBand
<1>4. CASE m.disk = "unknown"
  BY <1>4 DEF Weights!DiskBand
<1> QED
  BY <1>1, <1>2, <1>3, <1>4

(* The points, the roles and the eligibility rise with the machine, band by band. *)
LEMMA BandsRise ==
  ASSUME NEW m \in Machine, NEW b \in Machine, AtLeast(b, m)
  PROVE  /\ Weights!ManifestScore(Weights!CapabilityBands(m))
              <= Weights!ManifestScore(Weights!CapabilityBands(b))
         /\ Weights!NodeProfiles(Weights!CapabilityBands(m))
              \subseteq Weights!NodeProfiles(Weights!CapabilityBands(b))
         /\ Weights!RouterEligible(m, Weights!CapabilityBands(m), TRUE)
              => Weights!RouterEligible(b, Weights!CapabilityBands(b), TRUE)
<1> DEFINE Cpu(x)  == IF Weights!CpuBand(x) = "cpu_high" THEN 30
                      ELSE IF Weights!CpuBand(x) = "cpu_mid" THEN 15 ELSE 0
           Ram(x)  == IF Weights!RamBand(x) = "ram_64_plus" THEN 25
                      ELSE IF Weights!RamBand(x) = "ram_32" THEN 15
                      ELSE IF Weights!RamBand(x) = "ram_16" THEN 5 ELSE 0
           Gpu(x)  == IF Weights!GpuBand(x) = "gpu_24gb_plus" THEN 20
                      ELSE IF Weights!GpuBand(x) = "gpu_16gb" THEN 10
                      ELSE IF Weights!GpuBand(x) = "gpu_8gb" THEN 5 ELSE 0
           Disk(x) == IF Weights!DiskBand(x) = "disk_ssd" THEN 10 ELSE 0
           Net(x)  == IF Weights!NetBand(x) = "net_good" THEN 10 ELSE 0
<1>1. /\ m.cores \in Nat /\ m.gb \in Nat /\ m.vram \in Nat
      /\ b.cores \in Nat /\ b.gb \in Nat /\ b.vram \in Nat
      /\ m.latency = Weights!Unset \/ m.latency \in Nat
      /\ b.latency = Weights!Unset \/ b.latency \in Nat
  BY DEF Machine, OrUnset, Weights!Unset
<1>2. /\ m.x64 => b.x64
      /\ m.avx2 => b.avx2
      /\ m.disk = "ssd" => b.disk = "ssd"
      /\ b.cores >= m.cores /\ b.gb >= m.gb /\ b.vram >= m.vram
      /\ m.latency # Weights!Unset => b.latency # Weights!Unset /\ b.latency <= m.latency
  BY DEF AtLeast
<1>3. /\ Cpu(m) \in Nat /\ Cpu(b) \in Nat /\ Cpu(m) <= Cpu(b)
      /\ Weights!CpuBand(m) = "cpu_high" => Weights!CpuBand(b) = "cpu_high"
      /\ Weights!CpuBand(m) # "cpu_low" => Weights!CpuBand(b) # "cpu_low"
  BY <1>1, <1>2 DEF Weights!CpuBand
<1>4. /\ Ram(m) \in Nat /\ Ram(b) \in Nat /\ Ram(m) <= Ram(b)
      /\ Weights!RamBand(m) \in {"ram_32", "ram_64_plus"}
           => Weights!RamBand(b) \in {"ram_32", "ram_64_plus"}
  BY <1>1, <1>2 DEF Weights!RamBand
<1>5. /\ Gpu(m) \in Nat /\ Gpu(b) \in Nat /\ Gpu(m) <= Gpu(b)
      /\ Weights!GpuBand(m) # "gpu_none" => Weights!GpuBand(b) # "gpu_none"
  BY <1>1, <1>2 DEF Weights!GpuBand
<1>6. /\ Disk(m) \in Nat /\ Disk(b) \in Nat /\ Disk(m) <= Disk(b)
      /\ Weights!DiskBand(m) = "disk_ssd" => Weights!DiskBand(b) = "disk_ssd"
  BY <1>2, FastDisks
<1>7. Net(m) \in Nat /\ Net(b) \in Nat /\ Net(m) <= Net(b)
  BY <1>1, <1>2 DEF Weights!NetBand, Weights!Unset
<1>8. Weights!ManifestScore(Weights!CapabilityBands(m))
        <= Weights!ManifestScore(Weights!CapabilityBands(b))
  <2>1. /\ Weights!ManifestScore(Weights!CapabilityBands(m))
             = Weights!Lesser(100, Cpu(m) + Ram(m) + Gpu(m) + Disk(m) + Net(m))
        /\ Weights!ManifestScore(Weights!CapabilityBands(b))
             = Weights!Lesser(100, Cpu(b) + Ram(b) + Gpu(b) + Disk(b) + Net(b))
    BY PointsOfBands
  <2> HIDE DEF Cpu, Ram, Gpu, Disk, Net
  <2> QED
    BY <1>3, <1>4, <1>5, <1>6, <1>7, <2>1 DEF Weights!Lesser
<1>9. /\ Weights!CapabilityBands(m).cpu = Weights!CpuBand(m)
      /\ Weights!CapabilityBands(m).ram = Weights!RamBand(m)
      /\ Weights!CapabilityBands(m).gpu = Weights!GpuBand(m)
      /\ Weights!CapabilityBands(m).disk = Weights!DiskBand(m)
      /\ Weights!CapabilityBands(b).cpu = Weights!CpuBand(b)
      /\ Weights!CapabilityBands(b).ram = Weights!RamBand(b)
      /\ Weights!CapabilityBands(b).gpu = Weights!GpuBand(b)
      /\ Weights!CapabilityBands(b).disk = Weights!DiskBand(b)
  BY DEF Weights!CapabilityBands
<1>10. Weights!NodeProfiles(Weights!CapabilityBands(m))
         \subseteq Weights!NodeProfiles(Weights!CapabilityBands(b))
  <2> HIDE DEF Cpu, Ram, Gpu, Disk, Net
  <2> QED
    BY <1>3, <1>4, <1>5, <1>9
      DEF Weights!NodeProfiles, Weights!LowSpecRoles, Weights!HighSpecRoles
<1>11. Weights!RouterEligible(m, Weights!CapabilityBands(m), TRUE)
         => Weights!RouterEligible(b, Weights!CapabilityBands(b), TRUE)
  <2> HIDE DEF Cpu, Ram, Gpu, Disk, Net
  <2> QED
    BY <1>1, <1>2, <1>6, <1>9 DEF Weights!RouterEligible
<1> QED
  BY <1>8, <1>10, <1>11

(* A machine that is no worse than another in any respect has no fewer points of trust    *)
(* and every role and eligibility of the other: whatever the two machines are.           *)
THEOREM BetterMachinesAreTrusted == DecisionSpec => []BetterMachinesGetNoLess
<1>1. InputTypeOK => BetterMachinesGetNoLess
  <2> SUFFICES ASSUME InputTypeOK, input.kind = "machine", AtLeast(input.better, input.machine)
               PROVE  BetterMachinesGetNoLess
    BY DEF BetterMachinesGetNoLess
  <2>1. input.machine \in Machine /\ input.better \in Machine
    BY WeightsAssumption DEF InputTypeOK
  <2> QED
    BY <2>1, BandsRise DEF BetterMachinesGetNoLess
<1> QED
  BY <1>1, InputsAreTyped, PTL

-------------------------------------------------------------------------------
(* What stakes are worth                                                       *)

(* As many pairs as the weights w of S are together. *)
Shares(w, S) == UNION {{i} \X (1 .. w[i]) : i \in S}

LEMMA IntervalCounts ==
  ASSUME NEW n \in Nat
  PROVE  IsFiniteSet(1 .. n) /\ Cardinality(1 .. n) = n
  BY FS_Interval

LEMMA SharesAreFinite ==
  ASSUME NEW w, NEW S, IsFiniteSet(S), \A i \in S : w[i] \in Nat
  PROVE  IsFiniteSet(Shares(w, S)) /\ Cardinality(Shares(w, S)) \in Nat
<1> DEFINE f == [i \in S |-> {i} \X (1 .. w[i])]
           T == {{i} \X (1 .. w[i]) : i \in S}
<1>1. f \in Surjection(S, T)
  BY DEF Surjection
<1>2. IsFiniteSet(T)
  BY <1>1, FS_Surjection
<1>3. ASSUME NEW i \in S PROVE IsFiniteSet({i} \X (1 .. w[i]))
  <2>1. IsFiniteSet({i})
    BY FS_Singleton
  <2>2. IsFiniteSet(1 .. w[i])
    BY IntervalCounts
  <2> QED
    BY <2>1, <2>2, FS_Product
<1>4. \A x \in T : IsFiniteSet(x)
  BY <1>3
<1>5. IsFiniteSet(UNION T)
  <2> HIDE DEF T
  <2> QED
    BY <1>2, <1>4, FS_UNION
<1> QED
  BY <1>5, FS_CardinalityType DEF Shares

LEMMA ShareOfOne ==
  ASSUME NEW w, NEW S, IsFiniteSet(S), \A i \in S : w[i] \in Nat, NEW x \in S
  PROVE  Cardinality(Shares(w, S)) = w[x] + Cardinality(Shares(w, S \ {x}))
<1> DEFINE mine == {x} \X (1 .. w[x])
           rest == Shares(w, S \ {x})
<1>1. IsFiniteSet(S \ {x})
  BY FS_RemoveElement
<1>2. IsFiniteSet(rest) /\ Cardinality(rest) \in Nat
  BY <1>1, SharesAreFinite
<1>3. IsFiniteSet(mine) /\ Cardinality(mine) = w[x]
  <2>1. IsFiniteSet({x}) /\ Cardinality({x}) = 1
    BY FS_Singleton
  <2>2. IsFiniteSet(1 .. w[x]) /\ Cardinality(1 .. w[x]) = w[x]
    BY IntervalCounts
  <2>3. IsFiniteSet(mine) /\ Cardinality(mine) = 1 * w[x]
    BY <2>1, <2>2, FS_Product
  <2> QED
    BY <2>3
<1>4. Shares(w, S) = mine \cup rest
  BY DEF Shares
<1>5. mine \cap rest = {}
  <2> SUFFICES ASSUME NEW p \in mine, p \in rest PROVE FALSE
    OBVIOUS
  <2>1. PICK i \in S \ {x} : p \in {i} \X (1 .. w[i])
    BY DEF Shares
  <2> QED
    BY <2>1
<1> HIDE DEF mine, rest
<1>6. Cardinality(mine \cap rest) = 0
  BY <1>5, FS_EmptySet
<1>7. Cardinality(mine \cup rest)
        = Cardinality(mine) + Cardinality(rest) - Cardinality(mine \cap rest)
  BY <1>2, <1>3, FS_Union
<1> QED
  BY <1>2, <1>3, <1>4, <1>6, <1>7 DEF rest

(* Numbers have a least. *)
LEMMA LeastOf ==
  ASSUME NEW I \in SUBSET Nat, I # {}
  PROVE  \E i \in I : \A j \in I : i <= j
<1>1. \E i \in I : \A j \in I : ~ (<<j, i>> \in OpToRel(<, Nat))
  BY WFMin, NatLessThanWellFounded, Zenon
<1>2. PICK i \in I : \A j \in I : ~ (<<j, i>> \in OpToRel(<, Nat))
  BY <1>1, Zenon
<1>3. \A j \in I : ~ (j < i)
  BY <1>2 DEF OpToRel
<1> QED
  BY <1>3

(* F adds up the weights of every part of S, an entry at a time, as the fold does. *)
Pick(s) == CHOOSE x \in s : TRUE
AddsUp(F, w, S) ==
  F = [s \in SUBSET S |-> IF s = {} THEN 0 ELSE w[Pick(s)] + F[s \ {Pick(s)}]]

(* The number of the pairs adds up ... *)
LEMMA SharesAddUp ==
  ASSUME NEW w, NEW S, IsFiniteSet(S), \A i \in S : w[i] \in Nat
  PROVE  AddsUp([s \in SUBSET S |-> Cardinality(Shares(w, s))], w, S)
<1> DEFINE Count == [s \in SUBSET S |-> Cardinality(Shares(w, s))]
<1>1. ASSUME NEW s \in SUBSET S, s # {}
      PROVE  Count[s] = w[Pick(s)] + Count[s \ {Pick(s)}]
  <2>1. Pick(s) \in s
    BY <1>1 DEF Pick
  <2>2. IsFiniteSet(s)
    BY FS_Subset
  <2>3. Cardinality(Shares(w, s)) = w[Pick(s)] + Cardinality(Shares(w, s \ {Pick(s)}))
    BY <2>1, <2>2, ShareOfOne
  <2>4. s \ {Pick(s)} \in SUBSET S
    OBVIOUS
  <2> QED
    BY <2>3, <2>4
<1>2. Count[{}] = 0
  <2>1. Shares(w, {}) = {}
    BY DEF Shares
  <2> QED
    BY <2>1, FS_EmptySet
<1>3. \A s \in SUBSET S :
        Count[s] = IF s = {} THEN 0 ELSE w[Pick(s)] + Count[s \ {Pick(s)}]
  BY <1>1, <1>2
<1>4. Count = [s \in SUBSET S |-> Count[s]]
  OBVIOUS
<1> HIDE DEF Count
<1>5. AddsUp(Count, w, S)
  BY <1>3, <1>4 DEF AddsUp
<1> QED
  BY <1>5 DEF Count

(* ... and nothing else does, or else there were a least set where it does not.       *)
LEMMA OnlySharesAddUp ==
  ASSUME NEW w, NEW S, IsFiniteSet(S), \A i \in S : w[i] \in Nat, NEW F, AddsUp(F, w, S)
  PROVE  F[S] = Cardinality(Shares(w, S))
<1> DEFINE Count == [s \in SUBSET S |-> Cardinality(Shares(w, s))]
<1>1. AddsUp(Count, w, S)
  BY SharesAddUp
<1> HIDE DEF Count
<1>2. ASSUME NEW s \in SUBSET S, F[s] # Count[s]
      PROVE  s # {} /\ Pick(s) \in s /\ F[s \ {Pick(s)}] # Count[s \ {Pick(s)}]
  <2>1. /\ F[s] = IF s = {} THEN 0 ELSE w[Pick(s)] + F[s \ {Pick(s)}]
        /\ Count[s] = IF s = {} THEN 0 ELSE w[Pick(s)] + Count[s \ {Pick(s)}]
    BY <1>1 DEF AddsUp
  <2>2. s # {}
    BY <1>2, <2>1
  <2> QED
    BY <1>2, <2>1, <2>2 DEF Pick
<1> DEFINE wrong == {n \in Nat : \E s \in SUBSET S : Cardinality(s) = n /\ F[s] # Count[s]}
<1>3. F[S] = Count[S]
  <2> SUFFICES ASSUME F[S] # Count[S] PROVE FALSE
    OBVIOUS
  <2>1. wrong \in SUBSET Nat /\ wrong # {}
    BY FS_CardinalityType
  <2>2. PICK n \in wrong : \A k \in wrong : n <= k
    <3> HIDE DEF wrong
    <3> QED
      BY <2>1, LeastOf
  <2>3. PICK s \in SUBSET S : Cardinality(s) = n /\ F[s] # Count[s]
    OBVIOUS
  <2> DEFINE r == s \ {Pick(s)}
  <2>4. Pick(s) \in s /\ F[r] # Count[r] /\ r \in SUBSET S
    BY <1>2, <2>3
  <2>5. IsFiniteSet(s) /\ IsFiniteSet(r)
    BY FS_Subset
  <2>6. Cardinality(r) = n - 1 /\ Cardinality(r) \in Nat
    BY <2>3, <2>4, <2>5, FS_RemoveElement, FS_CardinalityType
  <2>7. Cardinality(r) \in wrong /\ n \in Nat
    BY <2>4, <2>6
  <2> HIDE DEF wrong, r
  <2> QED
    BY <2>2, <2>6, <2>7
<1> QED
  BY <1>3 DEF Count

(* The units of the entries S of a map. *)
Units(rec, S) == Weights!MapThenSumSet(LAMBDA i : rec[i].units, S)
UnitsOf(rec, S) == [i \in S |-> rec[i].units]

LEMMA UnitsAreCounted ==
  ASSUME NEW rec, NEW S, IsFiniteSet(S), \A i \in S : rec[i].units \in Nat
  PROVE  Units(rec, S) = Cardinality(Shares(UnitsOf(rec, S), S))
<1> DEFINE w == UnitsOf(rec, S)
           IsFold(F) == F = [s \in SUBSET S |->
                          IF s = {} THEN 0 ELSE rec[Pick(s)].units + F[s \ {Pick(s)}]]
           fold == CHOOSE F : IsFold(F)
<1>1. Units(rec, S) = fold[S]
  BY DEF Units, Pick, Weights!MapThenSumSet, Weights!MapThenFoldSet
<1>2. \A i \in S : w[i] \in Nat /\ w[i] = rec[i].units
  BY DEF UnitsOf
<1>3. \A F : IsFold(F) <=> AddsUp(F, w, S)
  <2> TAKE F
  <2>1. ASSUME NEW s \in SUBSET S, s # {} PROVE rec[Pick(s)].units = w[Pick(s)]
    BY <1>2, <2>1 DEF Pick
  <2> HIDE DEF w
  <2>2. [s \in SUBSET S |-> IF s = {} THEN 0 ELSE rec[Pick(s)].units + F[s \ {Pick(s)}]]
          = [s \in SUBSET S |-> IF s = {} THEN 0 ELSE w[Pick(s)] + F[s \ {Pick(s)}]]
    BY <2>1
  <2> QED
    BY <2>2 DEF AddsUp
<1>4. \E F : IsFold(F)
  <2> HIDE DEF w, IsFold
  <2> QED
    BY <1>2, <1>3, SharesAddUp
<1>5. IsFold(fold)
  <2> HIDE DEF IsFold
  <2> QED
    BY <1>4
<1> HIDE DEF fold, IsFold, w
<1>6. AddsUp(fold, w, S)
  BY <1>3, <1>5
<1> QED
  BY <1>1, <1>2, <1>6, OnlySharesAddUp DEF w

(* The same units of more entries are no less. *)
LEMMA UnitsGrow ==
  ASSUME NEW rec, NEW S, NEW T, IsFiniteSet(T), \A i \in T : rec[i].units \in Nat, S \subseteq T
  PROVE  Units(rec, S) \in Nat /\ Units(rec, T) \in Nat /\ Units(rec, S) <= Units(rec, T)
<1> DEFINE shares(I) == Shares(UnitsOf(rec, I), I)
<1>1. IsFiniteSet(S)
  BY FS_Subset
<1>2. Units(rec, S) = Cardinality(shares(S)) /\ Units(rec, T) = Cardinality(shares(T))
  BY <1>1, UnitsAreCounted
<1>3. shares(S) \in SUBSET shares(T)
  BY DEF Shares, UnitsOf
<1>4. /\ IsFiniteSet(shares(T)) /\ Cardinality(shares(T)) \in Nat
      /\ Cardinality(shares(S)) \in Nat
  <2>1. /\ \A i \in S : UnitsOf(rec, S)[i] \in Nat
        /\ \A i \in T : UnitsOf(rec, T)[i] \in Nat
    BY DEF UnitsOf
  <2> QED
    BY <1>1, <2>1, SharesAreFinite
<1> HIDE DEF shares
<1> QED
  BY <1>2, <1>3, <1>4, FS_Subset

(* Only the units of an entry count. *)
LEMMA UnitsOfSame ==
  ASSUME NEW f, NEW g, NEW S, IsFiniteSet(S),
         \A i \in S : f[i].units \in Nat /\ g[i].units = f[i].units
  PROVE  Units(f, S) = Units(g, S)
<1>1. UnitsOf(f, S) = UnitsOf(g, S)
  BY DEF UnitsOf
<1>2. /\ Units(f, S) = Cardinality(Shares(UnitsOf(f, S), S))
      /\ Units(g, S) = Cardinality(Shares(UnitsOf(g, S), S))
  BY UnitsAreCounted
<1> QED
  BY <1>1, <1>2

Live(commits, a, t) == {i \in DOMAIN commits : commits[i].actor = a /\ commits[i].expires > t}
Slashed(slashes, a) == {i \in DOMAIN slashes : slashes[i].actor = a}

LEMMA UnitsOfStores ==
  ASSUME NEW store, NEW a, NEW t
  PROVE  /\ Weights!LiveUnits(store, a, t) = Units(store.commits, Live(store.commits, a, t))
         /\ Weights!SlashedUnits(store, a) = Units(store.slashes, Slashed(store.slashes, a))
  BY DEF Weights!LiveUnits, Weights!SlashedUnits, Units, Live, Slashed

IsStore(s) ==
  /\ s = [commits |-> s.commits, slashes |-> s.slashes]
  /\ Finite(s.commits, Commit)
  /\ Finite(s.slashes, Slash)

LEMMA LiveUnitsFall ==
  ASSUME NEW s, IsStore(s), NEW a, NEW t \in Int
  PROVE  /\ Weights!LiveUnits(s, a, t) \in Nat
         /\ Weights!LiveUnits(s, a, t + 1) \in Nat
         /\ Weights!LiveUnits(s, a, t + 1) <= Weights!LiveUnits(s, a, t)
         /\ Weights!SlashedUnits(s, a) \in Nat
<1> DEFINE live == Live(s.commits, a, t)
           later == Live(s.commits, a, t + 1)
           gone == Slashed(s.slashes, a)
<1>1. /\ IsFiniteSet(DOMAIN s.commits) /\ IsFiniteSet(DOMAIN s.slashes)
      /\ \A i \in DOMAIN s.commits : s.commits[i].units \in Nat /\ s.commits[i].expires \in Int
      /\ \A i \in DOMAIN s.slashes : s.slashes[i].units \in Nat
  BY DEF IsStore, Finite, Commit, Slash
<1>2. live \in SUBSET DOMAIN s.commits /\ gone \in SUBSET DOMAIN s.slashes
  BY DEF Live, Slashed
<1>3. IsFiniteSet(live) /\ IsFiniteSet(gone)
  BY <1>1, <1>2, FS_Subset
<1>4. later \subseteq live
  BY <1>1 DEF Live
<1>5. /\ Units(s.commits, live) \in Nat /\ Units(s.commits, later) \in Nat
      /\ Units(s.commits, later) <= Units(s.commits, live)
  <2> HIDE DEF live, later
  <2> QED
    BY <1>1, <1>2, <1>3, <1>4, UnitsGrow
<1>6. Units(s.slashes, gone) \in Nat
  <2> HIDE DEF gone
  <2> QED
    BY <1>1, <1>2, <1>3, UnitsGrow
<1> QED
  BY <1>5, <1>6, UnitsOfStores

(* A commit that is posted again, or a slash, is there already. *)
LEMMA PostedTwice ==
  ASSUME NEW s, IsStore(s), NEW id, NEW entry
  PROVE  /\ Weights!RecordCommit(Weights!RecordCommit(s, id, entry), id, entry)
              = Weights!RecordCommit(s, id, entry)
         /\ Weights!RecordSlash(Weights!RecordSlash(s, id, entry), id, entry)
              = Weights!RecordSlash(s, id, entry)
<1> DEFINE commits == [i \in DOMAIN s.commits \cup {id} |-> IF i = id THEN entry ELSE s.commits[i]]
           slashes == [i \in DOMAIN s.slashes \cup {id} |-> IF i = id THEN entry ELSE s.slashes[i]]
           c == Weights!RecordCommit(s, id, entry)
           x == Weights!RecordSlash(s, id, entry)
<1>1. c = [commits |-> commits, slashes |-> s.slashes]
  BY DEF IsStore, Weights!RecordCommit
<1>2. x = [commits |-> s.commits, slashes |-> slashes]
  BY DEF IsStore, Weights!RecordSlash
<1>3. [i \in DOMAIN commits \cup {id} |-> IF i = id THEN entry ELSE commits[i]] = commits
  OBVIOUS
<1>4. [i \in DOMAIN slashes \cup {id} |-> IF i = id THEN entry ELSE slashes[i]] = slashes
  OBVIOUS
<1> HIDE DEF c, x, commits, slashes
<1>5. Weights!RecordCommit(c, id, entry)
        = [c EXCEPT !.commits = [i \in DOMAIN c.commits \cup {id} |->
                                   IF i = id THEN entry ELSE c.commits[i]]]
  BY DEF Weights!RecordCommit
<1>6. Weights!RecordSlash(x, id, entry)
        = [x EXCEPT !.slashes = [i \in DOMAIN x.slashes \cup {id} |->
                                   IF i = id THEN entry ELSE x.slashes[i]]]
  BY DEF Weights!RecordSlash
<1>7. Weights!RecordCommit(c, id, entry) = c
  BY <1>1, <1>3, <1>5
<1>8. Weights!RecordSlash(x, id, entry) = x
  BY <1>2, <1>4, <1>6
<1> QED
  BY <1>7, <1>8 DEF c, x

(* What is recorded is a store again. *)
LEMMA RecordsAreStores ==
  ASSUME NEW s, IsStore(s), NEW id
  PROVE  /\ \A c \in Commit : IsStore(Weights!RecordCommit(s, id, c))
         /\ \A x \in Slash : IsStore(Weights!RecordSlash(s, id, x))
<1>1. IsFiniteSet(DOMAIN s.commits \cup {id}) /\ IsFiniteSet(DOMAIN s.slashes \cup {id})
  BY FS_AddElement DEF IsStore, Finite
<1>2. /\ s = [commits |-> s.commits, slashes |-> s.slashes]
      /\ s.commits \in [DOMAIN s.commits -> Commit]
      /\ s.slashes \in [DOMAIN s.slashes -> Slash]
  BY DEF IsStore, Finite
<1>3. ASSUME NEW c \in Commit PROVE IsStore(Weights!RecordCommit(s, id, c))
  <2> DEFINE commits == [i \in DOMAIN s.commits \cup {id} |-> IF i = id THEN c ELSE s.commits[i]]
  <2>1. Weights!RecordCommit(s, id, c) = [commits |-> commits, slashes |-> s.slashes]
    BY <1>2 DEF Weights!RecordCommit
  <2>2. commits \in [DOMAIN s.commits \cup {id} -> Commit]
    BY <1>2
  <2>3. Finite(commits, Commit)
    BY <1>1, <2>2 DEF Finite
  <2> HIDE DEF commits
  <2> QED
    BY <2>1, <2>3 DEF IsStore
<1>4. ASSUME NEW x \in Slash PROVE IsStore(Weights!RecordSlash(s, id, x))
  <2> DEFINE slashes == [i \in DOMAIN s.slashes \cup {id} |-> IF i = id THEN x ELSE s.slashes[i]]
  <2>1. Weights!RecordSlash(s, id, x) = [commits |-> s.commits, slashes |-> slashes]
    BY <1>2 DEF Weights!RecordSlash
  <2>2. slashes \in [DOMAIN s.slashes \cup {id} -> Slash]
    BY <1>2
  <2>3. Finite(slashes, Slash)
    BY <1>1, <2>2 DEF Finite
  <2> HIDE DEF slashes
  <2> QED
    BY <2>1, <2>3 DEF IsStore
<1> QED
  BY <1>3, <1>4

(* A slash that is new takes units from its actor and leaves the commits alone. *)
LEMMA SlashTakes ==
  ASSUME NEW s, IsStore(s), NEW id, id \notin DOMAIN s.slashes, NEW x \in Slash,
         NEW a, NEW t
  PROVE  LET slashed == Weights!RecordSlash(s, id, x) IN
         /\ Weights!LiveUnits(slashed, a, t) = Weights!LiveUnits(s, a, t)
         /\ Weights!SlashedUnits(slashed, a) \in Nat
         /\ Weights!SlashedUnits(s, a) <= Weights!SlashedUnits(slashed, a)
<1> DEFINE slashed == Weights!RecordSlash(s, id, x)
           slashes == [i \in DOMAIN s.slashes \cup {id} |-> IF i = id THEN x ELSE s.slashes[i]]
           before == Slashed(s.slashes, a)
           after == Slashed(slashes, a)
<1>1. slashed.commits = s.commits /\ slashed.slashes = slashes
  BY DEF IsStore, Weights!RecordSlash
<1>2. /\ IsFiniteSet(DOMAIN s.slashes)
      /\ \A i \in DOMAIN s.slashes : s.slashes[i].units \in Nat
      /\ x.units \in Nat
  BY DEF IsStore, Finite, Slash
<1>3. \A i \in DOMAIN s.slashes : slashes[i] = s.slashes[i]
  OBVIOUS
<1>4. /\ DOMAIN slashes = DOMAIN s.slashes \cup {id}
      /\ \A i \in DOMAIN slashes : slashes[i].units \in Nat
  BY <1>2
<1> HIDE DEF slashed, slashes
<1>5. before \subseteq after /\ before \in SUBSET DOMAIN s.slashes
      /\ after \in SUBSET DOMAIN slashes
  BY <1>3, <1>4 DEF Slashed
<1>6. IsFiniteSet(DOMAIN slashes)
  BY <1>2, <1>4, FS_AddElement
<1>7. IsFiniteSet(before) /\ IsFiniteSet(after)
  BY <1>2, <1>5, <1>6, FS_Subset
<1> HIDE DEF before, after
<1>8. /\ Units(slashes, before) <= Units(slashes, after)
      /\ Units(slashes, after) \in Nat
  BY <1>4, <1>5, <1>7, UnitsGrow
<1>9. Units(s.slashes, before) = Units(slashes, before)
  BY <1>2, <1>3, <1>5, <1>7, UnitsOfSame
<1>10. Weights!SlashedUnits(slashed, a) = Units(slashes, after)
  BY <1>1, UnitsOfStores DEF after
<1>11. Weights!SlashedUnits(s, a) = Units(s.slashes, before)
  BY UnitsOfStores DEF before
<1>12. Weights!LiveUnits(slashed, a, t) = Weights!LiveUnits(s, a, t)
  BY <1>1, UnitsOfStores
<1> QED
  BY <1>8, <1>9, <1>10, <1>11, <1>12 DEF slashed

(* Stake only fades: for every store of commits and slashes and all units, time and new   *)
(* slashes take from what counts of it, and nothing that is posted twice counts twice.   *)
THEOREM StakeFades == DecisionSpec => []StakeOnlyFades
<1>1. InputTypeOK => StakeOnlyFades
  <2> DEFINE s == input.store
             t == input.now
             once == Weights!RecordCommit(s, input.id, input.commit)
             Counts(x, a, u) == Weights!EffectiveStakeUnits(x, a, u)
  <2> SUFFICES ASSUME InputTypeOK, input.kind = "stake", NEW a \in Actors
               PROVE  /\ Counts(s, a, t + 1) <= Counts(s, a, t)
                      /\ Counts(once, a, t) \in 0 .. Weights!LiveUnits(once, a, t)
                      /\ Counts(Weights!RecordCommit(once, input.id, input.commit), a, t)
                           = Counts(once, a, t)
                      /\ \A x \in Slashes :
                           LET slashed == Weights!RecordSlash(s, x.id, x.slash)
                           IN  /\ x.id \notin DOMAIN s.slashes =>
                                    Counts(slashed, a, t) <= Counts(s, a, t)
                               /\ Weights!RecordSlash(slashed, x.id, x.slash) = slashed
    BY DEF StakeOnlyFades
  <2>1. /\ IsStore(s) /\ t \in Int /\ input.commit \in Commit
        /\ \A x \in Slashes : x.slash \in Slash
    BY StakesAssumption DEF InputTypeOK, IsStore
  <2>2. IsStore(once)
    BY <2>1, RecordsAreStores
  <2> HIDE DEF s, t
  <2>3. /\ Weights!LiveUnits(s, a, t) \in Nat
        /\ Weights!LiveUnits(s, a, t + 1) \in Nat
        /\ Weights!LiveUnits(s, a, t + 1) <= Weights!LiveUnits(s, a, t)
        /\ Weights!SlashedUnits(s, a) \in Nat
    BY <2>1, LiveUnitsFall
  <2>4. Counts(s, a, t + 1) <= Counts(s, a, t)
    BY <2>3 DEF Weights!EffectiveStakeUnits, Weights!Greater
  <2>5. Counts(once, a, t) \in 0 .. Weights!LiveUnits(once, a, t)
    <3> HIDE DEF once
    <3>1. Weights!LiveUnits(once, a, t) \in Nat /\ Weights!SlashedUnits(once, a) \in Nat
      BY <2>1, <2>2, LiveUnitsFall
    <3> QED
      BY <3>1 DEF Weights!EffectiveStakeUnits, Weights!Greater
  <2>6. Weights!RecordCommit(once, input.id, input.commit) = once
    BY <2>1, PostedTwice
  <2>7. ASSUME NEW x \in Slashes
        PROVE  LET slashed == Weights!RecordSlash(s, x.id, x.slash)
               IN  /\ x.id \notin DOMAIN s.slashes => Counts(slashed, a, t) <= Counts(s, a, t)
                   /\ Weights!RecordSlash(slashed, x.id, x.slash) = slashed
    <3> DEFINE slashed == Weights!RecordSlash(s, x.id, x.slash)
    <3>1. Weights!RecordSlash(slashed, x.id, x.slash) = slashed
      BY <2>1, PostedTwice
    <3>2. ASSUME x.id \notin DOMAIN s.slashes
          PROVE  Counts(slashed, a, t) <= Counts(s, a, t)
      <4>1. /\ Weights!LiveUnits(slashed, a, t) = Weights!LiveUnits(s, a, t)
            /\ Weights!SlashedUnits(slashed, a) \in Nat
            /\ Weights!SlashedUnits(s, a) <= Weights!SlashedUnits(slashed, a)
        BY <2>1, <3>2, SlashTakes
      <4> HIDE DEF slashed
      <4> QED
        BY <2>3, <4>1 DEF Weights!EffectiveStakeUnits, Weights!Greater
    <3> QED
      BY <3>1, <3>2
  <2> QED
    BY <2>4, <2>5, <2>6, <2>7
<1> QED
  BY <1>1, InputsAreTyped, PTL

-------------------------------------------------------------------------------
(* Places in an order: who comes before whom is a set of pairs of values, and   *)
(* equals come in the order of their numbers                                    *)

Precedes(K, s, j, i) == <<s[j], s[i]>> \in K \/ (<<s[i], s[j]>> \notin K /\ j < i)
Position(K, s, A, i) == Cardinality({j \in A : Precedes(K, s, j, i)}) + 1
Holder(K, s, A, p) == CHOOSE i \in A : Position(K, s, A, i) = p

Sortable(K, s, A) ==
  /\ IsFiniteSet(A)
  /\ A \subseteq Nat
  /\ \A i, j \in A : <<s[i], s[j]>> \in K => <<s[j], s[i]>> \notin K
  /\ \A i, j, k \in A : <<s[i], s[k]>> \in K => <<s[i], s[j]>> \in K \/ <<s[j], s[k]>> \in K

(* Nothing precedes itself, of two one precedes the other, and what precedes passes on.  *)
LEMMA PrecedenceOrders ==
  ASSUME NEW K, NEW s, NEW A, Sortable(K, s, A)
  PROVE  /\ \A i \in A : ~ Precedes(K, s, i, i)
         /\ \A i, j \in A : i # j => Precedes(K, s, i, j) \/ Precedes(K, s, j, i)
         /\ \A i, j, l \in A : Precedes(K, s, l, j) /\ Precedes(K, s, j, i) => Precedes(K, s, l, i)
<1>1. \A i \in A : i \in Nat
  BY DEF Sortable
<1>2. \A i \in A : ~ Precedes(K, s, i, i)
  BY <1>1 DEF Sortable, Precedes
<1>3. \A i, j \in A : i # j => Precedes(K, s, i, j) \/ Precedes(K, s, j, i)
  BY <1>1 DEF Sortable, Precedes
<1>4. ASSUME NEW i \in A, NEW j \in A, NEW l \in A, Precedes(K, s, l, j), Precedes(K, s, j, i)
      PROVE  Precedes(K, s, l, i)
  <2>1. i \in Nat /\ j \in Nat /\ l \in Nat
    BY <1>1
  <2>2. CASE <<s[l], s[j]>> \in K
    <3>1. <<s[l], s[i]>> \in K \/ <<s[i], s[j]>> \in K
      BY <2>2 DEF Sortable
    <3>2. <<s[i], s[j]>> \notin K
      BY <1>4 DEF Sortable, Precedes
    <3> QED
      BY <3>1, <3>2 DEF Precedes
  <2>3. CASE <<s[l], s[j]>> \notin K /\ <<s[j], s[i]>> \in K
    <3>1. <<s[j], s[l]>> \in K \/ <<s[l], s[i]>> \in K
      BY <2>3 DEF Sortable
    <3> QED
      BY <1>4, <2>3, <3>1 DEF Precedes
  <2>4. CASE <<s[l], s[j]>> \notin K /\ <<s[j], s[i]>> \notin K
    <3>1. l < j /\ j < i /\ <<s[j], s[l]>> \notin K /\ <<s[i], s[j]>> \notin K
      BY <1>4, <2>4 DEF Precedes
    <3>2. <<s[i], s[l]>> \notin K
      BY <3>1 DEF Sortable
    <3>3. l < i
      BY <2>1, <3>1
    <3> QED
      BY <3>2, <3>3 DEF Precedes
  <2> QED
    BY <2>2, <2>3, <2>4
<1> QED
  BY <1>2, <1>3, <1>4

(* A position is one of as many as there are entries. *)
LEMMA PositionsCount ==
  ASSUME NEW K, NEW s, NEW A, Sortable(K, s, A), NEW i \in A
  PROVE  Position(K, s, A, i) \in 1 .. Cardinality(A)
<1> DEFINE before == {j \in A : Precedes(K, s, j, i)}
<1>1. before \in SUBSET (A \ {i})
  BY PrecedenceOrders
<1>2. /\ IsFiniteSet(A \ {i}) /\ Cardinality(A \ {i}) = Cardinality(A) - 1
      /\ Cardinality(A) \in Nat
  BY FS_RemoveElement, FS_CardinalityType DEF Sortable
<1> HIDE DEF before
<1>3. Cardinality(before) \in Nat /\ Cardinality(before) <= Cardinality(A) - 1
  BY <1>1, <1>2, FS_Subset, FS_CardinalityType
<1> QED
  BY <1>2, <1>3 DEF Position, before

(* Who precedes has a lower position. *)
LEMMA PositionsRise ==
  ASSUME NEW K, NEW s, NEW A, Sortable(K, s, A), NEW i \in A, NEW j \in A, Precedes(K, s, j, i)
  PROVE  Position(K, s, A, j) < Position(K, s, A, i)
<1> DEFINE before(k) == {l \in A : Precedes(K, s, l, k)}
<1>1. IsFiniteSet(before(i)) /\ IsFiniteSet(before(j))
  BY FS_Subset DEF Sortable
<1>2. before(j) \cup {j} \in SUBSET before(i)
  BY PrecedenceOrders
<1>3. j \notin before(j)
  BY PrecedenceOrders
<1> HIDE DEF before
<1>4. /\ Cardinality(before(j)) \in Nat /\ Cardinality(before(i)) \in Nat
      /\ Cardinality(before(j) \cup {j}) = Cardinality(before(j)) + 1
  BY <1>1, <1>3, FS_AddElement, FS_CardinalityType
<1>5. Cardinality(before(j) \cup {j}) <= Cardinality(before(i))
  BY <1>1, <1>2, FS_Subset
<1> QED
  BY <1>4, <1>5 DEF Position, before

(* Every position has one entry. *)
LEMMA PositionsAreHeld ==
  ASSUME NEW K, NEW s, NEW A, Sortable(K, s, A)
  PROVE  /\ \A p \in 1 .. Cardinality(A) :
              Holder(K, s, A, p) \in A /\ Position(K, s, A, Holder(K, s, A, p)) = p
         /\ \A i \in A : Holder(K, s, A, Position(K, s, A, i)) = i
<1> DEFINE f == [i \in A |-> Position(K, s, A, i)]
           places == 1 .. Cardinality(A)
<1>1. \A i, j \in A : Position(K, s, A, i) = Position(K, s, A, j) => i = j
  <2> SUFFICES ASSUME NEW i \in A, NEW j \in A, i # j,
                      Position(K, s, A, i) = Position(K, s, A, j)
               PROVE  FALSE
    OBVIOUS
  <2>1. Precedes(K, s, i, j) \/ Precedes(K, s, j, i)
    BY PrecedenceOrders
  <2>2. Position(K, s, A, i) \in Int /\ Position(K, s, A, j) \in Int
    BY PositionsCount
  <2> QED
    BY <2>1, <2>2, PositionsRise
<1>2. f \in Injection(A, places)
  <2>1. \A i \in A : f[i] \in places
    BY PositionsCount
  <2>2. \A i, j \in A : f[i] = f[j] => i = j
    BY <1>1
  <2>3. f \in [A -> places]
    <3> HIDE DEF places
    <3> QED
      BY <2>1
  <2> HIDE DEF f, places
  <2> QED
    BY <2>2, <2>3 DEF Injection, IsInjective
<1>3. IsFiniteSet(places) /\ Cardinality(places) = Cardinality(A)
  <2>1. Cardinality(A) \in Nat
    BY FS_CardinalityType DEF Sortable
  <2> QED
    BY <2>1, IntervalCounts
<1>4. f \in Surjection(A, places)
  <2> HIDE DEF f, places
  <2> QED
    BY <1>2, <1>3, FS_Injection DEF Sortable
<1>5. \A p \in places : \E i \in A : Position(K, s, A, i) = p
  BY <1>4 DEF Surjection
<1>6. \A p \in places : Holder(K, s, A, p) \in A /\ Position(K, s, A, Holder(K, s, A, p)) = p
  BY <1>5 DEF Holder
<1>7. \A i \in A : Position(K, s, A, i) \in places
  BY PositionsCount
<1> QED
  BY <1>1, <1>6, <1>7

-----------------------------------------------------------------------
(* The same entries in another order                                          *)

Rearranged(f, A, g, B) ==
  \E m \in [A -> B] : /\ \A i, j \in A : m[i] = m[j] => i = j
                      /\ \A j \in B : \E i \in A : m[i] = j
                      /\ \A i \in A : g[m[i]] = f[i]

LEMMA RearrangedBack ==
  ASSUME NEW f, NEW A, NEW g, NEW B, Rearranged(f, A, g, B)
  PROVE  Rearranged(g, B, f, A)
<1>1. PICK m \in [A -> B] : /\ \A i, j \in A : m[i] = m[j] => i = j
                            /\ \A j \in B : \E i \in A : m[i] = j
                            /\ \A i \in A : g[m[i]] = f[i]
  BY DEF Rearranged
<1> DEFINE n == [j \in B |-> CHOOSE i \in A : m[i] = j]
<1>2. \A j \in B : n[j] \in A /\ m[n[j]] = j
  BY <1>1
<1>3. \A i \in A : n[m[i]] = i
  <2> TAKE i \in A
  <2>1. m[i] \in B
    OBVIOUS
  <2>2. n[m[i]] \in A /\ m[n[m[i]]] = m[i]
    BY <1>2, <2>1
  <2> HIDE DEF n
  <2> QED
    BY <1>1, <2>2
<1>4. n \in [B -> A]
  BY <1>2
<1> HIDE DEF n
<1>5. /\ \A i, j \in B : n[i] = n[j] => i = j
      /\ \A j \in A : \E i \in B : n[i] = j
      /\ \A j \in B : f[n[j]] = g[j]
  BY <1>1, <1>2, <1>3
<1> QED
  BY <1>4, <1>5 DEF Rearranged

Having(f, A, X) == {i \in A : f[i] \in X}

(* There are as many entries with a value in X. *)
LEMMA RearrangedCounts ==
  ASSUME NEW f, NEW A, NEW g, NEW B, Rearranged(f, A, g, B), IsFiniteSet(A), NEW X
  PROVE  Cardinality(Having(f, A, X)) = Cardinality(Having(g, B, X))
<1> DEFINE S == {i \in A : f[i] \in X}
           T == {j \in B : g[j] \in X}
<1>1. PICK m \in [A -> B] : /\ \A i, j \in A : m[i] = m[j] => i = j
                            /\ \A j \in B : \E i \in A : m[i] = j
                            /\ \A i \in A : g[m[i]] = f[i]
  BY DEF Rearranged
<1> DEFINE h == [i \in S |-> m[i]]
<1>2. h \in [S -> T]
  BY <1>1
<1>3. \A i, j \in S : h[i] = h[j] => i = j
  BY <1>1
<1>4. \A j \in T : \E i \in S : h[i] = j
  <2> TAKE j \in T
  <2>1. PICK i \in A : m[i] = j
    BY <1>1
  <2>2. i \in S
    BY <1>1, <2>1
  <2> QED
    BY <2>1, <2>2
<1>5. IsFiniteSet(S)
  BY FS_Subset
<1> HIDE DEF h, S, T
<1>6. ExistsBijection(S, T)
  BY <1>2, <1>3, <1>4 DEF ExistsBijection, Bijection, Injection, IsInjective, Surjection
<1>7. Cardinality(T) = Cardinality(S)
  BY <1>5, <1>6, FS_Bijection
<1> QED
  BY <1>7 DEF S, T, Having

LEMMA RearrangedSizes ==
  ASSUME NEW f, NEW A, NEW g, NEW B, Rearranged(f, A, g, B), IsFiniteSet(A)
  PROVE  Cardinality(A) = Cardinality(B)
<1> DEFINE all == {f[l] : l \in A}
<1>1. Having(f, A, all) = A
  BY DEF Having
<1>2. Having(g, B, all) = B
  BY DEF Having, Rearranged
<1> HIDE DEF all
<1>3. Cardinality(Having(f, A, all)) = Cardinality(Having(g, B, all))
  BY RearrangedCounts
<1> QED
  BY <1>1, <1>2, <1>3

(* Where every value occurs as often, one is the other in another order: for each value   *)
(* there is a bijection of the places where it is, and together they are one.             *)
LEMMA SameCountsRearrange ==
  ASSUME NEW f, NEW A, NEW g, NEW B, IsFiniteSet(A), IsFiniteSet(B),
         Cardinality(A) = Cardinality(B),
         \A i \in A : Cardinality({k \in A : f[k] = f[i]}) = Cardinality({k \in B : g[k] = f[i]})
  PROVE  Rearranged(f, A, g, B)
<1> DEFINE S(i) == {k \in A : f[k] = f[i]}
           T(i) == {k \in B : g[k] = f[i]}
           pair == [i \in A |-> CHOOSE h : h \in Bijection(S(i), T(i))]
           m == [i \in A |-> pair[i][i]]
<1>1. ASSUME NEW i \in A PROVE pair[i] \in Bijection(S(i), T(i))
  <2>1. IsFiniteSet(S(i)) /\ IsFiniteSet(T(i))
    BY FS_Subset
  <2>2. Cardinality(S(i)) = Cardinality(T(i))
    OBVIOUS
  <2> HIDE DEF S, T
  <2>3. ExistsBijection(S(i), T(i))
    BY <2>1, <2>2, FS_SameCardinalityBij
  <2> QED
    BY <2>3 DEF ExistsBijection
<1>2. ASSUME NEW i \in A
      PROVE  /\ m[i] \in B /\ g[m[i]] = f[i]
             /\ \A k, l \in S(i) : pair[i][k] = pair[i][l] => k = l
  <2>1. pair[i] \in [S(i) -> T(i)] /\ \A k, l \in S(i) : pair[i][k] = pair[i][l] => k = l
    <3> HIDE DEF pair, S, T
    <3> QED
      BY <1>1 DEF Bijection, Injection, IsInjective
  <2>2. i \in S(i) /\ m[i] = pair[i][i]
    OBVIOUS
  <2>3. m[i] \in T(i)
    <3> HIDE DEF pair, S, T, m
    <3> QED
      BY <2>1, <2>2
  <2> QED
    BY <2>1, <2>3
<1>3. \A i, j \in A : f[i] = f[j] => pair[i] = pair[j]
  OBVIOUS
<1>4. ASSUME NEW i \in A, NEW j \in A, m[i] = m[j] PROVE i = j
  <2>1. f[i] = f[j]
    <3> HIDE DEF m, pair
    <3> QED
      BY <1>2, <1>4
  <2>2. pair[i] = pair[j]
    BY <1>3, <2>1
  <2>3. i \in S(i) /\ j \in S(i)
    BY <2>1
  <2>4. m[i] = pair[i][i] /\ m[j] = pair[j][j]
    OBVIOUS
  <2> HIDE DEF m, pair, S
  <2> QED
    BY <1>2, <1>4, <2>2, <2>3, <2>4
<1>5. m \in [A -> B]
  <2>1. \A i \in A : m[i] \in B
    BY <1>2
  <2>2. m = [i \in A |-> m[i]]
    OBVIOUS
  <2> HIDE DEF m
  <2> QED
    BY <2>1, <2>2
<1>6. m \in Surjection(A, B)
  <2> HIDE DEF m
  <2>1. m \in Injection(A, B)
    BY <1>4, <1>5 DEF Injection, IsInjective
  <2> QED
    BY <2>1, FS_Injection
<1> HIDE DEF m
<1>7. \A j \in B : \E i \in A : m[i] = j
  BY <1>6 DEF Surjection
<1> QED
  BY <1>2, <1>4, <1>5, <1>7 DEF Rearranged

(* Sorted, neither has at any place what comes before what the other has there.           *)
LEMMA SortedAreNoLater ==
  ASSUME NEW K, NEW f, NEW A, NEW g, NEW B, Sortable(K, f, A), Sortable(K, g, B),
         Rearranged(f, A, g, B), NEW p \in 1 .. Cardinality(A)
  PROVE  <<f[Holder(K, f, A, p)], g[Holder(K, g, B, p)]>> \notin K
<1> DEFINE i == Holder(K, f, A, p)
           j == Holder(K, g, B, p)
           X == {v \in {f[k] : k \in A} : <<f[i], v>> \notin K}
           S == Having(f, A, X)
           T == Having(g, B, X)
           before == {k \in A : Precedes(K, f, k, i)}
           ahead == {k \in B : Precedes(K, g, k, j)}
<1> SUFFICES ASSUME <<f[i], g[j]>> \in K PROVE FALSE
  OBVIOUS
<1>1. IsFiniteSet(A) /\ IsFiniteSet(B) /\ Cardinality(A) = Cardinality(B)
  <2>1. IsFiniteSet(A) /\ IsFiniteSet(B)
    BY DEF Sortable
  <2> QED
    BY <2>1, RearrangedSizes
<1>2. /\ i \in A /\ Position(K, f, A, i) = p
      /\ j \in B /\ Position(K, g, B, j) = p
  BY <1>1, PositionsAreHeld
<1> HIDE DEF i, j
<1>3. Cardinality(before) = p - 1 /\ Cardinality(ahead) = p - 1
  <2>1. IsFiniteSet(before) /\ IsFiniteSet(ahead)
    BY <1>1, FS_Subset
  <2>2. Cardinality(before) \in Nat /\ Cardinality(ahead) \in Nat
    BY <2>1, FS_CardinalityType
  <2> HIDE DEF before, ahead
  <2>3. Cardinality(before) + 1 = p /\ Cardinality(ahead) + 1 = p
    BY <1>2 DEF Position, before, ahead
  <2> QED
    BY <2>2, <2>3
<1>4. T \in SUBSET ahead
  <2> SUFFICES ASSUME NEW k \in B, g[k] \in X PROVE Precedes(K, g, k, j)
    BY DEF Having
  <2>1. PICK l \in A : g[k] = f[l]
    OBVIOUS
  <2>2. PICK n \in B : g[n] = f[i]
    BY <1>2 DEF Rearranged
  <2>3. <<g[n], g[j]>> \in K /\ <<g[n], g[k]>> \notin K
    BY <2>2
  <2>4. <<g[k], g[j]>> \in K
    BY <1>2, <2>3 DEF Sortable
  <2> QED
    BY <2>4 DEF Precedes
<1>5. before \cup {i} \in SUBSET S
  <2>1. <<f[i], f[i]>> \notin K
    BY <1>2 DEF Sortable
  <2>2. ASSUME NEW k \in A, Precedes(K, f, k, i) PROVE <<f[i], f[k]>> \notin K
    BY <1>2, <2>2 DEF Precedes, Sortable
  <2> QED
    BY <1>2, <2>1, <2>2 DEF Having
<1>6. i \notin before
  BY <1>2, PrecedenceOrders
<1>7. Cardinality(S) = Cardinality(T)
  <2> HIDE DEF X
  <2> QED
    BY <1>1, RearrangedCounts
<1>8. IsFiniteSet(S) /\ IsFiniteSet(ahead) /\ IsFiniteSet(before)
  BY <1>1, FS_Subset DEF Having
<1> HIDE DEF X, S, T, before, ahead
<1>12. p \in Int /\ Cardinality(S) \in Int
  BY <1>1, <1>8, FS_CardinalityType
<1>9. Cardinality(T) <= p - 1
  BY <1>3, <1>4, <1>8, FS_Subset
<1>10. Cardinality(before \cup {i}) = p - 1 + 1
  BY <1>3, <1>6, <1>8, FS_AddElement
<1>11. Cardinality(before \cup {i}) <= Cardinality(S)
  BY <1>5, <1>8, FS_Subset
<1> QED
  BY <1>7, <1>9, <1>10, <1>11, <1>12

(* What sorts to the same is one the other in another order.                              *)
LEMMA SameSortedRearranged ==
  ASSUME NEW K, NEW f, NEW A, NEW g, NEW B, Sortable(K, f, A), Sortable(K, g, B),
         Cardinality(A) = Cardinality(B),
         \A p \in 1 .. Cardinality(A) : f[Holder(K, f, A, p)] = g[Holder(K, g, B, p)]
  PROVE  Rearranged(f, A, g, B)
<1> DEFINE m == [i \in A |-> Holder(K, g, B, Position(K, f, A, i))]
<1>1. \A i \in A : /\ Position(K, f, A, i) \in 1 .. Cardinality(B)
                   /\ Holder(K, f, A, Position(K, f, A, i)) = i
  BY PositionsCount, PositionsAreHeld
<1>2. \A i \in A : /\ m[i] \in B /\ g[m[i]] = f[i]
                   /\ Position(K, g, B, m[i]) = Position(K, f, A, i)
  <2> TAKE i \in A
  <2>1. Position(K, f, A, i) \in 1 .. Cardinality(B)
    BY <1>1
  <2>2. m[i] = Holder(K, g, B, Position(K, f, A, i))
    OBVIOUS
  <2> HIDE DEF m
  <2>3. m[i] \in B /\ Position(K, g, B, m[i]) = Position(K, f, A, i)
    BY <2>1, <2>2, PositionsAreHeld
  <2> QED
    BY <1>1, <2>1, <2>2, <2>3
<1>3. m \in [A -> B]
  <2>1. \A i \in A : m[i] \in B
    BY <1>2
  <2>2. m = [i \in A |-> m[i]]
    OBVIOUS
  <2> HIDE DEF m
  <2> QED
    BY <2>1, <2>2
<1>4. \A j \in B : \E i \in A : m[i] = j
  <2> TAKE j \in B
  <2> DEFINE i == Holder(K, f, A, Position(K, g, B, j))
  <2>1. Position(K, g, B, j) \in 1 .. Cardinality(A)
    BY PositionsCount
  <2>2. i \in A /\ Position(K, f, A, i) = Position(K, g, B, j)
    BY <2>1, PositionsAreHeld
  <2> HIDE DEF i
  <2>3. m[i] = Holder(K, g, B, Position(K, g, B, j))
    BY <2>2
  <2>4. m[i] = j
    BY <2>3, PositionsAreHeld
  <2> QED
    BY <2>2, <2>4
<1> HIDE DEF m
<1>5. \A i, j \in A : m[i] = m[j] => i = j
  BY <1>1, <1>2
<1> QED
  BY <1>2, <1>3, <1>4, <1>5 DEF Rearranged

-------------------------------------------------------------------------------
(* Places in a ranking: by falling score, equals by rising number             *)

Ahead(sc, j, i) == sc[j] > sc[i] \/ (sc[j] = sc[i] /\ j < i)
Place(sc, A, i) == Cardinality({j \in A : Ahead(sc, j, i)}) + 1
At(sc, A, p) == CHOOSE i \in A : Place(sc, A, i) = p

Rankable(sc, A) ==
  /\ IsFiniteSet(A)
  /\ A \subseteq Nat
  /\ \A i \in A : sc[i] \in Int

(* The places are the positions by falling score. *)
Falling == {x \in Int \X Int : x[1] > x[2]}

LEMMA PlacesArePositions ==
  ASSUME NEW sc, NEW A, Rankable(sc, A)
  PROVE  /\ Sortable(Falling, sc, A)
         /\ \A i, j \in A : Ahead(sc, j, i) <=> Precedes(Falling, sc, j, i)
         /\ \A i \in A : Place(sc, A, i) = Position(Falling, sc, A, i)
<1>1. \A i \in A : i \in Nat /\ sc[i] \in Int
  BY DEF Rankable
<1>2. \A i, j \in A : <<sc[i], sc[j]>> \in Falling <=> sc[i] > sc[j]
  BY <1>1 DEF Falling
<1>3. Sortable(Falling, sc, A)
  BY <1>1, <1>2 DEF Sortable, Rankable
<1>4. \A i, j \in A : Ahead(sc, j, i) <=> Precedes(Falling, sc, j, i)
  BY <1>1, <1>2 DEF Ahead, Precedes
<1>5. ASSUME NEW i \in A PROVE Place(sc, A, i) = Position(Falling, sc, A, i)
  <2>1. {j \in A : Ahead(sc, j, i)} = {j \in A : Precedes(Falling, sc, j, i)}
    BY <1>4
  <2> QED
    BY <2>1 DEF Place, Position
<1> QED
  BY <1>3, <1>4, <1>5

LEMMA PlacesCount ==
  ASSUME NEW sc, NEW A, Rankable(sc, A), NEW i \in A
  PROVE  Place(sc, A, i) \in 1 .. Cardinality(A)
  BY PlacesArePositions, PositionsCount

(* Every place has one entry. *)
LEMMA PlacesAreTaken ==
  ASSUME NEW sc, NEW A, Rankable(sc, A)
  PROVE  /\ \A p \in 1 .. Cardinality(A) :
              At(sc, A, p) \in A /\ Place(sc, A, At(sc, A, p)) = p
         /\ \A i \in A : At(sc, A, Place(sc, A, i)) = i
<1>1. /\ \A p \in 1 .. Cardinality(A) :
           /\ Holder(Falling, sc, A, p) \in A
           /\ Place(sc, A, Holder(Falling, sc, A, p)) = p
      /\ \A i \in A : Holder(Falling, sc, A, Place(sc, A, i)) = i
  BY PlacesArePositions, PositionsAreHeld
<1>2. \A p \in 1 .. Cardinality(A) : At(sc, A, p) \in A /\ Place(sc, A, At(sc, A, p)) = p
  BY <1>1 DEF At
<1>3. \A i \in A : Place(sc, A, i) \in 1 .. Cardinality(A)
  BY PlacesCount
<1> QED
  BY <1>1, <1>2, <1>3

(* One more entry, after all others in number: where it comes, and who is moved. *)
TakesPlace(sc, A, B, m, q) ==
  /\ Cardinality(A) \in Nat /\ Cardinality(B) = Cardinality(A) + 1
  /\ q \in 1 .. Cardinality(A) + 1
  /\ \A p \in 1 .. Cardinality(A) : sc[m] > sc[At(sc, A, p)] <=> p >= q
  /\ \A p \in 1 .. Cardinality(B) :
       At(sc, B, p) = IF p < q THEN At(sc, A, p)
                      ELSE IF p = q THEN m ELSE At(sc, A, p - 1)

LEMMA PlacesOfOneMore ==
  ASSUME NEW sc, NEW A, NEW m, Rankable(sc, A \cup {m}), \A i \in A : i < m
  PROVE  TakesPlace(sc, A, A \cup {m}, m, Place(sc, A \cup {m}, m))
<1> DEFINE B == A \cup {m}
           q == Place(sc, B, m)
           NoLower == {j \in A : sc[j] >= sc[m]}
           before(S, i) == {j \in S : Ahead(sc, j, i)}
<1>1. Rankable(sc, A) /\ m \notin A /\ m \in Nat /\ sc[m] \in Int
  <2>1. A \in SUBSET B
    OBVIOUS
  <2>2. m \in Nat /\ sc[m] \in Int
    BY DEF Rankable
  <2>3. m \notin A
    BY <2>2
  <2> QED
    BY <2>1, <2>2, <2>3, FS_Subset DEF Rankable
<1>2. Cardinality(B) = Cardinality(A) + 1 /\ Cardinality(A) \in Nat
  BY <1>1, FS_AddElement, FS_CardinalityType DEF Rankable
<1>3. q \in 1 .. Cardinality(B)
  BY PlacesCount
<1>4. q = Cardinality(NoLower) + 1
  <2>1. before(B, m) = NoLower
    <3>1. ~ Ahead(sc, m, m)
      BY <1>1 DEF Ahead
    <3>2. ASSUME NEW j \in A PROVE Ahead(sc, j, m) <=> sc[j] >= sc[m]
      <4>1. j < m /\ sc[j] \in Int /\ sc[m] \in Int
        BY <1>1 DEF Rankable
      <4> QED
        BY <4>1 DEF Ahead
    <3> QED
      BY <3>1, <3>2
  <2> QED
    BY <2>1 DEF Place
<1>5. IsFiniteSet(NoLower) /\ Cardinality(NoLower) \in Nat
  <2>1. NoLower \in SUBSET A
    OBVIOUS
  <2> HIDE DEF NoLower
  <2> QED
    BY <1>1, <2>1, FS_Subset, FS_CardinalityType DEF Rankable
<1>6. ASSUME NEW i \in A
      PROVE  Place(sc, B, i) = IF sc[m] > sc[i] THEN Place(sc, A, i) + 1 ELSE Place(sc, A, i)
  <2>1. Ahead(sc, m, i) <=> sc[m] > sc[i]
    <3>1. i < m /\ sc[i] \in Int /\ i \in Nat
      BY <1>1 DEF Rankable
    <3> QED
      BY <1>1, <3>1 DEF Ahead
  <2>2. before(B, i) = IF sc[m] > sc[i] THEN before(A, i) \cup {m} ELSE before(A, i)
    BY <2>1
  <2>3. /\ IsFiniteSet(before(A, i)) /\ m \notin before(A, i)
        /\ Cardinality(before(A, i)) \in Nat
    BY <1>1, FS_Subset, FS_CardinalityType DEF Rankable
  <2> HIDE DEF before
  <2>4. Cardinality(before(A, i) \cup {m}) = Cardinality(before(A, i)) + 1
    BY <2>3, FS_AddElement
  <2>5. /\ Place(sc, A, i) = Cardinality(before(A, i)) + 1
        /\ Place(sc, B, i) = Cardinality(before(B, i)) + 1
    BY DEF Place, before
  <2> QED
    BY <2>2, <2>3, <2>4, <2>5
<1>7. ASSUME NEW p \in 1 .. Cardinality(A)
      PROVE  sc[m] > sc[At(sc, A, p)] <=> p >= q
  <2> DEFINE i == At(sc, A, p)
  <2>1. i \in A /\ Place(sc, A, i) = p
    BY <1>1, PlacesAreTaken
  <2>2. i \in Nat /\ sc[i] \in Int /\ sc[m] \in Int
    BY <1>1, <2>1 DEF Rankable
  <2> HIDE DEF i
  <2>3. IsFiniteSet(before(A, i)) /\ Cardinality(before(A, i)) = p - 1
    <3>1. before(A, i) \in SUBSET A
      OBVIOUS
    <3>2. IsFiniteSet(before(A, i)) /\ Cardinality(before(A, i)) \in Nat
      BY <1>1, <3>1, FS_Subset, FS_CardinalityType DEF Rankable
    <3> QED
      BY <2>1, <3>2 DEF Place
  <2>4. CASE sc[m] > sc[i]
    <3>1. NoLower \in SUBSET before(A, i)
      <4> SUFFICES ASSUME NEW j \in A, sc[j] >= sc[m] PROVE Ahead(sc, j, i)
        OBVIOUS
      <4>1. sc[j] \in Int
        BY <1>1 DEF Rankable
      <4> QED
        BY <2>2, <2>4, <4>1 DEF Ahead
    <3> HIDE DEF NoLower, before
    <3>2. Cardinality(NoLower) <= Cardinality(before(A, i))
      BY <2>3, <3>1, FS_Subset
    <3> QED
      BY <1>4, <1>5, <2>3, <2>4, <3>2 DEF i
  <2>5. CASE ~ (sc[m] > sc[i])
    <3>1. before(A, i) \cup {i} \in SUBSET NoLower
      <4>1. ASSUME NEW j \in A, Ahead(sc, j, i) PROVE sc[j] >= sc[m]
        <5>1. sc[j] \in Int
          BY <1>1 DEF Rankable
        <5> QED
          BY <2>2, <2>5, <4>1, <5>1 DEF Ahead
      <4>2. sc[i] >= sc[m]
        BY <2>2, <2>5
      <4> QED
        BY <2>1, <4>1, <4>2
    <3>2. i \notin before(A, i)
      BY <2>2 DEF Ahead
    <3> HIDE DEF NoLower, before
    <3>3. Cardinality(before(A, i) \cup {i}) = p - 1 + 1
      BY <2>3, <3>2, FS_AddElement
    <3>4. Cardinality(before(A, i) \cup {i}) <= Cardinality(NoLower)
      BY <1>5, <3>1, FS_Subset
    <3> QED
      BY <1>4, <1>5, <2>5, <3>3, <3>4 DEF i
  <2> QED
    BY <2>4, <2>5
<1> HIDE DEF q
<1>8. ASSUME NEW p \in 1 .. Cardinality(B)
      PROVE  At(sc, B, p) = IF p < q THEN At(sc, A, p)
                            ELSE IF p = q THEN m ELSE At(sc, A, p - 1)
  <2>1. \A i \in B : At(sc, B, Place(sc, B, i)) = i
    BY PlacesAreTaken
  <2>2. CASE p < q
    <3>1. p \in 1 .. Cardinality(A)
      BY <1>2, <1>3, <2>2
    <3>2. At(sc, A, p) \in A /\ Place(sc, A, At(sc, A, p)) = p
      BY <1>1, <3>1, PlacesAreTaken
    <3>3. ~ (sc[m] > sc[At(sc, A, p)])
      BY <1>3, <1>7, <2>2, <3>1
    <3>4. Place(sc, B, At(sc, A, p)) = p
      BY <1>6, <3>2, <3>3
    <3> QED
      BY <2>1, <2>2, <3>2, <3>4
  <2>3. CASE p = q
    BY <2>1, <2>3 DEF q
  <2>4. CASE p > q
    <3>1. p - 1 \in 1 .. Cardinality(A) /\ p - 1 >= q
      BY <1>2, <1>3, <2>4
    <3>2. At(sc, A, p - 1) \in A /\ Place(sc, A, At(sc, A, p - 1)) = p - 1
      BY <1>1, <3>1, PlacesAreTaken
    <3>3. sc[m] > sc[At(sc, A, p - 1)]
      BY <1>7, <3>1
    <3>4. Place(sc, B, At(sc, A, p - 1)) = p
      BY <1>6, <3>2, <3>3
    <3> QED
      BY <1>3, <2>1, <2>4, <3>2, <3>4
  <2> QED
    BY <1>3, <2>2, <2>3, <2>4
<1> QED
  <2>1. q \in 1 .. Cardinality(A) + 1
    BY <1>2, <1>3
  <2>2. TakesPlace(sc, A, B, m, q)
    BY <1>2, <1>7, <1>8, <2>1 DEF TakesPlace
  <2> QED
    BY <2>2 DEF q
-------------------------------------------------------------------------------
(* Folds over the numbers of a sequence                                        *)

LEMMA LastOf ==
  ASSUME NEW n \in Nat, NEW S \in SUBSET (1 .. n), S # {}
  PROVE  Scores!Max(S) \in S /\ \A i \in S : Scores!Max(S) >= i
<1>1. PICK k \in {n - i : i \in S} : \A l \in {n - i : i \in S} : k <= l
  <2>1. ASSUME NEW i \in S PROVE n - i \in Nat
    OBVIOUS
  <2>2. {n - i : i \in S} \in SUBSET Nat /\ {n - i : i \in S} # {}
    BY <2>1
  <2> QED
    BY <2>2, LeastOf
<1>2. PICK x \in S : k = n - x
  BY <1>1
<1>3. \A i \in S : x >= i
  <2> TAKE i \in S
  <2>1. k <= n - i /\ i \in Int /\ x \in Int
    BY <1>1
  <2> QED
    BY <1>2, <2>1
<1> QED
  BY <1>3 DEF Scores!Max

(* Two functions that agree on the numbers before the last agree. *)
LEMMA FoldsAgree ==
  ASSUME NEW F, NEW G, NEW n \in Nat, F[{}] = G[{}],
         \A S \in SUBSET (1 .. n) :
           S # {} /\ F[S \ {Scores!Max(S)}] = G[S \ {Scores!Max(S)}] => F[S] = G[S]
  PROVE  F[1 .. n] = G[1 .. n]
<1> DEFINE wrong == {k \in Nat : k <= n /\ F[1 .. k] # G[1 .. k]}
<1> SUFFICES ASSUME F[1 .. n] # G[1 .. n] PROVE FALSE
  OBVIOUS
<1>1. wrong \in SUBSET Nat /\ n \in wrong
  OBVIOUS
<1>2. PICK k \in wrong : \A l \in wrong : k <= l
  <2> HIDE DEF wrong
  <2> QED
    BY <1>1, LeastOf
<1>3. k # 0
  <2>1. 1 .. 0 = {}
    OBVIOUS
  <2> QED
    BY <1>2, <2>1
<1>4. k \in Nat /\ k - 1 \in Nat /\ k - 1 \notin wrong
  BY <1>2, <1>3
<1>5. F[1 .. k - 1] = G[1 .. k - 1]
  BY <1>2, <1>4
<1>6. 1 .. k \in SUBSET (1 .. n) /\ 1 .. k # {} /\ k \in 1 .. k
  BY <1>2, <1>3
<1>7. Scores!Max(1 .. k) = k
  <2>1. Scores!Max(1 .. k) \in 1 .. k /\ Scores!Max(1 .. k) >= k
    BY <1>6, LastOf
  <2> QED
    BY <1>4, <2>1
<1>8. (1 .. k) \ {k} = 1 .. k - 1
  BY <1>4
<1> QED
  BY <1>2, <1>5, <1>6, <1>7, <1>8

-------------------------------------------------------------------------------
(* Scores                                                                      *)

LEMMA PriceIsNat ==
  ASSUME NEW cap \in Capability, NEW r \in Request
  PROVE  Scores!EstimatePrice(cap, r) \in Nat
<1>1. /\ cap.inRate \in Nat /\ cap.outRate \in Nat /\ r.in \in Nat /\ r.out \in Nat
  BY DEF Capability, Request
<1>2. cap.inRate * r.in \in Nat /\ cap.outRate * r.out \in Nat
  BY <1>1
<1> QED
  BY <1>2 DEF Scores!EstimatePrice

LEMMA FirstIsThere ==
  ASSUME NEW caps \in Seq(Capability), NEW I \in SUBSET DOMAIN caps, I # {}
  PROVE  /\ \E i \in I : Scores!FirstAt(caps, I) = caps[i]
         /\ Scores!FirstAt(caps, I) \in Capability
<1>1. I \in SUBSET Nat /\ \A i \in I : caps[i] \in Capability
  <2>1. DOMAIN caps = 1 .. Len(caps) /\ Len(caps) \in Nat
    BY LenProperties
  <2> QED
    BY <2>1, ElementOfSeq
<1>2. \E i \in I : \A j \in I : i <= j
  BY <1>1, LeastOf
<1> QED
  BY <1>1, <1>2 DEF Scores!FirstAt

LEMMA ScoredIsCapability ==
  ASSUME NEW node \in Candidate, NEW r \in Request
  PROVE  Scores!ScoredCapability(node, r) \in Capability \cup {None}
<1>1. node.caps \in Seq(Capability)
  BY DEF Candidate
<1>2. ASSUME NEW I \in SUBSET DOMAIN node.caps
      PROVE  Scores!FirstAt(node.caps, I) \in Capability \cup {None}
  <2>1. CASE I = {}
    BY <2>1 DEF Scores!FirstAt
  <2>2. CASE I # {}
    BY <1>1, <2>2, FirstIsThere
  <2> QED
    BY <2>1, <2>2
<1>3. Scores!FindCapability(node, r) \in Capability \cup {None}
  BY <1>2 DEF Scores!FindCapability
<1>4. Scores!PickCheapestCapability(node, r) \in Capability \cup {None}
  BY <1>2 DEF Scores!PickCheapestCapability, Scores!CheapestAt
<1> QED
  BY <1>3, <1>4 DEF Scores!ScoredCapability

LEMMA ScoresAreNumbers ==
  ASSUME NEW node \in Candidate, NEW r \in Request
  PROVE  /\ Scores!ScoreNode(node, r) \in Int \cup {None}
         /\ Scores!ScoreNode(node, r) # None <=> Scores!ScoredCapability(node, r) # None
<1> DEFINE cap == Scores!ScoredCapability(node, r)
<1>1. CASE cap = None
  BY <1>1 DEF Scores!ScoreNode
<1>2. CASE cap # None
  <2>1. cap \in Capability
    BY <1>2, ScoredIsCapability
  <2>2. node.trust \in Nat /\ node.load \in Nat /\ node.max \in Nat
    BY DEF Candidate
  <2>3. Scores!LoadFactor(node) \in Int
    <3>1. CASE node.max > 0
      <4>1. 1000 * node.load \in Int /\ node.max \in Nat \ {0}
        BY <2>2, <3>1
      <4>2. (1000 * node.load) \div node.max \in Int
        BY <4>1, Quotient
      <4> QED
        BY <3>1, <4>2 DEF Scores!LoadFactor
    <3>2. CASE ~ (node.max > 0)
      BY <3>2 DEF Scores!LoadFactor
    <3> QED
      BY <3>1, <3>2
  <2>4. cap.latency \in Nat
    BY <2>1 DEF Capability
  <2> HIDE DEF cap
  <2>5. Scores!EstimatePrice(cap, r) \in Nat
    BY <2>1, PriceIsNat
  <2>6. 10 * node.trust - 1000 * Scores!EstimatePrice(cap, r) - Scores!LoadFactor(node)
          - cap.latency \in Int
    BY <2>2, <2>3, <2>4, <2>5
  <2>7. Scores!ScoreNode(node, r) \in Int
    BY <1>2, <2>6 DEF Scores!ScoreNode, cap
  <2> QED
    BY <1>2, <2>7, NoneAssumption DEF cap
<1> QED
  BY <1>1, <1>2

-------------------------------------------------------------------------------
(* The ranking, and the one best node                                          *)

Entry == [node : Candidate, score : Int]

Score(cands, r) == [i \in DOMAIN cands |-> Scores!ScoreNode(cands[i], r)]
Served(cands, r, S) == {i \in S : Scores!ScoreNode(cands[i], r) # None}
Lesser(a, b) == IF a < b THEN a ELSE b

(* The first of the nodes S, up to a limit; and the first.                      *)
Leading(cands, r, limit, S) ==
  [p \in 1 .. Lesser(limit, Cardinality(Served(cands, r, S))) |->
     Scores!Scored(cands[At(Score(cands, r), Served(cands, r, S), p)], r)]

Leader(cands, r, S) ==
  IF Served(cands, r, S) = {} THEN None
  ELSE Scores!Scored(cands[At(Score(cands, r), Served(cands, r, S), 1)], r)

LEMMA ServedAreRankable ==
  ASSUME NEW cands \in Seq(Candidate), NEW r \in Request, NEW S \in SUBSET (1 .. Len(cands))
  PROVE  /\ Rankable(Score(cands, r), Served(cands, r, S))
         /\ Cardinality(Served(cands, r, S)) \in Nat
         /\ Cardinality(Served(cands, r, S)) <= Len(cands)
         /\ \A i \in Served(cands, r, S) : Score(cands, r)[i] = Scores!ScoreNode(cands[i], r)
<1>1. DOMAIN cands = 1 .. Len(cands) /\ Len(cands) \in Nat
  BY LenProperties
<1>2. \A i \in 1 .. Len(cands) : cands[i] \in Candidate
  BY ElementOfSeq
<1>3. \A i \in Served(cands, r, S) :
        /\ i \in DOMAIN cands
        /\ Score(cands, r)[i] = Scores!ScoreNode(cands[i], r)
        /\ Score(cands, r)[i] \in Int
  BY <1>1, <1>2, ScoresAreNumbers DEF Served, Score
<1>4. Served(cands, r, S) \in SUBSET (1 .. Len(cands))
  BY DEF Served
<1>5. /\ IsFiniteSet(Served(cands, r, S))
      /\ Cardinality(Served(cands, r, S)) <= Cardinality(1 .. Len(cands))
      /\ Cardinality(1 .. Len(cands)) = Len(cands)
  BY <1>1, <1>4, IntervalCounts, FS_Subset
<1> QED
  BY <1>1, <1>3, <1>4, <1>5, FS_CardinalityType DEF Rankable

LEMMA LeadingAreEntries ==
  ASSUME NEW cands \in Seq(Candidate), NEW r \in Request, NEW limit \in Nat,
         NEW S \in SUBSET (1 .. Len(cands))
  PROVE  LET size == Lesser(limit, Cardinality(Served(cands, r, S)))
             lead == Leading(cands, r, limit, S)
         IN  /\ size \in Nat /\ lead \in Seq(Entry) /\ Len(lead) = size
             /\ \A p \in 1 .. size :
                  LET i == At(Score(cands, r), Served(cands, r, S), p)
                  IN  /\ i \in Served(cands, r, S)
                      /\ lead[p] = [node |-> cands[i], score |-> Score(cands, r)[i]]
<1> DEFINE A == Served(cands, r, S)
           size == Lesser(limit, Cardinality(A))
           lead == Leading(cands, r, limit, S)
<1>1. /\ Rankable(Score(cands, r), A) /\ Cardinality(A) \in Nat
      /\ \A i \in A : Score(cands, r)[i] = Scores!ScoreNode(cands[i], r)
  BY ServedAreRankable
<1>2. size \in Nat /\ size <= Cardinality(A)
  BY <1>1 DEF Lesser
<1>3. ASSUME NEW p \in 1 .. size
      PROVE  /\ At(Score(cands, r), A, p) \in A
             /\ lead[p] = [node |-> cands[At(Score(cands, r), A, p)],
                           score |-> Score(cands, r)[At(Score(cands, r), A, p)]]
             /\ lead[p] \in Entry
  <2> DEFINE i == At(Score(cands, r), A, p)
  <2>1. p \in 1 .. Cardinality(A)
    BY <1>1, <1>2
  <2>2. i \in A
    BY <1>1, <2>1, PlacesAreTaken
  <2>3. lead[p] = Scores!Scored(cands[i], r)
    BY DEF Leading
  <2>4. cands[i] \in Candidate /\ Score(cands, r)[i] \in Int
    BY <1>1, <2>2, ElementOfSeq DEF Rankable, Served
  <2> HIDE DEF i, A
  <2>5. lead[p] = [node |-> cands[i], score |-> Score(cands, r)[i]]
    BY <1>1, <2>2, <2>3 DEF Scores!Scored
  <2> QED
    BY <2>2, <2>4, <2>5 DEF Entry, i
<1>4. lead \in [1 .. size -> Entry]
  <2>1. lead = [p \in 1 .. size |-> lead[p]]
    BY DEF Leading
  <2> HIDE DEF lead, size
  <2> QED
    BY <1>3, <2>1
<1>5. lead \in Seq(Entry) /\ Len(lead) = size
  <2> HIDE DEF lead, size
  <2> QED
    BY <1>2, <1>4
<1> QED
  BY <1>2, <1>3, <1>5

(* An entry put into a sequence.                                                *)
WithEntry(T, s, at, e, longer) ==
  /\ longer \in Seq(T) /\ Len(longer) = Len(s) + 1
  /\ \A p \in 1 .. Len(s) + 1 :
       longer[p] = IF p < at THEN s[p] ELSE IF p = at THEN e ELSE s[p - 1]

LEMMA Inserted ==
  ASSUME NEW T, NEW s \in Seq(T), NEW e \in T, NEW at \in 1 .. Len(s) + 1
  PROVE  WithEntry(T, s, at, e, Scores!InsertAt(s, at, e))
<1>1. Len(s) \in Nat /\ \A p \in 1 .. Len(s) : s[p] \in T
  BY LenProperties, ElementOfSeq
<1> DEFINE left == SubSeq(s, 1, at - 1)
           right == SubSeq(s, at, Len(s))
<1>2. /\ left \in Seq(T) /\ Len(left) = at - 1
      /\ \A p \in 1 .. at - 1 : left[p] = s[p]
  <2>1. \A p \in 1 .. at - 1 : s[p] \in T
    BY <1>1
  <2>2. 1 \in Int /\ at - 1 \in Int
    BY <1>1
  <2>3. /\ left \in Seq(T)
        /\ Len(left) = IF 1 <= at - 1 THEN (at - 1) - 1 + 1 ELSE 0
        /\ \A p \in 1 .. (at - 1) - 1 + 1 : left[p] = s[1 + p - 1]
    BY <2>1, <2>2, SubSeqProperties
  <2> HIDE DEF left
  <2>4. Len(left) = at - 1
    BY <1>1, <2>3
  <2>5. ASSUME NEW p \in 1 .. at - 1 PROVE left[p] = s[p]
    <3>1. p \in 1 .. (at - 1) - 1 + 1 /\ 1 + p - 1 = p
      BY <1>1
    <3> QED
      BY <2>3, <3>1
  <2> QED
    BY <2>3, <2>4, <2>5
<1>3. /\ right \in Seq(T) /\ Len(right) = Len(s) - at + 1
      /\ \A p \in 1 .. Len(s) - at + 1 : right[p] = s[at + p - 1]
  <2>1. \A p \in at .. Len(s) : s[p] \in T
    BY <1>1
  <2>2. at \in Int /\ Len(s) \in Int
    BY <1>1
  <2>3. /\ right \in Seq(T)
        /\ Len(right) = IF at <= Len(s) THEN Len(s) - at + 1 ELSE 0
        /\ \A p \in 1 .. Len(s) - at + 1 : right[p] = s[at + p - 1]
    BY <2>1, <2>2, SubSeqProperties
  <2> HIDE DEF right
  <2>4. Len(right) = Len(s) - at + 1
    BY <1>1, <2>3
  <2> QED
    BY <2>3, <2>4
<1> HIDE DEF left, right
<1>4. <<e>> \in Seq(T) /\ Len(<<e>>) = 1 /\ <<e>>[1] = e
  OBVIOUS
<1>5. /\ left \o <<e>> \in Seq(T) /\ Len(left \o <<e>>) = at
      /\ \A p \in 1 .. at : (left \o <<e>>)[p] = IF p < at THEN s[p] ELSE e
  <2>1. /\ left \o <<e>> \in Seq(T) /\ Len(left \o <<e>>) = Len(left) + Len(<<e>>)
        /\ \A p \in 1 .. Len(left) + Len(<<e>>) :
             (left \o <<e>>)[p] = IF p <= Len(left) THEN left[p] ELSE <<e>>[p - Len(left)]
    BY <1>2, <1>4, ConcatProperties
  <2>2. Len(left) + Len(<<e>>) = at
    BY <1>1, <1>2, <1>4
  <2>3. ASSUME NEW p \in 1 .. at PROVE (left \o <<e>>)[p] = IF p < at THEN s[p] ELSE e
    <3>1. CASE p < at
      <4>1. p \in 1 .. at - 1 /\ p <= Len(left)
        BY <1>1, <1>2, <3>1
      <4> QED
        BY <1>2, <2>1, <2>2, <3>1, <4>1
    <3>2. CASE ~ (p < at)
      <4>1. p = at /\ p - Len(left) = 1 /\ ~ (p <= Len(left))
        BY <1>1, <1>2, <3>2
      <4> QED
        BY <1>4, <2>1, <2>2, <3>2, <4>1
    <3> QED
      BY <3>1, <3>2
  <2> QED
    BY <2>1, <2>2, <2>3
<1> DEFINE longer == (left \o <<e>>) \o right
<1>6. /\ longer \in Seq(T) /\ Len(longer) = at + Len(right)
      /\ \A p \in 1 .. at + Len(right) :
           longer[p] = IF p <= at THEN (left \o <<e>>)[p] ELSE right[p - at]
  <2> DEFINE front == left \o <<e>>
  <2>1. front \in Seq(T) /\ Len(front) = at
    BY <1>5
  <2> HIDE DEF front
  <2>2. /\ front \o right \in Seq(T) /\ Len(front \o right) = Len(front) + Len(right)
        /\ \A p \in 1 .. Len(front) + Len(right) :
             (front \o right)[p] = IF p <= Len(front) THEN front[p] ELSE right[p - Len(front)]
    BY <1>3, <2>1, ConcatProperties
  <2> QED
    BY <2>1, <2>2 DEF front
<1>7. Scores!InsertAt(s, at, e) = longer
  BY DEF Scores!InsertAt, left, right
<1> HIDE DEF longer
<1>8. at + Len(right) = Len(s) + 1
  BY <1>1, <1>3
<1>9. ASSUME NEW p \in 1 .. Len(s) + 1
      PROVE  longer[p] = IF p < at THEN s[p] ELSE IF p = at THEN e ELSE s[p - 1]
  <2>1. CASE p <= at
    <3>1. p \in 1 .. at
      BY <1>1, <2>1
    <3>2. longer[p] = (left \o <<e>>)[p]
      BY <1>6, <1>8, <2>1
    <3> QED
      BY <1>1, <1>5, <2>1, <3>1, <3>2
  <2>2. CASE ~ (p <= at)
    <3>1. p - at \in 1 .. Len(s) - at + 1 /\ at + (p - at) - 1 = p - 1 /\ ~ (p < at) /\ p # at
      BY <1>1, <2>2
    <3>2. longer[p] = right[p - at]
      BY <1>6, <1>8, <2>2
    <3> QED
      BY <1>3, <3>1, <3>2
  <2> QED
    BY <2>1, <2>2
<1> QED
  BY <1>6, <1>7, <1>8, <1>9 DEF WithEntry

(* The limit of a ranking. *)
Limit(cands, topK) == IF topK > 0 THEN topK ELSE Len(cands)

Rank(cands, r, limit, ranked, m) ==
  IF Scores!ScoreNode(cands[m], r) = None THEN ranked
  ELSE LET longer == Scores!InsertRanked(ranked, Scores!Scored(cands[m], r))
       IN  IF Len(longer) > limit THEN SubSeq(longer, 1, limit) ELSE longer

(* The numbers S without and with their last.                                    *)
LEMMA LastIsNotServed ==
  ASSUME NEW cands, NEW r, NEW S, NEW m, Scores!ScoreNode(cands[m], r) = None
  PROVE  Served(cands, r, S) = Served(cands, r, S \ {m})
  BY DEF Served

LEMMA LastIsServed ==
  ASSUME NEW cands \in Seq(Candidate), NEW r \in Request,
         NEW S \in SUBSET (1 .. Len(cands)), NEW m \in S, \A i \in S : m >= i,
         Scores!ScoreNode(cands[m], r) # None
  PROVE  LET sc == Score(cands, r)
             A  == Served(cands, r, S \ {m})
             B  == Served(cands, r, S)
         IN  /\ B = A \cup {m}
             /\ sc[m] = Scores!ScoreNode(cands[m], r) /\ sc[m] \in Int
             /\ TakesPlace(sc, A, B, m, Place(sc, B, m))
<1> DEFINE sc == Score(cands, r)
           A == Served(cands, r, S \ {m})
           B == Served(cands, r, S)
<1>1. B = A \cup {m}
  BY DEF Served
<1>2. Rankable(sc, B) /\ m \in B /\ sc[m] = Scores!ScoreNode(cands[m], r)
  BY <1>1, ServedAreRankable
<1>3. sc[m] \in Int
  BY <1>2 DEF Rankable
<1>4. ASSUME NEW i \in A PROVE i < m
  <2>1. i \in S /\ i # m /\ i \in Int /\ m \in Int /\ m >= i
    BY DEF Served
  <2> QED
    BY <2>1
<1> HIDE DEF A, B, sc
<1>5. TakesPlace(sc, A, A \cup {m}, m, Place(sc, A \cup {m}, m))
  <2>1. Rankable(sc, A \cup {m}) /\ \A i \in A : i < m
    BY <1>1, <1>2, <1>4
  <2> QED
    BY <2>1, PlacesOfOneMore
<1>6. TakesPlace(sc, A, B, m, Place(sc, B, m))
  BY <1>1, <1>5
<1> QED
  BY <1>1, <1>2, <1>3, <1>6 DEF A, B, sc

(* The insertion keeps the first of the nodes so far. *)
LEMMA RankKeepsLeading ==
  ASSUME NEW cands \in Seq(Candidate), NEW r \in Request, NEW limit \in Nat,
         NEW S \in SUBSET (1 .. Len(cands)), NEW m \in S, \A i \in S : m >= i
  PROVE  Leading(cands, r, limit, S) = Rank(cands, r, limit, Leading(cands, r, limit, S \ {m}), m)
<1> DEFINE A == Served(cands, r, S \ {m})
           B == Served(cands, r, S)
           sc == Score(cands, r)
           q == Place(sc, B, m)
           old == Leading(cands, r, limit, S \ {m})
           new == Leading(cands, r, limit, S)
           entry == Scores!Scored(cands[m], r)
<1>1. CASE Scores!ScoreNode(cands[m], r) = None
  <2>1. B = A
    BY <1>1, LastIsNotServed
  <2> QED
    BY <1>1, <2>1 DEF Rank, Leading
<1>2. CASE Scores!ScoreNode(cands[m], r) # None
  <2>1. /\ sc[m] = Scores!ScoreNode(cands[m], r) /\ sc[m] \in Int
        /\ Cardinality(B) = Cardinality(A) + 1
        /\ q \in 1 .. Cardinality(A) + 1
        /\ \A p \in 1 .. Cardinality(A) : sc[m] > sc[At(sc, A, p)] <=> p >= q
        /\ \A p \in 1 .. Cardinality(B) :
             At(sc, B, p) = IF p < q THEN At(sc, A, p)
                            ELSE IF p = q THEN m ELSE At(sc, A, p - 1)
    <3>1. sc[m] = Scores!ScoreNode(cands[m], r) /\ sc[m] \in Int /\ TakesPlace(sc, A, B, m, q)
      BY <1>2, LastIsServed
    <3> HIDE DEF A, B, sc, q
    <3> QED
      BY <3>1 DEF TakesPlace
  <2>2. entry = [node |-> cands[m], score |-> sc[m]] /\ entry \in Entry /\ entry.score = sc[m]
    <3>1. cands[m] \in Candidate
      BY ElementOfSeq
    <3>2. entry = [node |-> cands[m], score |-> sc[m]]
      BY <2>1 DEF Scores!Scored
    <3> QED
      BY <2>1, <3>1, <3>2 DEF Entry
  <2> DEFINE was == Lesser(limit, Cardinality(A))
             is == Lesser(limit, Cardinality(B))
  <2>3. /\ was \in Nat /\ old \in Seq(Entry) /\ Len(old) = was
        /\ \A p \in 1 .. was : old[p] = [node |-> cands[At(sc, A, p)], score |-> sc[At(sc, A, p)]]
    <3>1. S \ {m} \in SUBSET (1 .. Len(cands))
      OBVIOUS
    <3> QED
      BY <3>1, LeadingAreEntries
  <2>4. /\ is \in Nat /\ new \in Seq(Entry) /\ Len(new) = is
        /\ \A p \in 1 .. is : new[p] = [node |-> cands[At(sc, B, p)], score |-> sc[At(sc, B, p)]]
    BY LeadingAreEntries
  <2>5. Cardinality(A) \in Nat
    <3>1. S \ {m} \in SUBSET (1 .. Len(cands))
      OBVIOUS
    <3> QED
      BY <3>1, ServedAreRankable
  <2> DEFINE Lower == {p \in 1 .. Len(old) : entry.score > old[p].score}
             at == IF Lower = {} THEN Len(old) + 1
                   ELSE CHOOSE i \in Lower : \A j \in Lower : i <= j
             longer == Scores!InsertAt(old, at, entry)
  <2>6. Scores!InsertRanked(old, entry) = longer
    BY DEF Scores!InsertRanked
  <2> HIDE DEF A, B, sc, q, old, new, entry
  <2>7. Lower = {p \in 1 .. was : p >= q}
    <3>1. ASSUME NEW p \in 1 .. was
          PROVE  entry.score > old[p].score <=> p >= q
      <4>1. p \in 1 .. Cardinality(A)
        BY <2>3, <2>5 DEF Lesser
      <4>2. old[p].score = sc[At(sc, A, p)]
        BY <2>3
      <4> QED
        BY <2>1, <2>2, <4>1, <4>2
    <3> QED
      BY <2>3, <3>1
  <2>8. at \in 1 .. was + 1 /\ (q <= was => at = q) /\ (q > was => at = was + 1)
    <3>1. CASE q <= was
      <4> HIDE DEF Lower
      <4>1. q \in Lower /\ \A p \in Lower : q <= p
        BY <2>1, <2>3, <2>7, <3>1
      <4>2. \A p \in Lower : p \in Int
        BY <2>3, <2>7
      <4>3. PICK i \in Lower : i = at /\ \A j \in Lower : i <= j
        BY <4>1
      <4> HIDE DEF at
      <4>4. at = q
        BY <2>1, <4>1, <4>2, <4>3
      <4> QED
        BY <2>1, <2>3, <3>1, <4>4
    <3>2. CASE q > was
      <4>1. Lower = {}
        BY <2>1, <2>3, <2>7, <3>2
      <4>2. at = was + 1
        BY <2>3, <4>1
      <4> HIDE DEF at
      <4> QED
        BY <2>1, <2>3, <3>2, <4>2
    <3>3. q \in Int /\ was \in Int
      BY <2>1, <2>3
    <3> HIDE DEF at, was
    <3> QED
      BY <3>1, <3>2, <3>3
  <2> HIDE DEF at, Lower, was, is
  <2>9. /\ longer \in Seq(Entry) /\ Len(longer) = was + 1
        /\ \A p \in 1 .. was + 1 :
             longer[p] = IF p < at THEN old[p] ELSE IF p = at THEN entry ELSE old[p - 1]
    <3>1. entry \in Entry /\ at \in 1 .. Len(old) + 1
      BY <2>2, <2>3, <2>8
    <3>2. WithEntry(Entry, old, at, entry, Scores!InsertAt(old, at, entry))
      BY <2>3, <3>1, Inserted
    <3> HIDE DEF longer
    <3>3. WithEntry(Entry, old, at, entry, longer)
      BY <3>2 DEF longer
    <3> QED
      BY <2>3, <3>3 DEF WithEntry
  <2> HIDE DEF longer
  <2>10. /\ was + 1 > limit => is = limit /\ was = limit
         /\ ~ (was + 1 > limit) => is = was + 1 /\ was = Cardinality(A)
         /\ is <= was + 1
         /\ is \in Nat /\ is <= Cardinality(B)
    BY <2>1, <2>5 DEF was, is, Lesser
  <2>11. ASSUME NEW p \in 1 .. is PROVE new[p] = longer[p]
    <3>1. p \in 1 .. was + 1 /\ p \in 1 .. Cardinality(B)
      BY <2>1, <2>3, <2>5, <2>10
    <3>2. new[p] = [node |-> cands[At(sc, B, p)], score |-> sc[At(sc, B, p)]]
      BY <2>4
    <3>3. CASE p < at
      <4>1. p < q /\ p \in 1 .. was
        BY <2>1, <2>3, <2>8, <3>1, <3>3
      <4>2. At(sc, B, p) = At(sc, A, p)
        BY <2>1, <3>1, <4>1
      <4> QED
        BY <2>3, <2>9, <3>1, <3>2, <3>3, <4>1, <4>2
    <3>4. CASE p >= at
      <4>1. at = q
        <5>1. CASE was + 1 > limit
          <6>1. at <= was
            BY <2>3, <2>8, <2>10, <3>1, <3>4, <5>1
          <6> QED
            BY <2>1, <2>3, <2>8, <6>1
        <5>2. CASE ~ (was + 1 > limit)
          BY <2>1, <2>3, <2>5, <2>8, <2>10, <5>2
        <5> QED
          BY <5>1, <5>2
      <4>2. CASE p = at
        <5>1. At(sc, B, p) = m
          BY <2>1, <3>1, <4>1, <4>2
        <5> QED
          BY <2>2, <2>9, <3>1, <3>2, <4>2, <5>1, <2>8
      <4>3. CASE p # at
        <5>1. ~ (p < q) /\ p # q /\ p - 1 \in 1 .. was /\ ~ (p < at)
          BY <2>1, <2>3, <2>8, <3>1, <3>4, <4>1, <4>3
        <5>2. At(sc, B, p) = At(sc, A, p - 1)
          BY <2>1, <3>1, <5>1
        <5>3. longer[p] = old[p - 1]
          BY <2>9, <3>1, <4>3, <5>1
        <5> QED
          BY <2>3, <3>2, <5>1, <5>2, <5>3
      <4> QED
        BY <4>2, <4>3
    <3> QED
      BY <2>8, <3>1, <3>3, <3>4
  <2>12. new = IF Len(longer) > limit THEN SubSeq(longer, 1, limit) ELSE longer
    <3>1. CASE Len(longer) > limit
      <4>1. is = limit
        BY <2>9, <2>10, <3>1
      <4>2. /\ SubSeq(longer, 1, limit) \in Seq(Entry)
            /\ Len(SubSeq(longer, 1, limit)) = limit
            /\ \A p \in 1 .. limit : SubSeq(longer, 1, limit)[p] = longer[p]
        <5>1. ASSUME NEW p \in 1 .. limit PROVE longer[p] \in Entry
          <6>1. p \in 1 .. Len(longer)
            BY <2>3, <2>9, <3>1
          <6> QED
            BY <2>9, <6>1, ElementOfSeq
        <5>2. 1 \in Int /\ limit \in Int
          OBVIOUS
        <5>3. /\ SubSeq(longer, 1, limit) \in Seq(Entry)
              /\ Len(SubSeq(longer, 1, limit)) = IF 1 <= limit THEN limit - 1 + 1 ELSE 0
              /\ \A p \in 1 .. limit - 1 + 1 : SubSeq(longer, 1, limit)[p] = longer[1 + p - 1]
          BY <5>1, <5>2, SubSeqProperties
        <5>4. ASSUME NEW p \in 1 .. limit PROVE SubSeq(longer, 1, limit)[p] = longer[p]
          <6>1. p \in 1 .. limit - 1 + 1 /\ 1 + p - 1 = p
            OBVIOUS
          <6> QED
            BY <5>3, <6>1
        <5>5. Len(SubSeq(longer, 1, limit)) = limit
          BY <5>3
        <5> QED
          BY <5>3, <5>4, <5>5
      <4>3. new = SubSeq(longer, 1, limit)
        BY <2>4, <2>11, <4>1, <4>2, SeqEqual
      <4> QED
        BY <3>1, <4>3
    <3>2. CASE ~ (Len(longer) > limit)
      <4>1. is = Len(longer)
        BY <2>9, <2>10, <3>2
      <4>2. new = longer
        BY <2>4, <2>9, <2>11, <4>1, SeqEqual
      <4> QED
        BY <3>2, <4>2
    <3> QED
      BY <3>1, <3>2
  <2> QED
    BY <1>2, <2>6, <2>12 DEF Rank, longer, old, new, entry
<1> QED
  BY <1>1, <1>2

(* The loop of the ranking: there is a function with the equation of the fold, namely     *)
(* the leading nodes, and any such function is that one.                                 *)
LEMMA LoopRanks ==
  ASSUME NEW cands \in Seq(Candidate), NEW r \in Request, NEW topK \in Int
  PROVE  LET lead == Leading(cands, r, Limit(cands, topK), 1 .. Len(cands))
         IN  Scores!RankCandidateNodes(cands, r, topK) = [p \in DOMAIN lead |-> lead[p].node]
<1> DEFINE limit == Limit(cands, topK)
           Last(s) == Scores!Max(s)
           Lead == [s \in SUBSET DOMAIN cands |-> Leading(cands, r, limit, s)]
           Loop == CHOOSE iter : iter = [s \in SUBSET DOMAIN cands |->
                     IF s = {} THEN <<>>
                     ELSE Rank(cands, r, limit, iter[s \ {Last(s)}], Last(s))]
<1>1. Scores!RankCandidateNodes(cands, r, topK)
        = [p \in DOMAIN Loop[DOMAIN cands] |-> Loop[DOMAIN cands][p].node]
  BY DEF Scores!RankCandidateNodes, Scores!FoldLeft, Scores!MapThenFoldSet, Rank, Limit
<1>2. DOMAIN cands = 1 .. Len(cands) /\ Len(cands) \in Nat /\ limit \in Nat
  BY LenProperties DEF Limit
<1> HIDE DEF limit
<1>3. \A s \in SUBSET DOMAIN cands :
        Lead[s] = IF s = {} THEN <<>>
                  ELSE Rank(cands, r, limit, Lead[s \ {Last(s)}], Last(s))
  <2> TAKE s \in SUBSET DOMAIN cands
  <2>1. CASE s = {}
    <3>1. Served(cands, r, {}) = {}
      BY DEF Served
    <3>2. Lesser(limit, Cardinality(Served(cands, r, {}))) = 0
      <4>1. Cardinality(Served(cands, r, {})) = 0
        BY <3>1, FS_EmptySet
      <4> QED
        BY <1>2, <4>1 DEF Lesser
    <3>3. Leading(cands, r, limit, {}) \in Seq(Entry) /\ Len(Leading(cands, r, limit, {})) = 0
      BY <1>2, <3>2, LeadingAreEntries
    <3>4. Leading(cands, r, limit, {}) = <<>>
      BY <3>3, EmptySeq
    <3> QED
      BY <2>1, <3>4
  <2>2. CASE s # {}
    <3>1. Last(s) \in s /\ \A i \in s : Last(s) >= i
      BY <1>2, <2>2, LastOf
    <3>2. s \ {Last(s)} \in SUBSET DOMAIN cands
      OBVIOUS
    <3> HIDE DEF Last
    <3>3. Leading(cands, r, limit, s)
            = Rank(cands, r, limit, Leading(cands, r, limit, s \ {Last(s)}), Last(s))
      BY <1>2, <3>1, RankKeepsLeading
    <3> QED
      BY <2>2, <3>2, <3>3
  <2> QED
    BY <2>1, <2>2
<1>4. Lead = [s \in SUBSET DOMAIN cands |->
                IF s = {} THEN <<>>
                ELSE Rank(cands, r, limit, Lead[s \ {Last(s)}], Last(s))]
  <2>1. Lead = [s \in SUBSET DOMAIN cands |-> Lead[s]]
    OBVIOUS
  <2> HIDE DEF Lead, Last
  <2> QED
    BY <1>3, <2>1
<1>5. Loop = [s \in SUBSET DOMAIN cands |->
                IF s = {} THEN <<>>
                ELSE Rank(cands, r, limit, Loop[s \ {Last(s)}], Last(s))]
  <2> HIDE DEF Lead, Last
  <2> QED
    BY <1>4
<1> HIDE DEF Lead, Loop
<1>6. Loop[1 .. Len(cands)] = Lead[1 .. Len(cands)]
  <2>1. Loop[{}] = Lead[{}]
    BY <1>3, <1>5
  <2>2. ASSUME NEW s \in SUBSET (1 .. Len(cands)), s # {},
               Loop[s \ {Last(s)}] = Lead[s \ {Last(s)}]
        PROVE  Loop[s] = Lead[s]
    <3> HIDE DEF Last
    <3> QED
      BY <1>2, <1>3, <1>5, <2>2
  <2> QED
    BY <1>2, <2>1, <2>2, FoldsAgree
<1>7. Loop[DOMAIN cands] = Leading(cands, r, limit, 1 .. Len(cands))
  <2>1. Lead[1 .. Len(cands)] = Leading(cands, r, limit, 1 .. Len(cands))
    BY <1>2 DEF Lead
  <2> QED
    BY <1>2, <1>6, <2>1
<1> QED
  BY <1>1, <1>7 DEF limit

(* One step of the loop for the one best node. *)
Better(cands, r, best, m) ==
  IF Scores!ScoreNode(cands[m], r) = None THEN best
  ELSE IF best = None THEN Scores!Scored(cands[m], r)
  ELSE IF best.score < Scores!ScoreNode(cands[m], r) THEN Scores!Scored(cands[m], r) ELSE best

LEMMA BetterKeepsLeader ==
  ASSUME NEW cands \in Seq(Candidate), NEW r \in Request,
         NEW S \in SUBSET (1 .. Len(cands)), NEW m \in S, \A i \in S : m >= i
  PROVE  Leader(cands, r, S) = Better(cands, r, Leader(cands, r, S \ {m}), m)
<1> DEFINE A == Served(cands, r, S \ {m})
           B == Served(cands, r, S)
           sc == Score(cands, r)
           q == Place(sc, B, m)
<1>1. CASE Scores!ScoreNode(cands[m], r) = None
  <2>1. B = A
    BY <1>1, LastIsNotServed
  <2> QED
    BY <1>1, <2>1 DEF Better, Leader
<1>2. CASE Scores!ScoreNode(cands[m], r) # None
  <2>1. /\ B = A \cup {m} /\ sc[m] = Scores!ScoreNode(cands[m], r) /\ sc[m] \in Int
        /\ TakesPlace(sc, A, B, m, q)
    <3>1. sc[m] = Scores!ScoreNode(cands[m], r) /\ sc[m] \in Int /\ TakesPlace(sc, A, B, m, q)
      BY <1>2, LastIsServed
    <3>2. B = A \cup {m}
      BY <1>2 DEF Served
    <3> QED
      BY <3>1, <3>2
  <2>2. /\ Rankable(sc, A)
        /\ \A i \in A : sc[i] = Scores!ScoreNode(cands[i], r)
    <3>1. S \ {m} \in SUBSET (1 .. Len(cands))
      OBVIOUS
    <3> QED
      BY <3>1, ServedAreRankable
  <2>3. Leader(cands, r, S) = Scores!Scored(cands[At(sc, B, 1)], r)
    BY <2>1 DEF Leader
  <2>4. CASE A = {}
    <3>1. Leader(cands, r, S \ {m}) = None
      BY <2>4 DEF Leader
    <3> HIDE DEF A, B, sc, q
    <3>2. Cardinality(A) = 0
      BY <2>4, FS_EmptySet
    <3>3. q = 1 /\ 1 \in 1 .. Cardinality(B)
      BY <2>1, <3>2 DEF TakesPlace
    <3>4. At(sc, B, 1) = m
      <4>1. \A p \in 1 .. Cardinality(B) : p = q => At(sc, B, p) = m
        <5>1. q \in Int
          BY <2>1 DEF TakesPlace
        <5>2. TakesPlace(sc, A, B, m, q)
          BY <2>1
        <5> QED
          BY <5>1, <5>2 DEF TakesPlace
      <4> QED
        BY <3>3, <4>1
    <3> QED
      BY <1>2, <2>3, <3>1, <3>4 DEF Better
  <2>5. CASE A # {}
    <3> DEFINE first == At(sc, A, 1)
    <3>1. Leader(cands, r, S \ {m}) = Scores!Scored(cands[first], r)
      BY <2>5 DEF Leader
    <3>2. 1 \in 1 .. Cardinality(A)
      <4> HIDE DEF A, B, sc, q
      <4>1. Cardinality(A) # 0
        BY <2>2, <2>5, FS_EmptySet DEF Rankable
      <4> QED
        BY <2>1, <4>1 DEF TakesPlace
    <3>3. first \in A
      <4> HIDE DEF A, sc
      <4> QED
        BY <2>2, <3>2, PlacesAreTaken
    <3>4. cands[first] \in Candidate /\ sc[first] \in Int
      BY <2>2, <3>3, ElementOfSeq DEF Rankable, Served
    <3>5. Scores!Scored(cands[first], r) = [node |-> cands[first], score |-> sc[first]]
      BY <2>2, <3>3 DEF Scores!Scored
    <3>6. Leader(cands, r, S \ {m}) # None /\ Leader(cands, r, S \ {m}).score = sc[first]
      <4> HIDE DEF first, sc
      <4>1. [node |-> cands[first], score |-> sc[first]] \in [node : Candidate, score : Int]
        BY <3>4
      <4> QED
        BY <3>1, <3>5, <4>1, NoneAssumption
    <3>7. 1 \in 1 .. Cardinality(B)
      <4> HIDE DEF A, B, sc, q
      <4> QED
        BY <2>1 DEF TakesPlace
    <3> HIDE DEF A, B, sc, q
    <3>8. sc[first] < sc[m] <=> q = 1
      <4>1. sc[m] > sc[first] <=> 1 >= q
        BY <2>1, <3>2 DEF TakesPlace, first
      <4>2. q >= 1 /\ q \in Int
        BY <2>1 DEF TakesPlace
      <4> HIDE DEF first
      <4> QED
        BY <2>1, <3>4, <4>1, <4>2
    <3>9. At(sc, B, 1) = IF q = 1 THEN m ELSE first
      <4>1. q >= 1 /\ q \in Int
        BY <2>1 DEF TakesPlace
      <4>2. \A p \in 1 .. Cardinality(B) :
              p = 1 => At(sc, B, p) = IF q = 1 THEN m ELSE At(sc, A, p)
        <5>1. TakesPlace(sc, A, B, m, q)
          BY <2>1
        <5> TAKE p \in 1 .. Cardinality(B)
        <5>2. At(sc, B, p) = IF p < q THEN At(sc, A, p)
                             ELSE IF p = q THEN m ELSE At(sc, A, p - 1)
          BY <5>1 DEF TakesPlace
        <5>3. p = 1 => (p < q <=> q # 1) /\ (p = q <=> q = 1)
          BY <4>1
        <5> QED
          BY <5>2, <5>3
      <4> QED
        BY <3>7, <4>2 DEF first
    <3> HIDE DEF first
    <3> QED
      BY <1>2, <2>1, <2>3, <3>1, <3>6, <3>8, <3>9 DEF Better
  <2> QED
    BY <2>4, <2>5
<1> QED
  BY <1>1, <1>2

LEMMA LoopSelects ==
  ASSUME NEW cands \in Seq(Candidate), NEW r \in Request
  PROVE  LET leader == Leader(cands, r, 1 .. Len(cands))
         IN  Scores!SelectNode(cands, r) = IF leader = None THEN None ELSE leader.node
<1> DEFINE Last(s) == Scores!Max(s)
           Lead == [s \in SUBSET DOMAIN cands |-> Leader(cands, r, s)]
           Loop == CHOOSE iter : iter = [s \in SUBSET DOMAIN cands |->
                     IF s = {} THEN None
                     ELSE Better(cands, r, iter[s \ {Last(s)}], Last(s))]
<1>1. Scores!SelectNode(cands, r)
        = IF Loop[DOMAIN cands] = None THEN None ELSE Loop[DOMAIN cands].node
  BY DEF Scores!SelectNode, Scores!FoldLeft, Scores!MapThenFoldSet, Better
<1>2. DOMAIN cands = 1 .. Len(cands) /\ Len(cands) \in Nat
  BY LenProperties
<1>3. \A s \in SUBSET DOMAIN cands :
        Lead[s] = IF s = {} THEN None ELSE Better(cands, r, Lead[s \ {Last(s)}], Last(s))
  <2> TAKE s \in SUBSET DOMAIN cands
  <2>1. CASE s = {}
    BY <2>1 DEF Leader, Served
  <2>2. CASE s # {}
    <3>1. Last(s) \in s /\ \A i \in s : Last(s) >= i
      BY <1>2, <2>2, LastOf
    <3>2. s \ {Last(s)} \in SUBSET DOMAIN cands
      OBVIOUS
    <3> HIDE DEF Last
    <3>3. Leader(cands, r, s) = Better(cands, r, Leader(cands, r, s \ {Last(s)}), Last(s))
      BY <1>2, <3>1, BetterKeepsLeader
    <3> QED
      BY <2>2, <3>2, <3>3
  <2> QED
    BY <2>1, <2>2
<1>4. Lead = [s \in SUBSET DOMAIN cands |->
                IF s = {} THEN None ELSE Better(cands, r, Lead[s \ {Last(s)}], Last(s))]
  <2>1. Lead = [s \in SUBSET DOMAIN cands |-> Lead[s]]
    OBVIOUS
  <2> HIDE DEF Lead, Last
  <2> QED
    BY <1>3, <2>1
<1>5. Loop = [s \in SUBSET DOMAIN cands |->
                IF s = {} THEN None ELSE Better(cands, r, Loop[s \ {Last(s)}], Last(s))]
  <2> HIDE DEF Lead, Last
  <2> QED
    BY <1>4
<1> HIDE DEF Lead, Loop
<1>6. Loop[1 .. Len(cands)] = Lead[1 .. Len(cands)]
  <2>1. Loop[{}] = Lead[{}]
    BY <1>3, <1>5
  <2>2. ASSUME NEW s \in SUBSET (1 .. Len(cands)), s # {},
               Loop[s \ {Last(s)}] = Lead[s \ {Last(s)}]
        PROVE  Loop[s] = Lead[s]
    <3> HIDE DEF Last
    <3> QED
      BY <1>2, <1>3, <1>5, <2>2
  <2> QED
    BY <1>2, <2>1, <2>2, FoldsAgree
<1>7. Loop[DOMAIN cands] = Leader(cands, r, 1 .. Len(cands))
  <2>1. Lead[1 .. Len(cands)] = Leader(cands, r, 1 .. Len(cands))
    BY <1>2 DEF Lead
  <2> QED
    BY <1>2, <1>6, <2>1
<1> QED
  BY <1>1, <1>7

(* The reference chooses the same node for each place. *)
LEMMA RankingOfReference ==
  ASSUME NEW cands \in Seq(Candidate), NEW r \in Request, NEW topK \in Int
  PROVE  LET A == Served(cands, r, 1 .. Len(cands))
         IN  Scores!TopK(cands, r, topK)
               = [p \in 1 .. Lesser(Limit(cands, topK), Cardinality(A)) |->
                    cands[At(Score(cands, r), A, p)]]
<1> DEFINE A == Served(cands, r, DOMAIN cands)
           sc == Score(cands, r)
           Before(j, i) == \/ Scores!ScoreNode(cands[j], r) > Scores!ScoreNode(cands[i], r)
                           \/ /\ Scores!ScoreNode(cands[j], r) = Scores!ScoreNode(cands[i], r)
                              /\ j < i
           size == IF topK > 0 /\ topK < Cardinality(A) THEN topK ELSE Cardinality(A)
           Chosen(p) == CHOOSE i \in A : Cardinality({j \in A : Before(j, i)}) + 1 = p
<1>1. DOMAIN cands = 1 .. Len(cands) /\ Len(cands) \in Nat
  BY LenProperties
<1>2. Scores!TopK(cands, r, topK) = [p \in 1 .. size |-> cands[Chosen(p)]]
  BY DEF Scores!TopK, Served, Scores!Cardinality, Cardinality
<1>3. /\ Rankable(sc, A) /\ Cardinality(A) \in Nat /\ Cardinality(A) <= Len(cands)
      /\ \A i \in A : sc[i] = Scores!ScoreNode(cands[i], r)
  BY <1>1, ServedAreRankable
<1>4. size = Lesser(Limit(cands, topK), Cardinality(A)) /\ size <= Cardinality(A) /\ size \in Nat
  <2> HIDE DEF A
  <2> QED
    BY <1>1, <1>3 DEF Lesser, Limit
<1>5. ASSUME NEW p \in 1 .. size PROVE Chosen(p) = At(sc, A, p)
  <2>1. \A i \in A : Cardinality({j \in A : Before(j, i)}) + 1 = Place(sc, A, i)
    <3> TAKE i \in A
    <3>1. \A j \in A : Before(j, i) <=> Ahead(sc, j, i)
      BY <1>3 DEF Ahead
    <3>2. {j \in A : Before(j, i)} = {j \in A : Ahead(sc, j, i)}
      BY <3>1
    <3> QED
      BY <3>2 DEF Place
  <2>2. p \in 1 .. Cardinality(A)
    BY <1>3, <1>4
  <2> HIDE DEF Before, A, sc, size
  <2>3. At(sc, A, p) \in A /\ Place(sc, A, At(sc, A, p)) = p
    BY <1>3, <2>2, PlacesAreTaken
  <2>4. Chosen(p) \in A /\ Cardinality({j \in A : Before(j, Chosen(p))}) + 1 = p
    BY <2>1, <2>3
  <2>5. Chosen(p) \in A /\ Place(sc, A, Chosen(p)) = p
    BY <2>1, <2>4
  <2> HIDE DEF Chosen
  <2> QED
    BY <1>3, <2>5, PlacesAreTaken
<1> HIDE DEF Chosen, size, A, sc
<1>6. [p \in 1 .. size |-> cands[Chosen(p)]] = [p \in 1 .. size |-> cands[At(sc, A, p)]]
  BY <1>5
<1> QED
  BY <1>1, <1>2, <1>4, <1>6 DEF A, sc

LEMMA LoopsAgree ==
  ASSUME NEW cands \in Seq(Candidate), NEW r \in Request, NEW topK \in Int
  PROVE  LET ranked == Scores!RankCandidateNodes(cands, r, topK)
         IN  /\ ranked = Scores!TopK(cands, r, topK)
             /\ Scores!SelectNode(cands, r) = IF ranked = <<>> THEN None ELSE Head(ranked)
<1> DEFINE all == 1 .. Len(cands)
           A == Served(cands, r, all)
           sc == Score(cands, r)
           limit == Limit(cands, topK)
           size == Lesser(limit, Cardinality(A))
           lead == Leading(cands, r, limit, all)
           ranked == Scores!RankCandidateNodes(cands, r, topK)
<1>1. DOMAIN cands = all /\ Len(cands) \in Nat
  BY LenProperties
<1>2. /\ Rankable(sc, A) /\ Cardinality(A) \in Nat /\ Cardinality(A) <= Len(cands)
      /\ \A i \in A : sc[i] = Scores!ScoreNode(cands[i], r)
  BY <1>1, ServedAreRankable
<1>3. limit \in Nat /\ (limit = 0 => Len(cands) = 0)
  BY <1>1 DEF Limit
<1>4. /\ size \in Nat /\ lead \in Seq(Entry) /\ Len(lead) = size
      /\ \A p \in 1 .. size :
           /\ At(sc, A, p) \in A
           /\ lead[p] = [node |-> cands[At(sc, A, p)], score |-> sc[At(sc, A, p)]]
  <2> HIDE DEF limit
  <2> QED
    BY <1>3, LeadingAreEntries
<1>5. ranked = [p \in DOMAIN lead |-> lead[p].node]
  BY LoopRanks
<1>6. Scores!TopK(cands, r, topK) = [p \in 1 .. size |-> cands[At(sc, A, p)]]
  BY RankingOfReference
<1>7. LET leader == Leader(cands, r, all)
      IN  Scores!SelectNode(cands, r) = IF leader = None THEN None ELSE leader.node
  BY LoopSelects
<1>8. Leader(cands, r, all) = IF A = {} THEN None ELSE Scores!Scored(cands[At(sc, A, 1)], r)
  BY DEF Leader
<1> HIDE DEF lead, ranked, limit, A, sc, all
<1>9. ranked = [p \in 1 .. size |-> cands[At(sc, A, p)]]
  <2> HIDE DEF size
  <2>1. DOMAIN lead = 1 .. size
    BY <1>4, LenProperties
  <2>2. \A p \in 1 .. size : lead[p].node = cands[At(sc, A, p)]
    BY <1>4
  <2> QED
    BY <1>5, <2>1, <2>2
<1>10. CASE A = {}
  <2>1. size = 0
    BY <1>3, <1>10, FS_EmptySet DEF Lesser
  <2>2. ranked = <<>>
    <3> HIDE DEF size
    <3> QED
      BY <1>9, <2>1
  <2> QED
    BY <1>6, <1>7, <1>8, <1>9, <1>10, <2>2 DEF ranked, all
<1>11. CASE A # {}
  <2>1. Cardinality(A) # 0
    BY <1>2, <1>11, FS_EmptySet DEF Rankable
  <2>2. size \in Nat \ {0}
    BY <1>1, <1>2, <1>3, <1>4, <2>1 DEF Lesser
  <2> DEFINE first == At(sc, A, 1)
  <2>3. first \in A
    <3> HIDE DEF size
    <3> QED
      BY <1>4, <2>2
  <2>4. cands[first] \in Candidate /\ sc[first] \in Int
    BY <1>2, <2>3, ElementOfSeq DEF Rankable, Served, A, all
  <2>5. Scores!Scored(cands[first], r) = [node |-> cands[first], score |-> sc[first]]
    BY <1>2, <2>3 DEF Scores!Scored
  <2>6. Leader(cands, r, all) = [node |-> cands[first], score |-> sc[first]]
    BY <1>8, <1>11, <2>5
  <2> HIDE DEF first
  <2>7. Leader(cands, r, all) # None /\ Leader(cands, r, all).node = cands[first]
    <3>1. [node |-> cands[first], score |-> sc[first]] \in [node : Candidate, score : Int]
      BY <2>4
    <3> QED
      BY <2>6, <3>1, NoneAssumption
  <2>8. Scores!SelectNode(cands, r) = cands[first]
    BY <1>7, <2>7
  <2>9. ranked # <<>> /\ Head(ranked) = cands[first]
    <3> HIDE DEF size
    <3>1. ranked \in Seq(Candidate) /\ Len(ranked) = size
      <4>1. \A p \in 1 .. size : cands[At(sc, A, p)] \in Candidate
        BY <1>1, <1>4, ElementOfSeq DEF A, Served, all
      <4> QED
        BY <1>9, <2>2, <4>1
    <3>2. ranked[1] = cands[first]
      BY <1>9, <2>2 DEF first
    <3> QED
      BY <2>2, <3>1, <3>2
  <2> QED
    BY <1>6, <1>9, <2>8, <2>9 DEF ranked
<1> QED
  BY <1>10, <1>11

-------------------------------------------------------------------------------
(* Prices                                                                      *)

(* A node that is selected is a candidate that serves the request. *)
LEMMA SelectedServes ==
  ASSUME NEW cands \in Seq(Candidate), NEW r \in Request, Scores!SelectNode(cands, r) # None
  PROVE  \E k \in DOMAIN cands :
           /\ Scores!SelectNode(cands, r) = cands[k]
           /\ cands[k] \in Candidate
           /\ Scores!ScoredCapability(cands[k], r) # None
<1> DEFINE all == 1 .. Len(cands)
           A == Served(cands, r, all)
           leader == Leader(cands, r, all)
           k == At(Score(cands, r), A, 1)
<1>1. leader # None /\ Scores!SelectNode(cands, r) = leader.node
  BY LoopSelects
<1>2. A # {} /\ leader = Scores!Scored(cands[k], r)
  BY <1>1 DEF Leader
<1>3. Rankable(Score(cands, r), A) /\ Cardinality(A) \in Nat
  BY ServedAreRankable
<1>4. k \in A
  <2> HIDE DEF A, leader
  <2>1. Cardinality(A) # 0
    BY <1>2, <1>3, FS_EmptySet DEF Rankable
  <2>2. 1 \in 1 .. Cardinality(A)
    BY <1>3, <2>1
  <2> QED
    BY <1>3, <2>2, PlacesAreTaken
<1>5. k \in DOMAIN cands /\ cands[k] \in Candidate /\ Scores!ScoreNode(cands[k], r) # None
  BY <1>4, LenProperties, ElementOfSeq DEF Served
<1> HIDE DEF k
<1>6. leader.node = cands[k]
  BY <1>2 DEF Scores!Scored
<1> QED
  BY <1>1, <1>5, <1>6, ScoresAreNumbers

(* Both copies of the rules choose the same capability. *)
LEMMA CopiesAgree ==
  ASSUME NEW node, NEW r
  PROVE  Scores!ScoredCapability(node, r) = Scores!PickCapabilityForRequest(node, r)
<1>1. {i \in DOMAIN node.caps : Scores!Fits(node.caps[i], r)}
        = {i \in DOMAIN node.caps :
             /\ r.job = NoJob \/ r.job \in node.caps[i].jobs
             /\ node.caps[i].window = 0 \/ r.in + r.out <= node.caps[i].window}
  BY DEF Scores!Fits, Scores!MatchesJobType, Scores!FitsContextWindow
<1>2. {i \in DOMAIN node.caps : node.caps[i].model = r.model /\ Scores!Fits(node.caps[i], r)}
        = {i \in DOMAIN node.caps :
             /\ node.caps[i].model = r.model
             /\ /\ r.job = NoJob \/ r.job \in node.caps[i].jobs
                /\ node.caps[i].window = 0 \/ r.in + r.out <= node.caps[i].window}
  BY DEF Scores!Fits, Scores!MatchesJobType, Scores!FitsContextWindow
<1> QED
  BY <1>1, <1>2 DEF Scores!ScoredCapability, Scores!PickCapabilityForRequest,
                    Scores!FindCapability, Scores!PickCheapestCapability

(* A node with one capability for each model asks one price for the model. *)
LEMMA OnePrice ==
  ASSUME NEW node \in Candidate, NEW r \in Request, r.model # AnyModel,
         Scores!OneForEachModel(node), Scores!ScoredCapability(node, r) # None
  PROVE  LET cap == Scores!SdkPickCapability(node, r.model)
         IN  /\ cap \in Capability
             /\ Scores!ScoredCapability(node, r) = cap
             /\ Scores!FirstAt(node.caps, {i \in DOMAIN node.caps : node.caps[i].model = r.model})
                  = cap
<1> DEFINE caps == node.caps
           fitting == {i \in DOMAIN caps : caps[i].model = r.model /\ Scores!Fits(caps[i], r)}
           named == {i \in DOMAIN caps : caps[i].model = r.model}
<1>1. caps \in Seq(Capability)
  BY DEF Candidate
<1>2. Scores!ScoredCapability(node, r) = Scores!FirstAt(caps, fitting)
  BY DEF Scores!ScoredCapability, Scores!FindCapability
<1>3. fitting # {}
  BY <1>2 DEF Scores!FirstAt
<1>4. fitting = named
  BY <1>3 DEF Scores!OneForEachModel
<1>5. Scores!SdkPickCapability(node, r.model) = Scores!FirstAt(caps, named)
  BY DEF Scores!SdkPickCapability
<1>6. Scores!FirstAt(caps, named) \in Capability
  <2>1. named \in SUBSET DOMAIN caps
    OBVIOUS
  <2> HIDE DEF caps, named, fitting
  <2> QED
    BY <1>1, <1>3, <1>4, <2>1, FirstIsThere
<1> QED
  BY <1>2, <1>4, <1>5, <1>6

(* The library's price per token is the router's price, in thousandths. *)
LEMMA TokenPrice ==
  ASSUME NEW cap \in Capability, NEW r \in Request, cap.unit = "token"
  PROVE  /\ Scores!SdkEstimatePrice(cap, r) = 1000 * Scores!EstimatePrice(cap, r)
         /\ Scores!SdkEstimatePrice(cap, r) # None
<1>1. Scores!SdkEstimatePrice(cap, r) = 1000 * Scores!EstimatePrice(cap, r)
  BY DEF Scores!SdkEstimatePrice, Scores!EstimatePrice
<1>2. 1000 * Scores!EstimatePrice(cap, r) \in Int
  BY PriceIsNat
<1> QED
  BY <1>1, <1>2, NoneAssumption

LEMMA PricesOfSelected ==
  ASSUME NEW cands \in Seq(Candidate), NEW r \in Request,
         NEW best, best = Scores!SelectNode(cands, r), best # None,
         r.model # AnyModel, Scores!OneForEachModel(best),
         NEW cap, cap = Scores!SdkPickCapability(best, r.model)
  PROVE  /\ Scores!Quote(cands, r) = Scores!NodeTotal(best, r)
         /\ cap.unit = "token" =>
              /\ Scores!SdkEstimatePrice(cap, r) = 1000 * Scores!NodeTotal(best, r)
              /\ \E i \in Scores!FilterNodesByPrice(cands, r, Scores!NodeTotal(best, r)) :
                   cands[i] = best
<1>1. PICK k \in DOMAIN cands : /\ best = cands[k] /\ cands[k] \in Candidate
                                /\ Scores!ScoredCapability(cands[k], r) # None
  BY SelectedServes
<1>2. /\ cap \in Capability
      /\ Scores!ScoredCapability(best, r) = cap
      /\ Scores!FirstAt(best.caps, {i \in DOMAIN best.caps : best.caps[i].model = r.model}) = cap
  BY <1>1, OnePrice
<1>3. cap # None
  BY <1>2, NoneAssumption
<1>4. Scores!NodeTotal(best, r) = Scores!EstimatePrice(cap, r)
  BY <1>2, CopiesAgree DEF Scores!NodeTotal
<1>5. Scores!EstimatePrice(cap, r) \in Nat
  BY <1>2, PriceIsNat
<1>6. Scores!Quote(cands, r) = Scores!EstimatePrice(cap, r)
  BY <1>2, <1>3 DEF Scores!Quote
<1>7. ASSUME cap.unit = "token"
      PROVE  /\ Scores!SdkEstimatePrice(cap, r) = 1000 * Scores!NodeTotal(best, r)
             /\ k \in Scores!FilterNodesByPrice(cands, r, Scores!NodeTotal(best, r))
  <2> DEFINE total == Scores!NodeTotal(best, r)
             price == Scores!SdkEstimatePrice(cap, r)
  <2>1. price = 1000 * total /\ price # None
    BY <1>2, <1>4, <1>7, TokenPrice
  <2>2. price <= 1000 * total
    BY <1>4, <1>5, <2>1
  <2>3. cap = Scores!SdkPickCapability(cands[k], r.model)
    BY <1>1
  <2> HIDE DEF total
  <2>4. k \in Scores!FilterNodesByPrice(cands, r, total)
    BY <1>3, <2>1, <2>2, <2>3 DEF Scores!FilterNodesByPrice
  <2> QED
    BY <2>1, <2>4 DEF total
<1> QED
  BY <1>1, <1>4, <1>6, <1>7

(* For every sequence of candidates, every request and every topK: the loop that       *)
(* inserts and truncates keeps exactly the best topK in order, and the loop that only   *)
(* keeps the best agrees with it.                                                      *)
THEOREM RankingKeepsTheBest == DecisionSpec => []RankingIsTheTopK
<1>1. InputTypeOK => RankingIsTheTopK
  <2> SUFFICES ASSUME InputTypeOK, input.kind = "schedule" PROVE RankingIsTheTopK
    BY DEF RankingIsTheTopK
  <2>1. input.nodes \in Seq(Candidate) /\ input.request \in Request /\ input.topK \in Int
    BY SchedulesAssumption DEF InputTypeOK
  <2> QED
    BY <2>1, LoopsAgree DEF RankingIsTheTopK
<1> QED
  BY <1>1, InputsAreTyped, PTL

(* For every sequence of candidates and every request: score, offer and node mean the   *)
(* same capability, offer and quote the same price, and so does the client library      *)
(* where the price is per token.                                                       *)
THEOREM OnePriceForAll == DecisionSpec => []PricesAgree
<1>1. InputTypeOK => PricesAgree
  <2> SUFFICES ASSUME InputTypeOK, input.kind = "schedule" PROVE PricesAgree
    BY DEF PricesAgree
  <2>1. input.nodes \in Seq(Candidate) /\ input.request \in Request
    BY SchedulesAssumption DEF InputTypeOK
  <2> QED
    BY <2>1, CopiesAgree, PricesOfSelected DEF PricesAgree
<1> QED
  BY <1>1, InputsAreTyped, PTL

-------------------------------------------------------------------------------
(* Splits: sums and their order                                               *)

AmountsOf(splits, I) == [i \in I |-> splits[i].amount]

(* The sum of the splits at the positions I.                                    *)
LEMMA AmountsAreCounted ==
  ASSUME NEW splits, NEW I, IsFiniteSet(I), \A i \in I : splits[i].amount \in Nat
  PROVE  Terms!SumAt(splits, I) = Cardinality(Shares(AmountsOf(splits, I), I))
<1> DEFINE w == AmountsOf(splits, I)
           IsFold(F) == F = [s \in SUBSET I |->
                          IF s = {} THEN 0 ELSE splits[Pick(s)].amount + F[s \ {Pick(s)}]]
           fold == CHOOSE F : IsFold(F)
<1>1. Terms!SumAt(splits, I) = fold[I]
  BY DEF Terms!SumAt, Pick, Terms!MapThenSumSet, Terms!MapThenFoldSet
<1>2. \A i \in I : w[i] \in Nat /\ w[i] = splits[i].amount
  BY DEF AmountsOf
<1>3. \A F : IsFold(F) <=> AddsUp(F, w, I)
  <2> TAKE F
  <2>1. ASSUME NEW s \in SUBSET I, s # {} PROVE splits[Pick(s)].amount = w[Pick(s)]
    BY <1>2, <2>1 DEF Pick
  <2> HIDE DEF w
  <2>2. [s \in SUBSET I |-> IF s = {} THEN 0 ELSE splits[Pick(s)].amount + F[s \ {Pick(s)}]]
          = [s \in SUBSET I |-> IF s = {} THEN 0 ELSE w[Pick(s)] + F[s \ {Pick(s)}]]
    BY <2>1
  <2> QED
    BY <2>2 DEF AddsUp
<1>4. \E F : IsFold(F)
  <2> HIDE DEF w, IsFold
  <2> QED
    BY <1>2, <1>3, SharesAddUp
<1>5. IsFold(fold)
  <2> HIDE DEF IsFold
  <2> QED
    BY <1>4
<1> HIDE DEF fold, IsFold, w
<1>6. AddsUp(fold, w, I)
  BY <1>3, <1>5
<1> QED
  BY <1>1, <1>2, <1>6, OnlySharesAddUp DEF w

LEMMA SplitsAreTyped ==
  ASSUME NEW splits \in Seq(Split)
  PROVE  /\ IsFiniteSet(DOMAIN splits) /\ Cardinality(DOMAIN splits) = Len(splits)
         /\ DOMAIN splits = 1 .. Len(splits) /\ Len(splits) \in Nat
         /\ \A i \in DOMAIN splits : splits[i] \in Split /\ splits[i].amount \in Nat
<1>1. DOMAIN splits = 1 .. Len(splits) /\ Len(splits) \in Nat
  BY LenProperties
<1>2. \A i \in DOMAIN splits : splits[i] \in Split
  BY <1>1, ElementOfSeq
<1> QED
  BY <1>1, <1>2, IntervalCounts DEF Split

LEMMA SumOfNone ==
  ASSUME NEW splits
  PROVE  Terms!SumAt(splits, {}) = 0
<1>1. Terms!SumAt(splits, {}) = Cardinality(Shares(AmountsOf(splits, {}), {}))
  BY FS_EmptySet, AmountsAreCounted
<1>2. Shares(AmountsOf(splits, {}), {}) = {}
  BY DEF Shares
<1> QED
  BY <1>1, <1>2, FS_EmptySet

LEMMA SumOfOneMore ==
  ASSUME NEW splits, NEW I, IsFiniteSet(I), \A i \in I : splits[i].amount \in Nat, NEW x \in I
  PROVE  Terms!SumAt(splits, I) = splits[x].amount + Terms!SumAt(splits, I \ {x})
<1> DEFINE w == AmountsOf(splits, I)
           J == I \ {x}
<1>1. IsFiniteSet(J) /\ \A i \in J : splits[i].amount \in Nat
  BY FS_RemoveElement
<1>2. \A i \in I : w[i] \in Nat /\ w[i] = splits[i].amount
  BY DEF AmountsOf
<1>3. Shares(AmountsOf(splits, J), J) = Shares(w, J)
  BY DEF Shares, AmountsOf
<1>4. /\ Terms!SumAt(splits, I) = Cardinality(Shares(w, I))
      /\ Terms!SumAt(splits, J) = Cardinality(Shares(w, J))
  BY <1>1, <1>3, AmountsAreCounted
<1> HIDE DEF w
<1>5. Cardinality(Shares(w, I)) = w[x] + Cardinality(Shares(w, J))
  BY <1>2, ShareOfOne
<1> QED
  BY <1>2, <1>4, <1>5

(* The same splits in another order have the same sum. *)
LEMMA RearrangedSums ==
  ASSUME NEW a \in Seq(Split), NEW b \in Seq(Split), Rearranged(a, DOMAIN a, b, DOMAIN b)
  PROVE  Terms!SumSplits(a) = Terms!SumSplits(b)
<1> DEFINE A == DOMAIN a
           B == DOMAIN b
           v == AmountsOf(a, A)
           w == AmountsOf(b, B)
           S == Shares(v, A)
           T == Shares(w, B)
<1>1. PICK m \in [A -> B] : /\ \A i, j \in A : m[i] = m[j] => i = j
                            /\ \A j \in B : \E i \in A : m[i] = j
                            /\ \A i \in A : b[m[i]] = a[i]
  BY DEF Rearranged
<1>2. /\ IsFiniteSet(A) /\ \A i \in A : v[i] \in Nat /\ a[i].amount \in Nat
      /\ IsFiniteSet(B) /\ \A i \in B : w[i] \in Nat /\ b[i].amount \in Nat
  BY SplitsAreTyped DEF AmountsOf
<1>3. Terms!SumSplits(a) = Cardinality(S) /\ Terms!SumSplits(b) = Cardinality(T)
  BY <1>2, AmountsAreCounted DEF Terms!SumSplits
<1>4. IsFiniteSet(S)
  <2> HIDE DEF v, A
  <2> QED
    BY <1>2, SharesAreFinite
<1> DEFINE h == [p \in S |-> <<m[p[1]], p[2]>>]
<1>5. \A i \in A : v[i] = w[m[i]]
  BY <1>1 DEF AmountsOf
<1>6. /\ \A p : p \in S <=> \E i \in A : \E k \in 1 .. v[i] : p = <<i, k>>
      /\ \A p : p \in T <=> \E i \in B : \E k \in 1 .. w[i] : p = <<i, k>>
  BY DEF Shares
<1> HIDE DEF A, B, v, w, S, T
<1>7. h \in [S -> T]
  <2> SUFFICES ASSUME NEW p \in S PROVE <<m[p[1]], p[2]>> \in T
    OBVIOUS
  <2>1. PICK i \in A : \E k \in 1 .. v[i] : p = <<i, k>>
    BY <1>6
  <2>2. PICK k \in 1 .. v[i] : p = <<i, k>>
    BY <2>1
  <2>3. m[i] \in B /\ k \in 1 .. w[m[i]]
    BY <1>5
  <2> QED
    BY <1>6, <2>2, <2>3
<1>8. \A p, q \in S : h[p] = h[q] => p = q
  <2> TAKE p, q \in S
  <2>1. PICK i \in A : \E k \in 1 .. v[i] : p = <<i, k>>
    BY <1>6
  <2>2. PICK k \in 1 .. v[i] : p = <<i, k>>
    BY <2>1
  <2>3. PICK j \in A : \E l \in 1 .. v[j] : q = <<j, l>>
    BY <1>6
  <2>4. PICK l \in 1 .. v[j] : q = <<j, l>>
    BY <2>3
  <2>5. h[p] = <<m[i], k>> /\ h[q] = <<m[j], l>>
    BY <2>2, <2>4
  <2> QED
    BY <1>1, <2>2, <2>4, <2>5
<1>9. \A t \in T : \E p \in S : h[p] = t
  <2> TAKE t \in T
  <2>1. PICK j \in B : \E k \in 1 .. w[j] : t = <<j, k>>
    BY <1>6
  <2>2. PICK k \in 1 .. w[j] : t = <<j, k>>
    BY <2>1
  <2>3. PICK i \in A : m[i] = j
    BY <1>1
  <2>4. k \in 1 .. v[i]
    BY <1>5, <2>2, <2>3
  <2>5. <<i, k>> \in S
    BY <1>6, <2>4
  <2>6. h[<<i, k>>] = t
    BY <2>2, <2>3, <2>5
  <2> QED
    BY <2>5, <2>6
<1> HIDE DEF h
<1>10. ExistsBijection(S, T)
  BY <1>7, <1>8, <1>9 DEF ExistsBijection, Bijection, Injection, IsInjective, Surjection
<1> QED
  BY <1>3, <1>4, <1>10, FS_Bijection

(* The key of a split in numbers. *)
TypeKey(s) == IF s.type = "node" THEN 0 ELSE 1
RoleKey(s) == CASE s.role = NoRole -> 0
                [] s.role = "node-inference" -> 1
                [] s.role = "other" -> 2
                [] s.role = "router-fee" -> 3

LEMMA SplitKeys ==
  ASSUME NEW x \in Split
  PROVE  /\ TypeKey(x) \in Int /\ x.id \in Int /\ x.amount \in Int /\ RoleKey(x) \in Int
         /\ \A y \in Split :
              /\ TypeKey(x) = TypeKey(y) => x.type = y.type
              /\ RoleKey(x) = RoleKey(y) => x.role = y.role
<1>1. NoRole # "node-inference" /\ NoRole # "other" /\ NoRole # "router-fee"
  BY PaymentsAssumption
<1>2. \A y \in Split :
        /\ y.type \in {"node", "router"} /\ y.id \in Nat /\ y.amount \in Nat
        /\ y.role \in {NoRole, "node-inference", "router-fee", "other"}
  BY DEF Split
<1>3. TypeKey(x) \in Int /\ \A y \in Split : TypeKey(x) = TypeKey(y) => x.type = y.type
  BY <1>2 DEF TypeKey
<1>4. \A y \in Split : RoleKey(y) = IF y.role = NoRole THEN 0
                                   ELSE IF y.role = "node-inference" THEN 1
                                   ELSE IF y.role = "other" THEN 2 ELSE 3
  BY <1>1, <1>2 DEF RoleKey
<1>5. RoleKey(x) \in Int /\ \A y \in Split : RoleKey(x) = RoleKey(y) => x.role = y.role
  <2>1. x.role \in {NoRole, "node-inference", "router-fee", "other"}
    BY <1>2
  <2> QED
    BY <1>2, <1>4, <2>1
<1> QED
  BY <1>2, <1>3, <1>5

(* Splits come in the order of their keys, and only the same split has the same key. *)
SplitOrder == {p \in Split \X Split : Terms!SortsBefore(p[1], p[2])}

LEMMA SplitsAreOrdered ==
  ASSUME NEW x \in Split, NEW y \in Split, NEW z \in Split
  PROVE  /\ <<x, y>> \in SplitOrder <=> Terms!SortsBefore(x, y)
         /\ <<x, y>> \in SplitOrder => <<y, x>> \notin SplitOrder
         /\ <<x, z>> \in SplitOrder => <<x, y>> \in SplitOrder \/ <<y, z>> \in SplitOrder
         /\ <<x, y>> \notin SplitOrder /\ <<y, x>> \notin SplitOrder => x = y
<1> DEFINE Before(a, b) ==
             \/ TypeKey(a) < TypeKey(b)
             \/ TypeKey(a) = TypeKey(b) /\ a.id < b.id
             \/ TypeKey(a) = TypeKey(b) /\ a.id = b.id /\ a.amount < b.amount
             \/ /\ TypeKey(a) = TypeKey(b) /\ a.id = b.id /\ a.amount = b.amount
                /\ RoleKey(a) < RoleKey(b)
<1>2. \A a, b \in Split : <<a, b>> \in SplitOrder <=> Terms!SortsBefore(a, b)
  BY DEF SplitOrder
<1>1. \A a, b \in Split : <<a, b>> \in SplitOrder <=> Before(a, b)
  <2>1. ASSUME NEW a \in Split, NEW b \in Split PROVE Terms!SortsBefore(a, b) <=> Before(a, b)
    BY Zenon DEF Terms!SortsBefore, TypeKey, RoleKey
  <2> QED
    BY <1>2, <2>1
<1>3. /\ TypeKey(x) \in Int /\ x.id \in Int /\ x.amount \in Int /\ RoleKey(x) \in Int
      /\ TypeKey(y) \in Int /\ y.id \in Int /\ y.amount \in Int /\ RoleKey(y) \in Int
      /\ TypeKey(z) \in Int /\ z.id \in Int /\ z.amount \in Int /\ RoleKey(z) \in Int
  BY SplitKeys
<1>4. Before(x, y) => ~ Before(y, x)
  BY <1>3
<1>5. Before(x, z) => Before(x, y) \/ Before(y, z)
  BY <1>3
<1>6. ~ Before(x, y) /\ ~ Before(y, x) => x = y
  <2> SUFFICES ASSUME ~ Before(x, y), ~ Before(y, x) PROVE x = y
    OBVIOUS
  <2>1. TypeKey(x) = TypeKey(y) /\ x.id = y.id /\ x.amount = y.amount /\ RoleKey(x) = RoleKey(y)
    BY <1>3
  <2>2. x.type = y.type /\ x.role = y.role
    BY <2>1, SplitKeys
  <2> QED
    BY <2>1, <2>2 DEF Split
<1> HIDE DEF Before
<1> QED
  BY <1>1, <1>2, <1>4, <1>5, <1>6

LEMMA SplitsAreSorted ==
  ASSUME NEW splits \in Seq(Split)
  PROVE  /\ Sortable(SplitOrder, splits, DOMAIN splits)
         /\ Terms!NormalizeSplits(splits)
              = [p \in 1 .. Len(splits) |-> splits[Holder(SplitOrder, splits, DOMAIN splits, p)]]
<1> DEFINE A == DOMAIN splits
           Earlier(j, i) == \/ Terms!SortsBefore(splits[j], splits[i])
                            \/ ~ Terms!SortsBefore(splits[i], splits[j]) /\ j < i
           Chosen(p) == CHOOSE i \in A : Cardinality({j \in A : Earlier(j, i)}) + 1 = p
<1>1. /\ IsFiniteSet(A) /\ Cardinality(A) = Len(splits) /\ A \in SUBSET Nat
      /\ \A i \in A : splits[i] \in Split
  BY SplitsAreTyped
<1>2. Terms!NormalizeSplits(splits) = [p \in 1 .. Cardinality(A) |-> splits[Chosen(p)]]
  BY DEF Terms!NormalizeSplits, Terms!SortedAt, Terms!Cardinality, Cardinality
<1>3. Sortable(SplitOrder, splits, A)
  BY <1>1, SplitsAreOrdered DEF Sortable
<1>4. \A i, j \in A : Earlier(j, i) <=> Precedes(SplitOrder, splits, j, i)
  BY <1>1, SplitsAreOrdered DEF Precedes
<1>5. ASSUME NEW i \in A
      PROVE  Cardinality({j \in A : Earlier(j, i)}) + 1 = Position(SplitOrder, splits, A, i)
  <2>1. {j \in A : Earlier(j, i)} = {j \in A : Precedes(SplitOrder, splits, j, i)}
    BY <1>4
  <2> QED
    BY <2>1 DEF Position
<1> HIDE DEF Earlier, A
<1>6. ASSUME NEW p \in 1 .. Cardinality(A) PROVE Chosen(p) = Holder(SplitOrder, splits, A, p)
  <2>1. /\ Holder(SplitOrder, splits, A, p) \in A
        /\ Position(SplitOrder, splits, A, Holder(SplitOrder, splits, A, p)) = p
    BY <1>3, PositionsAreHeld
  <2>2. Chosen(p) \in A /\ Position(SplitOrder, splits, A, Chosen(p)) = p
    BY <1>5, <2>1
  <2> HIDE DEF Chosen
  <2> QED
    BY <1>3, <2>2, PositionsAreHeld
<1> HIDE DEF Chosen
<1>7. [p \in 1 .. Cardinality(A) |-> splits[Chosen(p)]]
        = [p \in 1 .. Cardinality(A) |-> splits[Holder(SplitOrder, splits, A, p)]]
  BY <1>6
<1> QED
  BY <1>1, <1>2, <1>3, <1>7 DEF A

(* Splits match if and only if they are the same in some order. *)
LEMMA MatchingIsRearranging ==
  ASSUME NEW a \in Seq(Split), NEW b \in Seq(Split)
  PROVE  Terms!SplitsMatch(a, b) <=> Rearranged(a, DOMAIN a, b, DOMAIN b)
<1> DEFINE A == DOMAIN a
           B == DOMAIN b
           K == SplitOrder
           U(p) == a[Holder(K, a, A, p)]
           V(p) == b[Holder(K, b, B, p)]
<1>1. /\ IsFiniteSet(A) /\ Cardinality(A) = Len(a) /\ Len(a) \in Nat
      /\ IsFiniteSet(B) /\ Cardinality(B) = Len(b) /\ Len(b) \in Nat
      /\ \A i \in A : a[i] \in Split
      /\ \A i \in B : b[i] \in Split
  BY SplitsAreTyped
<1>2. /\ Sortable(K, a, A) /\ Terms!NormalizeSplits(a) = [p \in 1 .. Len(a) |-> U(p)]
      /\ Sortable(K, b, B) /\ Terms!NormalizeSplits(b) = [p \in 1 .. Len(b) |-> V(p)]
  BY SplitsAreSorted
<1>3. ASSUME Terms!SplitsMatch(a, b) PROVE Rearranged(a, A, b, B)
  <2>1. Len(a) = Len(b) /\ [p \in 1 .. Len(a) |-> U(p)] = [p \in 1 .. Len(b) |-> V(p)]
    BY <1>2, <1>3 DEF Terms!SplitsMatch
  <2>2. \A p \in 1 .. Len(a) : U(p) = V(p)
    <3> HIDE DEF U, V
    <3> QED
      BY <2>1
  <2> HIDE DEF A, B, K
  <2> QED
    BY <1>1, <1>2, <2>1, <2>2, SameSortedRearranged
<1>4. ASSUME Rearranged(a, A, b, B) PROVE Terms!SplitsMatch(a, b)
  <2>1. Rearranged(b, B, a, A)
    BY <1>4, RearrangedBack
  <2>2. Cardinality(A) = Cardinality(B)
    BY <1>1, <1>4, RearrangedSizes
  <2>3. ASSUME NEW p \in 1 .. Len(a) PROVE U(p) = V(p)
    <3>1. p \in 1 .. Cardinality(A) /\ p \in 1 .. Cardinality(B)
      BY <1>1, <2>2
    <3>2. U(p) \in Split /\ V(p) \in Split
      BY <1>1, <1>2, <3>1, PositionsAreHeld
    <3> HIDE DEF A, B, K
    <3>3. <<U(p), V(p)>> \notin K
      BY <1>2, <1>4, <3>1, SortedAreNoLater
    <3>4. <<V(p), U(p)>> \notin K
      BY <1>2, <2>1, <3>1, SortedAreNoLater
    <3> HIDE DEF U, V
    <3> QED
      BY <3>2, <3>3, <3>4, SplitsAreOrdered DEF K
  <2> HIDE DEF U, V, A, B
  <2>4. [p \in 1 .. Len(a) |-> U(p)] = [p \in 1 .. Len(b) |-> V(p)]
    BY <1>1, <2>2, <2>3
  <2> QED
    BY <1>1, <1>2, <2>2, <2>4 DEF Terms!SplitsMatch
<1> QED
  BY <1>3, <1>4

(* What the reference says: every split occurs as often. *)
LEMMA ReorderingIsRearranging ==
  ASSUME NEW a \in Seq(Split), NEW b \in Seq(Split)
  PROVE  Terms!Reordered(a, b) <=> Rearranged(a, DOMAIN a, b, DOMAIN b)
<1> DEFINE A == DOMAIN a
           B == DOMAIN b
<1>1. /\ IsFiniteSet(A) /\ Cardinality(A) = Len(a)
      /\ IsFiniteSet(B) /\ Cardinality(B) = Len(b)
  BY SplitsAreTyped
<1>2. ASSUME Terms!Reordered(a, b) PROVE Rearranged(a, A, b, B)
  <2>1. Len(a) = Len(b)
    BY <1>2 DEF Terms!Reordered
  <2>2. ASSUME NEW i \in A
        PROVE  Cardinality({k \in A : a[k] = a[i]}) = Cardinality({k \in B : b[k] = a[i]})
    <3>1. a[i] \in Terms!ToSet(a)
      BY DEF Terms!ToSet
    <3> QED
      BY <1>2, <3>1 DEF Terms!Reordered, Terms!Cardinality, Cardinality
  <2> QED
    BY <1>1, <2>1, <2>2, SameCountsRearrange
<1>3. ASSUME Rearranged(a, A, b, B) PROVE Terms!Reordered(a, b)
  <2>1. Cardinality(A) = Cardinality(B)
    BY <1>1, <1>3, RearrangedSizes
  <2>2. ASSUME NEW s
        PROVE  Cardinality({i \in A : a[i] = s}) = Cardinality({i \in B : b[i] = s})
    <3>1. Cardinality(Having(a, A, {s})) = Cardinality(Having(b, B, {s}))
      BY <1>1, <1>3, RearrangedCounts
    <3>2. Having(a, A, {s}) = {i \in A : a[i] = s} /\ Having(b, B, {s}) = {i \in B : b[i] = s}
      BY DEF Having
    <3> QED
      BY <3>1, <3>2
  <2> QED
    BY <1>1, <2>1, <2>2 DEF Terms!Reordered, Terms!Cardinality, Cardinality
<1> QED
  BY <1>2, <1>3

-------------------------------------------------------------------------------
(* Offers and receipts                                                        *)

(* A fee is a number of sats, no more than the cap; and without a flat part and a least    *)
(* fee no more than the rounded rate.                                                    *)
LEMMA FeesAreBounded ==
  ASSUME NEW amount \in Nat, NEW policy \in FeePolicy
  PROVE  LET fee == Terms!RouterFeeSats(amount, policy)
         IN  /\ fee \in Nat
             /\ fee # 0 /\ policy.max # -1 => fee <= policy.max
             /\ fee # 0 /\ policy.flat = 0 /\ policy.min = -1 =>
                  20000 * fee <= 2 * (amount * policy.bps) + 10000
<1> DEFINE fee == Terms!RouterFeeSats(amount, policy)
           x == amount * policy.bps
           rate == Terms!RoundDiv(x, 10000)
           due == rate + policy.flat
<1>1. /\ policy.bps \in Nat /\ policy.flat \in Nat /\ policy.min \in Int /\ policy.max \in Int
  BY DEF FeePolicy, OrUnset
<1>2. x \in Nat
  BY <1>1
<1> HIDE DEF x
<1>3. rate \in Int /\ 20000 * rate <= 2 * x + 10000
  <2>1. 2 * x + 10000 \in Int
    BY <1>2
  <2>2. rate = (2 * x + 10000) \div 20000
    BY <1>2 DEF Terms!RoundDiv
  <2> HIDE DEF rate
  <2> QED
    BY <2>1, <2>2, Quotient
<1>4. \/ fee = 0
      \/ fee = Terms!Greater(0, Terms!Bounded(due, policy))
  BY DEF Terms!RouterFeeSats, x
<1> HIDE DEF rate, fee
<1>5. CASE fee = 0
  BY <1>5 DEF fee
<1>6. CASE fee = Terms!Greater(0, Terms!Bounded(due, policy))
  <2> DEFINE least == IF policy.min = -1 THEN due ELSE Terms!Greater(policy.min, due)
             bounded == IF policy.max = -1 THEN least ELSE Terms!Lesser(policy.max, least)
  <2>1. Terms!Bounded(due, policy) = bounded
    BY DEF Terms!Bounded, Terms!Unset
  <2>2. due \in Int
    BY <1>1, <1>3
  <2>3. least \in Int /\ (policy.min = -1 => least = due)
    BY <1>1, <2>2 DEF Terms!Greater
  <2> HIDE DEF least
  <2>4. bounded \in Int /\ (policy.max # -1 => bounded <= policy.max) /\ bounded <= least
    BY <1>1, <2>3 DEF Terms!Lesser
  <2> HIDE DEF bounded
  <2>5. fee \in Nat /\ (fee # 0 => fee = bounded)
    BY <1>6, <2>1, <2>4 DEF Terms!Greater
  <2>6. fee # 0 /\ policy.max # -1 => fee <= policy.max
    BY <2>4, <2>5
  <2>7. ASSUME fee # 0, policy.flat = 0, policy.min = -1 PROVE 20000 * fee <= 2 * x + 10000
    <3>1. fee <= rate
      BY <1>3, <2>3, <2>4, <2>5, <2>7
    <3> QED
      BY <1>2, <1>3, <2>5, <3>1
  <2> QED
    BY <2>5, <2>6, <2>7 DEF fee, x
<1> QED
  BY <1>4, <1>5, <1>6

(* A pair of splits turned round. *)
Turned(s) == [i \in DOMAIN s |-> s[Len(s) + 1 - i]]

LEMMA TurnedIsRearranged ==
  ASSUME NEW s \in Seq(Split)
  PROVE  Turned(s) \in Seq(Split) /\ Rearranged(s, DOMAIN s, Turned(s), DOMAIN Turned(s))
<1>1. /\ DOMAIN s = 1 .. Len(s) /\ Len(s) \in Nat
      /\ \A i \in DOMAIN s : s[i] \in Split
  BY SplitsAreTyped
<1> DEFINE n == Len(s)
           m == [i \in 1 .. n |-> n + 1 - i]
<1> HIDE DEF n
<1>2. DOMAIN Turned(s) = 1 .. n /\ \A i \in 1 .. n : Turned(s)[i] = s[n + 1 - i]
  BY <1>1 DEF Turned, n
<1>3. \A i \in 1 .. n : n + 1 - i \in 1 .. n /\ n + 1 - (n + 1 - i) = i
  BY <1>1 DEF n
<1>4. Turned(s) \in Seq(Split)
  <2>1. \A i \in 1 .. n : s[n + 1 - i] \in Split
    BY <1>1, <1>3 DEF n
  <2>2. Turned(s) = [i \in 1 .. n |-> s[n + 1 - i]]
    BY <1>1 DEF Turned, n
  <2> QED
    BY <1>1, <2>1, <2>2 DEF n
<1>5. m \in [1 .. n -> 1 .. n]
  BY <1>3
<1>6. /\ \A i, j \in 1 .. n : m[i] = m[j] => i = j
      /\ \A j \in 1 .. n : \E i \in 1 .. n : m[i] = j
      /\ \A i \in 1 .. n : Turned(s)[m[i]] = s[i]
  BY <1>2, <1>3
<1> HIDE DEF m
<1>7. Rearranged(s, 1 .. n, Turned(s), 1 .. n)
  BY <1>5, <1>6 DEF Rearranged
<1> QED
  BY <1>1, <1>2, <1>4, <1>7 DEF n

(* An offer has splits, which add up, if there is a fee. *)
LEMMA SplitsOfOffer ==
  ASSUME NEW amount \in Nat, NEW fee \in Nat
  PROVE  LET s == Terms!Splits(1, 2, amount, fee)
         IN  /\ s \in Seq(Split)
             /\ s # <<>> <=> fee # 0
             /\ s # <<>> => Terms!SumSplits(s) = amount + fee
<1> DEFINE x == [type |-> "node", id |-> 1, amount |-> amount, role |-> "node-inference"]
           y == [type |-> "router", id |-> 2, amount |-> fee, role |-> "router-fee"]
           s == Terms!Splits(1, 2, amount, fee)
<1>1. x \in Split /\ y \in Split /\ x.amount = amount /\ y.amount = fee
  BY DEF Split
<1>2. s = IF fee = 0 THEN <<>> ELSE <<x, y>>
  BY DEF Terms!Splits
<1> HIDE DEF x, y, s
<1>3. s \in Seq(Split) /\ (s # <<>> <=> fee # 0)
  BY <1>1, <1>2
<1>4. ASSUME fee # 0 PROVE Terms!SumSplits(s) = amount + fee
  <2>1. s = <<x, y>>
    BY <1>2, <1>4
  <2>2. DOMAIN s = 1 .. 2 /\ s[1] = x /\ s[2] = y
    BY <2>1
  <2>3. \A i \in 1 .. 2 : s[i].amount \in Nat
    BY <1>1, <2>2
  <2>4. IsFiniteSet(1 .. 2) /\ IsFiniteSet({2})
    BY IntervalCounts, FS_Singleton
  <2>5. Terms!SumAt(s, 1 .. 2) = s[1].amount + Terms!SumAt(s, (1 .. 2) \ {1})
    BY <2>3, <2>4, SumOfOneMore
  <2>6. Terms!SumAt(s, {2}) = s[2].amount + Terms!SumAt(s, {2} \ {2})
    BY <2>3, <2>4, SumOfOneMore
  <2>7. (1 .. 2) \ {1} = {2} /\ {2} \ {2} = {}
    OBVIOUS
  <2>8. Terms!SumAt(s, 1 .. 2) = x.amount + (y.amount + 0)
    BY <2>2, <2>5, <2>6, <2>7, SumOfNone
  <2> QED
    BY <1>1, <2>2, <2>8 DEF Terms!SumSplits
<1> QED
  BY <1>3, <1>4 DEF s

(* The sums of the splits of one type, of the offer's splits in any order. *)
LEMMA PartsOfOffer ==
  ASSUME NEW amount \in Nat, NEW fee \in Nat \ {0}, NEW s,
         s \in {Terms!Splits(1, 2, amount, fee), Turned(Terms!Splits(1, 2, amount, fee))}
  PROVE  Terms!AmountOf("router", s) = fee /\ Terms!AmountOf("node", s) = amount
<1> DEFINE x == [type |-> "node", id |-> 1, amount |-> amount, role |-> "node-inference"]
           y == [type |-> "router", id |-> 2, amount |-> fee, role |-> "router-fee"]
<1>1. x.amount = amount /\ y.amount = fee /\ x.type = "node" /\ y.type = "router"
  OBVIOUS
<1>2. Terms!Splits(1, 2, amount, fee) = <<x, y>>
  BY DEF Terms!Splits
<1> HIDE DEF x, y
<1>3. Turned(<<x, y>>) = <<y, x>>
  BY DEF Turned
<1>4. PICK i \in 1 .. 2, j \in 1 .. 2 : DOMAIN s = {i, j} /\ i # j /\ s[i] = x /\ s[j] = y
  <2>1. DOMAIN s = 1 .. 2
    BY <1>2, <1>3
  <2>2. CASE s = <<x, y>>
    <3>1. s[1] = x /\ s[2] = y /\ DOMAIN s = {1, 2}
      BY <2>1, <2>2
    <3> QED
      BY <3>1
  <2>3. CASE s = <<y, x>>
    <3>1. s[2] = x /\ s[1] = y /\ DOMAIN s = {2, 1}
      BY <2>1, <2>3
    <3> QED
      BY <3>1
  <2> QED
    BY <1>2, <1>3, <2>2, <2>3
<1>5. ASSUME NEW k, s[k].amount \in Nat PROVE Terms!SumAt(s, {k}) = s[k].amount
  <2>1. IsFiniteSet({k}) /\ {k} \ {k} = {}
    BY FS_Singleton
  <2>2. Terms!SumAt(s, {k}) = s[k].amount + Terms!SumAt(s, {k} \ {k})
    BY <1>5, <2>1, SumOfOneMore
  <2> QED
    BY <1>5, <2>1, <2>2, SumOfNone
<1>6. /\ {k \in DOMAIN s : s[k].type = "node"} = {i}
      /\ {k \in DOMAIN s : s[k].type = "router"} = {j}
  BY <1>1, <1>4
<1>7. s[i].amount = amount /\ s[j].amount = fee
  BY <1>1, <1>4
<1> QED
  BY <1>5, <1>6, <1>7 DEF Terms!AmountOf

(* A receipt for an offer, as it is or with its splits turned round. *)
IsPaid(receipt, offer) ==
  /\ receipt.request = offer.request /\ receipt.type = offer.type /\ receipt.payee = offer.payee
  /\ receipt.amount = offer.amount /\ receipt.invoice = offer.invoice
  /\ receipt.splits \in {offer.splits, Turned(offer.splits)}

(* Router, library and node accept it. *)
LEMMA OffersAreAccepted ==
  ASSUME NEW nodeTotal \in Nat, NEW policy \in FeePolicy, NEW limit \in FeeLimit,
         NEW offer, offer = Terms!Offer("r", 1, 2, nodeTotal, policy, "i"),
         NEW receipt, IsPaid(receipt, offer)
  PROVE  /\ Terms!RouterAccepts(offer, receipt)
         /\ Terms!SdkMatches(receipt, offer)
         /\ Terms!LeavesRoom(policy, limit, Terms!Greater(1, nodeTotal)) =>
              Terms!NodeAccepts(1, "r", receipt, limit)
<1> DEFINE amount == Terms!Greater(1, nodeTotal)
           fee == Terms!RouterFeeSats(amount, policy)
           s == Terms!Splits(1, 2, amount, fee)
<1>1. amount \in Nat \ {0}
  BY DEF Terms!Greater
<1>2. /\ fee \in Nat
      /\ fee # 0 /\ policy.max # -1 => fee <= policy.max
      /\ fee # 0 /\ policy.flat = 0 /\ policy.min = -1 =>
           20000 * fee <= 2 * (amount * policy.bps) + 10000
  <2> HIDE DEF amount
  <2> QED
    BY <1>1, FeesAreBounded
<1>3. /\ offer.request = "r" /\ offer.type = "node" /\ offer.payee = 1
      /\ offer.amount = amount + fee /\ offer.splits = s /\ offer.invoice = "i"
  BY DEF Terms!Offer
<1> HIDE DEF amount, fee
<1>4. /\ s \in Seq(Split)
      /\ s # <<>> <=> fee # 0
      /\ s # <<>> => Terms!SumSplits(s) = amount + fee
  <2>1. amount \in Nat /\ fee \in Nat
    BY <1>1, <1>2
  <2> QED
    BY <2>1, SplitsOfOffer
<1> HIDE DEF s
<1>5. /\ receipt.splits \in Seq(Split)
      /\ Rearranged(s, DOMAIN s, receipt.splits, DOMAIN receipt.splits)
  <2>1. Terms!SplitsMatch(s, s)
    BY DEF Terms!SplitsMatch
  <2>2. Rearranged(s, DOMAIN s, s, DOMAIN s)
    BY <1>4, <2>1, MatchingIsRearranging
  <2>3. receipt.splits = s \/ receipt.splits = Turned(s)
    BY <1>3 DEF IsPaid
  <2> QED
    BY <1>4, <2>2, <2>3, TurnedIsRearranged
<1>6. /\ Terms!SplitsMatch(offer.splits, receipt.splits)
      /\ Terms!SumSplits(receipt.splits) = Terms!SumSplits(offer.splits)
  BY <1>3, <1>4, <1>5, MatchingIsRearranging, RearrangedSums
<1>7. receipt.splits # <<>> <=> s # <<>>
  <2>1. /\ IsFiniteSet(DOMAIN s) /\ Cardinality(DOMAIN s) = Len(s)
        /\ Cardinality(DOMAIN receipt.splits) = Len(receipt.splits)
    BY <1>4, <1>5, SplitsAreTyped
  <2>2. Len(receipt.splits) = Len(s)
    BY <1>5, <2>1, RearrangedSizes
  <2> QED
    BY <1>4, <1>5, <2>2, EmptySeq
<1>8. Terms!InvoicesAgree(offer, receipt)
  BY DEF Terms!InvoicesAgree, IsPaid
<1>9. receipt.splits # <<>> => Terms!SumSplits(receipt.splits) = receipt.amount
  BY <1>3, <1>4, <1>6, <1>7 DEF IsPaid
<1>10. Terms!RouterAccepts(offer, receipt) /\ Terms!SdkMatches(receipt, offer)
  BY <1>6, <1>8, <1>9 DEF Terms!RouterAccepts, Terms!SdkMatches, IsPaid
<1>11. ASSUME Terms!LeavesRoom(policy, limit, amount), receipt.splits # <<>>
       PROVE  Terms!FeeWithinLimit(receipt, limit)
  <2>1. fee \in Nat \ {0}
    BY <1>2, <1>4, <1>7, <1>11
  <2>2. Terms!AmountOf("router", receipt.splits) = fee
        /\ Terms!AmountOf("node", receipt.splits) = amount
    BY <1>1, <1>3, <2>1, PartsOfOffer DEF IsPaid, s
  <2>3. /\ policy.max \in Int /\ policy.bps \in Nat
        /\ limit.maxSats \in Int /\ (limit.maxBps = -1 \/ limit.maxBps \in Nat)
    <3>1. policy.max \in OrUnset(Nat) /\ policy.bps \in Nat
      BY DEF FeePolicy
    <3>2. limit.maxSats \in OrUnset(Nat) /\ limit.maxBps \in OrUnset(Nat)
      BY DEF FeeLimit
    <3> QED
      BY <3>1, <3>2 DEF OrUnset
  <2>4. limit.maxSats = -1 \/ fee <= limit.maxSats
    BY <1>2, <1>11, <2>1, <2>3 DEF Terms!LeavesRoom, Terms!Unset
  <2>5. limit.maxBps = -1 \/ fee <= (amount * limit.maxBps) \div 10000
    <3> SUFFICES ASSUME limit.maxBps # -1 PROVE fee <= (amount * limit.maxBps) \div 10000
      OBVIOUS
    <3> DEFINE x == amount * policy.bps
               y == amount * limit.maxBps
    <3>1. x \in Nat /\ y \in Nat
      BY <1>1, <2>3
    <3>2. 20000 * fee <= 2 * x + 10000
      BY <1>2, <1>11, <2>1 DEF Terms!LeavesRoom, Terms!Unset
    <3>3. x + 5000 <= y
      BY <1>11 DEF Terms!LeavesRoom, Terms!Unset
    <3> HIDE DEF x, y
    <3>4. 10000 * fee <= y
      BY <2>1, <3>1, <3>2, <3>3
    <3>5. fee <= y \div 10000
      BY <2>1, <3>1, <3>4, QuotientIsGreatest
    <3> QED
      BY <3>5 DEF y
  <2>6. amount # 0
    BY <1>1
  <2> QED
    BY <2>2, <2>4, <2>5, <2>6 DEF Terms!FeeWithinLimit, Terms!Unset
<1>12. ASSUME Terms!LeavesRoom(policy, limit, amount)
       PROVE  Terms!NodeAccepts(1, "r", receipt, limit)
  <2>1. /\ receipt.type = "node" /\ receipt.payee = 1 /\ receipt.request = "r"
        /\ receipt.amount = amount + fee
    BY <1>3 DEF IsPaid
  <2>2. receipt.amount >= 1
    BY <1>1, <1>2, <2>1
  <2> QED
    BY <1>9, <1>11, <1>12, <2>1, <2>2 DEF Terms!NodeAccepts
<1> QED
  BY <1>10, <1>12 DEF amount

(* What the router counts as unpaid is expired for the library too: it allows no less time. *)
LEMMA MissingIsExpired ==
  ASSUME NEW expires, NEW paid, NEW at \in Int, NEW grace \in Int,
         \A k \in DOMAIN expires : expires[k] \in Int
  PROVE  Terms!RouterMissing(expires, paid, at, grace) \subseteq Terms!SdkExpired(expires, paid, at)
<1> SUFFICES ASSUME NEW k \in DOMAIN expires, k \notin paid,
                    expires[k] + Terms!Greater(0, grace) < at
             PROVE  expires[k] <= at
  BY DEF Terms!RouterMissing, Terms!SdkExpired
<1>1. expires[k] \in Int /\ Terms!Greater(0, grace) \in Nat
  BY DEF Terms!Greater
<1> QED
  BY <1>1

(* A receipt for what was offered is accepted by all who judge it, in whatever order its  *)
(* splits are and for every price, fee policy and limit with room for the rounding; the   *)
(* router accepts only what the client library does, and exactly the offered splits in    *)
(* some order; and the router never counts as unpaid what has not expired for the library. *)
THEOREM ReceiptsHonourOffers == DecisionSpec => []TermsAreHonoured
<1>1. InputTypeOK => TermsAreHonoured
  <2> SUFFICES ASSUME InputTypeOK PROVE TermsAreHonoured
    OBVIOUS
  <2>1. ASSUME input.kind = "offer"
        PROVE  LET offer == Terms!Offer("r", 1, 2, input.nodeTotal, input.policy, "i")
                   paid  == Terms!CreatePaymentReceipt(offer)
                   turned == [paid EXCEPT !.splits = [i \in DOMAIN @ |-> @[Len(@) + 1 - i]]]
               IN  \A receipt \in {paid, turned} :
                     /\ Terms!RouterAccepts(offer, receipt)
                     /\ Terms!SdkMatches(receipt, offer)
                     /\ Terms!LeavesRoom(input.policy, input.limit,
                                         Terms!Greater(1, input.nodeTotal)) =>
                          Terms!NodeAccepts(1, "r", receipt, input.limit)
    <3> DEFINE offer == Terms!Offer("r", 1, 2, input.nodeTotal, input.policy, "i")
               paid  == Terms!CreatePaymentReceipt(offer)
               turned == [paid EXCEPT !.splits = [i \in DOMAIN @ |-> @[Len(@) + 1 - i]]]
    <3>1. input.nodeTotal \in Nat /\ input.policy \in FeePolicy /\ input.limit \in FeeLimit
      <4>1. input \in Offers
        BY <2>1 DEF InputTypeOK
      <4>2. input \in [kind : {"offer"}, nodeTotal : Nat, policy : FeePolicy, limit : FeeLimit]
        BY <4>1, PaymentsAssumption
      <4> QED
        BY <4>2
    <3>2. IsPaid(paid, offer) /\ IsPaid(turned, offer)
      BY DEF IsPaid, Turned, Terms!CreatePaymentReceipt, Terms!Offer
    <3> HIDE DEF offer, paid, turned
    <3>3. ASSUME NEW receipt \in {paid, turned}
          PROVE  /\ Terms!RouterAccepts(offer, receipt)
                 /\ Terms!SdkMatches(receipt, offer)
                 /\ Terms!LeavesRoom(input.policy, input.limit,
                                     Terms!Greater(1, input.nodeTotal)) =>
                      Terms!NodeAccepts(1, "r", receipt, input.limit)
      <4>1. IsPaid(receipt, offer)
        BY <3>2
      <4> QED
        BY <3>1, <4>1, OffersAreAccepted DEF offer
    <3> QED
      BY <3>3 DEF offer, paid, turned
  <2>2. ASSUME input.kind = "receipt"
        PROVE  /\ Terms!RouterAccepts(input.offer, input.receipt) =>
                    Terms!SdkMatches(input.receipt, input.offer)
               /\ Terms!SplitsMatch(input.offer.splits, input.receipt.splits)
                    <=> Terms!Reordered(input.offer.splits, input.receipt.splits)
    <3> DEFINE a == input.offer.splits
               b == input.receipt.splits
    <3>1. a \in Seq(Split) /\ b \in Seq(Split)
      BY <2>2, PaymentsAssumption DEF InputTypeOK
    <3>2. /\ Terms!SplitsMatch(a, b) <=> Terms!Reordered(a, b)
          /\ Terms!SplitsMatch(a, b) => Terms!SumSplits(a) = Terms!SumSplits(b)
      BY <3>1, MatchingIsRearranging, ReorderingIsRearranging, RearrangedSums
    <3>3. Terms!RouterAccepts(input.offer, input.receipt) =>
            Terms!SdkMatches(input.receipt, input.offer)
      BY <3>2 DEF Terms!RouterAccepts, Terms!SdkMatches
    <3> QED
      BY <3>2, <3>3
  <2>3. ASSUME input.kind = "unpaid"
        PROVE  Terms!RouterMissing(input.expires, input.paid, input.now, input.grace)
                 \subseteq Terms!SdkExpired(input.expires, input.paid, input.now)
    <3>1. /\ input.now \in Int /\ input.grace \in Int
          /\ \A k \in DOMAIN input.expires : input.expires[k] \in Int
      BY <2>3, PaymentsAssumption DEF InputTypeOK
    <3> QED
      BY <3>1, MissingIsExpired
  <2> QED
    BY <2>1, <2>2, <2>3 DEF TermsAreHonoured
<1> QED
  BY <1>1, InputsAreTyped, PTL

-------------------------------------------------------------------------------
(* Relays: what is merged                                                     *)

RelayEntry(urls) == [url : urls, score : OrUnset(Int), latency : OrUnset(Nat)]
Trusted(trust) == \A u \in DOMAIN trust : trust[u] \in Int

(* A descriptor has the priority of its score. *)
IsDescriptor(d) ==
  /\ d = [url |-> d.url, score |-> d.score, priority |-> Relays!ComputePriority(d.score)]
  /\ d.score \in Int

LEMMA PrioritiesAreNumbers ==
  ASSUME NEW x \in Int
  PROVE  Relays!ComputePriority(x) \in Int
  BY DEF Relays!ComputePriority, Relays!Greater, Relays!Lesser

LEMMA DescriptorsAreScored ==
  ASSUME NEW trust, Trusted(trust), NEW e \in RelayEntry(DOMAIN trust)
  PROVE  IsDescriptor(Relays!ToDescriptor(e, trust))
<1> DEFINE base    == Relays!Greater(1, Relays!Given(e.score, 5))
           penalty == IF e.latency = -1 THEN 0 ELSE e.latency \div 200
           score   == Relays!Greater(0, base + trust[e.url] - penalty)
<1>1. Relays!ToDescriptor(e, trust)
        = [url |-> e.url, score |-> score, priority |-> Relays!ComputePriority(score)]
  BY DEF Relays!ToDescriptor, Relays!Unset
<1>2. e.url \in DOMAIN trust /\ e.score \in Int /\ (e.latency = -1 \/ e.latency \in Nat)
  BY DEF RelayEntry, OrUnset
<1>3. base \in Int
  BY <1>2 DEF Relays!Greater, Relays!Given
<1>4. penalty \in Int
  BY <1>2, Quotient
<1>5. trust[e.url] \in Int
  BY <1>2 DEF Trusted
<1> HIDE DEF base, penalty
<1>6. score \in Int
  BY <1>3, <1>4, <1>5 DEF Relays!Greater
<1> HIDE DEF score
<1> QED
  BY <1>1, <1>6 DEF IsDescriptor

(* One descriptor for each URL of D, with the best score that D has for it. *)
Merged(all, D) ==
  /\ all = [i \in 1 .. Len(all) |-> all[i]] /\ Len(all) \in Nat
  /\ \A i \in 1 .. Len(all) : IsDescriptor(all[i])
  /\ \A i, j \in 1 .. Len(all) : all[i].url = all[j].url => i = j
  /\ \A i \in 1 .. Len(all) : \E d \in D : d.url = all[i].url /\ d.score = all[i].score
  /\ \A d \in D : \E i \in 1 .. Len(all) : d.url = all[i].url /\ d.score <= all[i].score

LEMMA MergeKeepsBest ==
  ASSUME NEW all, NEW D, Merged(all, D), NEW d, IsDescriptor(d), \A c \in D : IsDescriptor(c)
  PROVE  Merged(Relays!MergeDescriptor(all, d), D \cup {d})
<1> DEFINE n == Len(all)
           known == {i \in 1 .. n : all[i].url = d.url}
           better(i) == [d EXCEPT !.score    = Relays!Greater(all[i].score, @),
                                  !.priority = Relays!Greater(all[i].priority, @)]
           new == Relays!MergeDescriptor(all, d)
<1>1. /\ n \in Nat /\ DOMAIN all = 1 .. n /\ d.score \in Int
      /\ \A i \in 1 .. n : IsDescriptor(all[i]) /\ all[i].score \in Int
      /\ \A c \in D : c.score \in Int
  BY DEF Merged, IsDescriptor
<1>2. new = IF known = {} THEN Append(all, d)
            ELSE [i \in 1 .. n |-> IF i \notin known THEN all[i] ELSE better(i)]
  BY <1>1 DEF Relays!MergeDescriptor
<1>3. CASE known = {}
  <2>1. new = Append(all, d)
    BY <1>2, <1>3
  <2>3. /\ Len(new) = n + 1 /\ new[n + 1] = d
        /\ \A i \in 1 .. n : new[i] = all[i]
        /\ new = [i \in 1 .. Len(new) |-> new[i]]
    <3> DEFINE V == {all[i] : i \in 1 .. n} \cup {d}
    <3>1. all \in Seq(V) /\ d \in V
      <4>1. d \in V /\ \A i \in 1 .. n : all[i] \in V
        OBVIOUS
      <4>2. all = [i \in 1 .. n |-> all[i]] /\ n \in Nat
        BY DEF Merged
      <4> HIDE DEF V, n
      <4> QED
        BY <4>1, <4>2
    <3> HIDE DEF V
    <3>2. /\ new \in Seq(V) /\ Len(new) = Len(all) + 1
          /\ \A i \in 1 .. Len(new) : new[i] = IF i <= Len(all) THEN all[i] ELSE d
      BY <2>1, <3>1, AppendProperties
    <3>3. new = [i \in 1 .. Len(new) |-> new[i]]
      BY <3>2
    <3> HIDE DEF new
    <3> QED
      BY <1>1, <3>2, <3>3
  <2> HIDE DEF new
  <2>4. \A i \in 1 .. n + 1 : IsDescriptor(new[i])
    <3> TAKE i \in 1 .. n + 1
    <3>1. i \in 1 .. n \/ i = n + 1
      BY <1>1
    <3> QED
      BY <1>1, <2>3, <3>1
  <2>5. ASSUME NEW i \in 1 .. n + 1, NEW j \in 1 .. n + 1, new[i].url = new[j].url PROVE i = j
    <3>1. (i \in 1 .. n \/ i = n + 1) /\ (j \in 1 .. n \/ j = n + 1)
      BY <1>1
    <3>2. \A k \in 1 .. n : all[k].url # d.url
      BY <1>3
    <3> HIDE DEF n
    <3> QED
      BY <2>3, <2>5, <3>1, <3>2 DEF Merged, n
  <2>6. ASSUME NEW i \in 1 .. n + 1
        PROVE  \E c \in D \cup {d} : c.url = new[i].url /\ c.score = new[i].score
    <3>1. i \in 1 .. n \/ i = n + 1
      BY <1>1
    <3>2. \A k \in 1 .. n : \E c \in D : c.url = all[k].url /\ c.score = all[k].score
      BY DEF Merged
    <3> HIDE DEF n
    <3> QED
      BY <2>3, <3>1, <3>2
  <2>7. ASSUME NEW c \in D \cup {d}
        PROVE  \E i \in 1 .. n + 1 : c.url = new[i].url /\ c.score <= new[i].score
    <3>1. CASE c \in D
      <4>1. PICK i \in 1 .. n : c.url = all[i].url /\ c.score <= all[i].score
        BY <3>1 DEF Merged
      <4>2. i \in 1 .. n + 1
        BY <1>1
      <4> QED
        BY <2>3, <4>1, <4>2
    <3>2. CASE c = d
      <4>1. n + 1 \in 1 .. n + 1 /\ c.score <= d.score
        BY <1>1, <3>2
      <4> QED
        BY <2>3, <3>2, <4>1
    <3> QED
      BY <3>1, <3>2
  <2>8. Len(new) = n + 1 /\ n + 1 \in Nat
    BY <1>1, <2>3
  <2> HIDE DEF n
  <2>9. Merged(new, D \cup {d})
    BY <2>3, <2>4, <2>5, <2>6, <2>7, <2>8 DEF Merged
  <2> QED
    BY <2>9 DEF new
<1>4. CASE known # {}
  <2>1. PICK k \in 1 .. n : all[k].url = d.url
    BY <1>4
  <2>2. known = {k}
    BY <2>1 DEF Merged
  <2>3. new = [i \in 1 .. n |-> IF i # k THEN all[i] ELSE better(k)]
    <3> HIDE DEF better, n, known
    <3>1. \A i \in 1 .. n : (i \notin known <=> i # k)
      BY <2>2
    <3>2. [i \in 1 .. n |-> IF i \notin known THEN all[i] ELSE better(i)]
            = [i \in 1 .. n |-> IF i # k THEN all[i] ELSE better(k)]
      BY <3>1
    <3> QED
      BY <1>2, <1>4, <3>2
  <2>4. /\ new[k] = better(k) /\ Len(new) = n
        /\ \A i \in 1 .. n : i # k => new[i] = all[i]
        /\ new = [i \in 1 .. Len(new) |-> new[i]]
    BY <1>1, <2>3
  <2>5. /\ better(k).url = d.url
        /\ better(k).score = Relays!Greater(all[k].score, d.score)
        /\ IsDescriptor(better(k))
    <3> DEFINE old == all[k]
               P(x) == Relays!ComputePriority(x)
               top == Relays!Greater(old.score, d.score)
    <3>1. /\ IsDescriptor(old) /\ old.score \in Int /\ old.priority = P(old.score)
          /\ d = [url |-> d.url, score |-> d.score, priority |-> P(d.score)]
      BY <1>1 DEF IsDescriptor
    <3>2. better(k) = [url |-> d.url, score |-> Relays!Greater(old.score, d.score),
                       priority |-> Relays!Greater(old.priority, d.priority)]
      <4>1. d.url = d.url /\ DOMAIN d = {"url", "score", "priority"}
        <5> HIDE DEF P, old
        <5> QED
          BY <3>1
      <4> DEFINE e == [d EXCEPT !.score = Relays!Greater(old.score, @)]
      <4>2. better(k) = [e EXCEPT !.priority = Relays!Greater(old.priority, @)]
        BY DEF old
      <4>3. e = [url |-> d.url, score |-> Relays!Greater(old.score, d.score),
                 priority |-> d.priority]
        <5> HIDE DEF old
        <5> QED
          BY <3>1
      <4> HIDE DEF e, old
      <4> QED
        BY <4>2, <4>3
    <3>3. Relays!Greater(P(old.score), P(d.score)) = P(top)
      <4> HIDE DEF old
      <4> QED
        BY <1>1, <3>1 DEF Relays!Greater, Relays!ComputePriority, Relays!Lesser
    <3>4. d.priority = P(d.score)
      <4> HIDE DEF P, old
      <4> QED
        BY <3>1
    <3>5. top \in Int
      BY <1>1, <3>1 DEF Relays!Greater
    <3> HIDE DEF better, top, P, old
    <3>6. better(k) = [url |-> d.url, score |-> top, priority |-> P(top)]
      BY <3>1, <3>2, <3>3, <3>4 DEF top
    <3> QED
      BY <3>5, <3>6 DEF IsDescriptor, top, old, P
  <2>6. /\ better(k).score \in {all[k].score, d.score}
        /\ all[k].score <= better(k).score /\ d.score <= better(k).score
    BY <1>1, <2>5 DEF Relays!Greater
  <2> HIDE DEF new, better, known
  <2>7. \A i \in 1 .. n : /\ IsDescriptor(new[i]) /\ new[i].url = all[i].url
                          /\ all[i].score <= new[i].score
    <3> TAKE i \in 1 .. n
    <3>1. all[i].score <= all[i].score
      BY <1>1
    <3> QED
      BY <1>1, <2>1, <2>4, <2>5, <2>6, <3>1
  <2>8. ASSUME NEW i \in 1 .. n
        PROVE  \E c \in D \cup {d} : c.url = new[i].url /\ c.score = new[i].score
    <3>1. PICK c \in D : c.url = all[i].url /\ c.score = all[i].score
      BY DEF Merged
    <3> HIDE DEF n
    <3> QED
      BY <2>1, <2>4, <2>5, <2>6, <3>1
  <2>9. ASSUME NEW c \in D \cup {d}
        PROVE  \E i \in 1 .. n : c.url = new[i].url /\ c.score <= new[i].score
    <3>1. CASE c \in D
      <4>1. PICK i \in 1 .. n : c.url = all[i].url /\ c.score <= all[i].score
        BY <3>1 DEF Merged
      <4>2. c.score \in Int /\ all[i].score \in Int /\ new[i].score \in Int
        BY <1>1, <2>7, <3>1 DEF IsDescriptor
      <4>3. c.score <= new[i].score
        BY <2>7, <4>1, <4>2
      <4> QED
        BY <2>7, <4>1, <4>3
    <3>2. CASE c = d
      BY <2>1, <2>4, <2>5, <2>6, <3>2
    <3> QED
      BY <3>1, <3>2
  <2>10. \A i, j \in 1 .. n : new[i].url = new[j].url => i = j
    BY <2>7 DEF Merged
  <2> HIDE DEF n
  <2>11. Merged(new, D \cup {d})
    BY <1>1, <2>4, <2>7, <2>8, <2>9, <2>10 DEF Merged
  <2> QED
    BY <2>11 DEF new
<1> QED
  BY <1>3, <1>4

Descriptors(es, trust, S) == {Relays!ToDescriptor(es[k], trust) : k \in S}
MergeNext(all, es, trust, k) == Relays!MergeDescriptor(all, Relays!ToDescriptor(es[k], trust))

(* F has what is merged of the entries with the numbers of a set, for every set in Ss. *)
Merges(F, es, trust, Ss) ==
  F = [s \in Ss |-> IF s = {} THEN <<>>
                    ELSE MergeNext(F[s \ {Scores!Max(s)}], es, trust, Scores!Max(s))]

Small(n, k) == {s \in SUBSET (1 .. n) : Cardinality(s) <= k}

(* Set by set, from the smaller ones, such a function comes about. *)
LEMMA MergesExist ==
  ASSUME NEW es, NEW trust, NEW n \in Nat
  PROVE  \E F : Merges(F, es, trust, SUBSET (1 .. n))
<1> DEFINE wrong == {k \in Nat : ~ \E F : Merges(F, es, trust, Small(n, k))}
<1>1. ASSUME NEW s \in SUBSET (1 .. n), s # {}
      PROVE  /\ Scores!Max(s) \in s /\ s \ {Scores!Max(s)} \in SUBSET (1 .. n)
             /\ Cardinality(s) \in Nat /\ Cardinality(s \ {Scores!Max(s)}) = Cardinality(s) - 1
  <2>1. Scores!Max(s) \in s
    BY <1>1, LastOf
  <2>2. IsFiniteSet(s)
    BY IntervalCounts, FS_Subset
  <2> HIDE DEF wrong
  <2> QED
    BY <2>1, <2>2, FS_RemoveElement, FS_CardinalityType
<1>2. wrong = {}
  <2> SUFFICES ASSUME wrong # {} PROVE FALSE
    OBVIOUS
  <2>1. PICK k \in wrong : \A l \in wrong : k <= l
    <3>1. wrong \in SUBSET Nat
      OBVIOUS
    <3> HIDE DEF wrong
    <3> QED
      BY <3>1, LeastOf
  <2>2. k \in Nat /\ ~ \E F : Merges(F, es, trust, Small(n, k))
    OBVIOUS
  <2>3. CASE k = 0
    <3>1. \A s \in Small(n, 0) : s = {}
      <4> TAKE s \in Small(n, 0)
      <4>1. IsFiniteSet(s) /\ Cardinality(s) \in Nat /\ Cardinality(s) <= 0
        BY IntervalCounts, FS_Subset, FS_CardinalityType DEF Small
      <4> QED
        BY <4>1, FS_EmptySet
    <3> DEFINE G == [s \in Small(n, 0) |-> <<>>]
    <3>2. Merges(G, es, trust, Small(n, 0))
      <4>1. [s \in Small(n, 0) |-> IF s = {} THEN <<>>
                ELSE MergeNext(G[s \ {Scores!Max(s)}], es, trust, Scores!Max(s))] = G
        BY <3>1
      <4> QED
        BY <4>1 DEF Merges
    <3> QED
      BY <2>2, <2>3, <3>2
  <2>4. CASE k # 0
    <3>1. k - 1 \in Nat /\ k - 1 \notin wrong
      <4>1. k - 1 \in Nat /\ ~ (k <= k - 1)
        BY <2>2, <2>4
      <4> HIDE DEF wrong
      <4> QED
        BY <2>1, <4>1
    <3>2. PICK H : Merges(H, es, trust, Small(n, k - 1))
      BY <3>1
    <3> DEFINE Val(F, s) == IF s = {} THEN <<>>
                            ELSE MergeNext(F[s \ {Scores!Max(s)}], es, trust, Scores!Max(s))
               G == [s \in Small(n, k) |-> Val(H, s)]
    <3>3. \A s \in Small(n, k - 1) : s \in Small(n, k) /\ H[s] = Val(H, s)
      <4> TAKE s \in Small(n, k - 1)
      <4>1. Cardinality(s) \in Nat
        BY IntervalCounts, FS_Subset, FS_CardinalityType DEF Small
      <4>2. s \in Small(n, k)
        BY <2>2, <4>1 DEF Small
      <4> QED
        BY <3>2, <4>2 DEF Merges
    <3>4. \A s \in Small(n, k) : Val(G, s) = Val(H, s)
      <4> SUFFICES ASSUME NEW s \in Small(n, k), s # {} PROVE Val(G, s) = Val(H, s)
        OBVIOUS
      <4> DEFINE r == s \ {Scores!Max(s)}
      <4>1. r \in Small(n, k - 1)
        BY <1>1, <2>2 DEF Small
      <4> HIDE DEF r, Val
      <4>2. G[r] = H[r]
        BY <3>3, <4>1
      <4> HIDE DEF G
      <4> QED
        BY <4>2 DEF r, Val
    <3>5. G = [s \in Small(n, k) |-> Val(G, s)]
      <4> HIDE DEF Val
      <4>1. \A s \in Small(n, k) : G[s] = Val(G, s)
        BY <3>4
      <4>2. G = [s \in Small(n, k) |-> G[s]]
        OBVIOUS
      <4> HIDE DEF G
      <4> QED
        BY <4>1, <4>2
    <3>6. Merges(G, es, trust, Small(n, k))
      <4> HIDE DEF G
      <4> QED
        BY <3>5 DEF Merges
    <3> QED
      BY <2>2, <3>6
  <2> QED
    BY <2>3, <2>4
<1>3. Small(n, n) = SUBSET (1 .. n)
  <2>1. ASSUME NEW s \in SUBSET (1 .. n) PROVE Cardinality(s) <= n
    <3>1. IsFiniteSet(1 .. n) /\ Cardinality(1 .. n) = n
      BY FS_Interval
    <3>2. Cardinality(s) <= Cardinality(1 .. n)
      BY <3>1, FS_Subset
    <3> QED
      BY <3>1, <3>2
  <2> QED
    BY <2>1 DEF Small
<1>4. n \notin wrong
  <2> HIDE DEF wrong
  <2> QED
    BY <1>2
<1>5. \E F : Merges(F, es, trust, Small(n, n))
  BY <1>4
<1> QED
  BY <1>3, <1>5

(* What has been merged of the first k entries is the best of their descriptors for each URL. *)
LEMMA MergesKeepBest ==
  ASSUME NEW trust, Trusted(trust), NEW es, NEW n \in Nat,
         \A k \in 1 .. n : es[k] \in RelayEntry(DOMAIN trust),
         NEW F, Merges(F, es, trust, SUBSET (1 .. n))
  PROVE  Merged(F[1 .. n], Descriptors(es, trust, 1 .. n))
<1> DEFINE Good(k) == Merged(F[1 .. k], Descriptors(es, trust, 1 .. k))
           wrong == {k \in 0 .. n : ~ Good(k)}
<1>1. F[{}] = <<>>
  BY DEF Merges
<1>2. Good(0)
  <2>1. 1 .. 0 = {}
    OBVIOUS
  <2>2. Merged(<<>>, {})
    BY DEF Merged
  <2>3. Descriptors(es, trust, {}) = {}
    BY DEF Descriptors
  <2> QED
    BY <1>1, <2>1, <2>2, <2>3
<1>3. ASSUME NEW k \in 1 .. n, Good(k - 1) PROVE Good(k)
  <2> DEFINE d == Relays!ToDescriptor(es[k], trust)
  <2>1. k \in Nat /\ k - 1 \in Nat /\ 1 .. k \in SUBSET (1 .. n) /\ 1 .. k # {} /\ k \in 1 .. k
    OBVIOUS
  <2>2. Scores!Max(1 .. k) = k
    <3>1. Scores!Max(1 .. k) \in 1 .. k /\ Scores!Max(1 .. k) >= k
      BY <2>1, LastOf
    <3> QED
      BY <2>1, <3>1
  <2>3. (1 .. k) \ {k} = 1 .. k - 1
    BY <2>1
  <2>4. F[1 .. k] = Relays!MergeDescriptor(F[1 .. k - 1], d)
    BY <2>1, <2>2, <2>3 DEF Merges, MergeNext
  <2>5. IsDescriptor(d) /\ \A c \in Descriptors(es, trust, 1 .. k - 1) : IsDescriptor(c)
    BY <2>1, DescriptorsAreScored DEF Descriptors
  <2>6. Descriptors(es, trust, 1 .. k) = Descriptors(es, trust, 1 .. k - 1) \cup {d}
    <3>1. 1 .. k = (1 .. k - 1) \cup {k}
      BY <2>1
    <3> QED
      BY <3>1 DEF Descriptors
  <2> HIDE DEF d
  <2> QED
    BY <1>3, <2>4, <2>5, <2>6, MergeKeepsBest
<1> HIDE DEF Good
<1>4. wrong = {}
  <2> SUFFICES ASSUME wrong # {} PROVE FALSE
    OBVIOUS
  <2>1. PICK k \in wrong : \A l \in wrong : k <= l
    <3>1. wrong \in SUBSET Nat
      OBVIOUS
    <3> HIDE DEF wrong
    <3> QED
      BY <3>1, LeastOf
  <2>2. k \in 1 .. n /\ ~ (k <= k - 1)
    BY <1>2
  <2>3. Good(k - 1)
    BY <2>1, <2>2
  <2> QED
    BY <1>3, <2>2, <2>3
<1> QED
  BY <1>4 DEF Good

(* The fold over the entries. *)
MergeEntry(trust, merged, e) == Relays!MergeDescriptor(merged, Relays!ToDescriptor(e, trust))
MergedOf(es, trust) ==
  Relays!FoldLeft(LAMBDA merged, e : MergeEntry(trust, merged, e), <<>>, es)

LEMMA EntriesAreMerged ==
  ASSUME NEW trust, Trusted(trust), NEW es \in Entries(DOMAIN trust)
  PROVE  Merged(MergedOf(es, trust), Descriptors(es, trust, DOMAIN es))
<1> DEFINE n == Len(es)
           IsFold(F) == F = [s \in SUBSET (1 .. n) |->
                          IF s = {} THEN <<>>
                          ELSE MergeEntry(trust, F[s \ {Scores!Max(s)}], es[Scores!Max(s)])]
           fold == CHOOSE F : IsFold(F)
<1>1. /\ DOMAIN es = 1 .. n /\ n \in Nat
      /\ \A k \in 1 .. n : es[k] \in RelayEntry(DOMAIN trust)
  BY LenProperties, ElementOfSeq DEF Entries, RelayEntry
<1>2. MergedOf(es, trust) = fold[1 .. n]
  BY <1>1 DEF MergedOf, Relays!FoldLeft, Relays!MapThenFoldSet, Relays!Max, Scores!Max
<1>3. \A F : IsFold(F) <=> Merges(F, es, trust, SUBSET (1 .. n))
  BY DEF Merges, MergeNext, MergeEntry
<1> HIDE DEF IsFold, n
<1>4. IsFold(fold)
  BY <1>1, <1>3, MergesExist
<1> HIDE DEF fold
<1> QED
  BY <1>1, <1>2, <1>3, <1>4, MergesKeepBest

-------------------------------------------------------------------------------
(* Relays: in what order                                                      *)

HigherOf(V) ==
  {x \in V \X V : \/ x[1].score > x[2].score
                  \/ x[1].score = x[2].score /\ x[1].priority > x[2].priority}
Kept(all, least) == {i \in DOMAIN all : all[i].score >= least}

RelaysSorted(all, least, V) ==
  /\ Sortable(HigherOf(V), all, Kept(all, least))
  /\ Relays!SortedByScore(all, least)
       = [p \in 1 .. Cardinality(Kept(all, least)) |->
            all[Holder(HigherOf(V), all, Kept(all, least), p)]]

LEMMA RelaysAreSorted ==
  ASSUME NEW all, NEW D, Merged(all, D), NEW least \in Int,
         NEW V, \A i \in 1 .. Len(all) : all[i] \in V
  PROVE  RelaysSorted(all, least, V)
<1> DEFINE A == Kept(all, least)
           K == HigherOf(V)
           Higher(a, b) == a.score > b.score \/ (a.score = b.score /\ a.priority > b.priority)
           Earlier(j, i) == \/ Higher(all[j], all[i])
                            \/ ~ Higher(all[i], all[j]) /\ j < i
           Chosen(p) == CHOOSE i \in A : Cardinality({j \in A : Earlier(j, i)}) + 1 = p
<1>1. /\ Len(all) \in Nat /\ DOMAIN all = 1 .. Len(all)
      /\ A \in SUBSET (1 .. Len(all))
      /\ \A i \in A : all[i] \in V /\ all[i].score \in Int /\ all[i].priority \in Int
  <2>1. Len(all) \in Nat /\ DOMAIN all = 1 .. Len(all)
    BY DEF Merged
  <2>2. \A i \in 1 .. Len(all) : all[i].score \in Int /\ all[i].priority \in Int
    <3> TAKE i \in 1 .. Len(all)
    <3>1. IsDescriptor(all[i])
      BY DEF Merged
    <3>2. all[i].priority = Relays!ComputePriority(all[i].score) /\ all[i].score \in Int
      BY <3>1 DEF IsDescriptor
    <3> QED
      BY <3>2, PrioritiesAreNumbers
  <2> QED
    BY <2>1, <2>2 DEF Kept
<1>2. IsFiniteSet(A) /\ A \subseteq Nat
  <2>1. IsFiniteSet(1 .. Len(all)) /\ 1 .. Len(all) \subseteq Nat
    BY <1>1, IntervalCounts
  <2> HIDE DEF A
  <2> QED
    BY <1>1, <2>1, FS_Subset
<1>3. Relays!SortedByScore(all, least) = [p \in 1 .. Cardinality(A) |-> all[Chosen(p)]]
  BY DEF Relays!SortedByScore, Relays!SortedAt, Relays!Cardinality, Cardinality, Kept
<1>4. \A i, j \in A : <<all[i], all[j]>> \in K <=> Higher(all[i], all[j])
  BY <1>1 DEF HigherOf
<1> HIDE DEF A, K
<1>5. Sortable(K, all, A)
  <2>1. \A i, j \in A : Higher(all[i], all[j]) => ~ Higher(all[j], all[i])
    BY <1>1
  <2>2. \A i, j, k \in A : Higher(all[i], all[k]) => Higher(all[i], all[j]) \/ Higher(all[j], all[k])
    BY <1>1
  <2> HIDE DEF Higher
  <2>3. \A i, j \in A : <<all[i], all[j]>> \in K => <<all[j], all[i]>> \notin K
    BY <1>4, <2>1
  <2>4. \A i, j, k \in A :
          <<all[i], all[k]>> \in K => <<all[i], all[j]>> \in K \/ <<all[j], all[k]>> \in K
    BY <1>4, <2>2
  <2> QED
    BY <1>2, <2>3, <2>4 DEF Sortable
<1>6. \A i, j \in A : Earlier(j, i) <=> Precedes(K, all, j, i)
  BY <1>4 DEF Precedes
<1>7. ASSUME NEW i \in A
      PROVE  Cardinality({j \in A : Earlier(j, i)}) + 1 = Position(K, all, A, i)
  <2>1. {j \in A : Earlier(j, i)} = {j \in A : Precedes(K, all, j, i)}
    BY <1>6
  <2> QED
    BY <2>1 DEF Position
<1> HIDE DEF Earlier
<1>8. ASSUME NEW p \in 1 .. Cardinality(A) PROVE Chosen(p) = Holder(K, all, A, p)
  <2>1. Holder(K, all, A, p) \in A /\ Position(K, all, A, Holder(K, all, A, p)) = p
    BY <1>5, PositionsAreHeld
  <2>2. Chosen(p) \in A /\ Position(K, all, A, Chosen(p)) = p
    BY <1>7, <2>1
  <2> HIDE DEF Chosen
  <2> QED
    BY <1>5, <2>2, PositionsAreHeld
<1> HIDE DEF Chosen
<1>9. [p \in 1 .. Cardinality(A) |-> all[Chosen(p)]]
        = [p \in 1 .. Cardinality(A) |-> all[Holder(K, all, A, p)]]
  BY <1>8
<1> QED
  BY <1>3, <1>5, <1>9 DEF A, K, RelaysSorted

(* What is merged of the same descriptors is the same in some order. *)
LEMMA MergedIsRearranged ==
  ASSUME NEW a, NEW b, NEW D, Merged(a, D), Merged(b, D), NEW least \in Int
  PROVE  Rearranged(a, Kept(a, least), b, Kept(b, least))
<1> DEFINE Same(f, g) == \A i \in DOMAIN f : \E j \in DOMAIN g : g[j] = f[i]
<1>1. ASSUME NEW f, NEW g, Merged(f, D), Merged(g, D) PROVE Same(f, g)
  <2> SUFFICES ASSUME NEW i \in DOMAIN f PROVE \E j \in DOMAIN g : g[j] = f[i]
    OBVIOUS
  <2>1. DOMAIN f = 1 .. Len(f) /\ DOMAIN g = 1 .. Len(g)
    BY <1>1 DEF Merged
  <2>2. PICK d \in D : d.url = f[i].url /\ d.score = f[i].score
    BY <1>1, <2>1 DEF Merged
  <2>3. PICK j \in 1 .. Len(g) : d.url = g[j].url /\ d.score <= g[j].score
    BY <1>1 DEF Merged
  <2>4. PICK e \in D : e.url = g[j].url /\ e.score = g[j].score
    BY <1>1 DEF Merged
  <2>5. PICK k \in 1 .. Len(f) : e.url = f[k].url /\ e.score <= f[k].score
    BY <1>1 DEF Merged
  <2>6. k = i
    <3>1. f[k].url = f[i].url /\ i \in 1 .. Len(f)
      BY <2>1, <2>2, <2>3, <2>4, <2>5
    <3>2. \A l, n \in 1 .. Len(f) : f[l].url = f[n].url => l = n
      BY <1>1 DEF Merged
    <3> QED
      BY <2>5, <3>1, <3>2
  <2>7. IsDescriptor(f[i]) /\ IsDescriptor(g[j])
    BY <1>1, <2>1 DEF Merged
  <2>8. f[i].score = g[j].score
    BY <2>2, <2>3, <2>4, <2>5, <2>6, <2>7 DEF IsDescriptor
  <2>9. f[i].url = g[j].url
    BY <2>2, <2>3
  <2>10. g[j] = f[i]
    BY <2>7, <2>8, <2>9 DEF IsDescriptor
  <2> QED
    BY <2>1, <2>10
<1>2. Same(a, b) /\ Same(b, a)
  BY <1>1
<1>3. ASSUME NEW f, Merged(f, D), NEW i \in DOMAIN f, NEW j \in DOMAIN f, f[i] = f[j]
      PROVE  i = j
  BY <1>3 DEF Merged
<1> DEFINE A == Kept(a, least)
           B == Kept(b, least)
           m == [i \in A |-> CHOOSE j \in DOMAIN b : b[j] = a[i]]
<1>4. \A i \in A : m[i] \in B /\ b[m[i]] = a[i]
  BY <1>2 DEF Kept
<1>5. \A i \in A : i \in DOMAIN a
  BY DEF Kept
<1>6. \A i \in B : i \in DOMAIN b
  BY DEF Kept
<1>7. \A j \in B : \E i \in A : a[i] = b[j]
  BY <1>2 DEF Kept
<1>8. m \in [A -> B]
  BY <1>4
<1> HIDE DEF m, A, B
<1>9. \A i, j \in A : m[i] = m[j] => i = j
  BY <1>3, <1>4, <1>5
<1>10. \A j \in B : \E i \in A : m[i] = j
  BY <1>3, <1>4, <1>6, <1>7
<1>11. Rearranged(a, A, b, B)
  BY <1>4, <1>8, <1>9, <1>10 DEF Rearranged
<1> QED
  BY <1>11 DEF A, B

(* A sequence of relays with at least the score. *)
Scored(s, least) ==
  /\ Len(s) \in Nat /\ s = [p \in 1 .. Len(s) |-> s[p]]
  /\ \A p \in 1 .. Len(s) : s[p].score \in Int /\ s[p].score >= least

LEMMA SortedAreScored ==
  ASSUME NEW all, NEW D, Merged(all, D), NEW least \in Int
  PROVE  Scored(Relays!SortedByScore(all, least), least)
<1> DEFINE V == {all[i] : i \in 1 .. Len(all)}
           A == Kept(all, least)
           U(p) == all[Holder(HigherOf(V), all, A, p)]
           s == Relays!SortedByScore(all, least)
<1>1. Sortable(HigherOf(V), all, A) /\ s = [p \in 1 .. Cardinality(A) |-> U(p)]
  <2>1. \A i \in 1 .. Len(all) : all[i] \in V
    OBVIOUS
  <2> HIDE DEF V
  <2>2. RelaysSorted(all, least, V)
    BY <2>1, RelaysAreSorted
  <2> QED
    BY <2>2 DEF RelaysSorted
<1>2. Cardinality(A) \in Nat
  BY <1>1, FS_CardinalityType DEF Sortable
<1>3. \A i \in A : all[i].score \in Int /\ all[i].score >= least
  BY DEF Kept, Merged, IsDescriptor
<1>4. \A p \in 1 .. Cardinality(A) : Holder(HigherOf(V), all, A, p) \in A
  BY <1>1, PositionsAreHeld
<1>5. \A p \in 1 .. Cardinality(A) : U(p).score \in Int /\ U(p).score >= least
  BY <1>3, <1>4
<1> HIDE DEF U, A, s
<1>6. /\ Len(s) = Cardinality(A) /\ s = [p \in 1 .. Len(s) |-> s[p]]
      /\ \A p \in 1 .. Len(s) : s[p] = U(p)
  BY <1>1, <1>2
<1>7. Scored(s, least)
  BY <1>2, <1>5, <1>6 DEF Scored
<1> QED
  BY <1>7 DEF s

(* And sorted it has the same scores, place by place. *)
SameScores(s, t) == Len(s) = Len(t) /\ \A p \in 1 .. Len(s) : s[p].score = t[p].score

LEMMA SortedScoresAreSame ==
  ASSUME NEW a, NEW b, NEW D, Merged(a, D), Merged(b, D), NEW least \in Int
  PROVE  SameScores(Relays!SortedByScore(a, least), Relays!SortedByScore(b, least))
<1> DEFINE V == {a[i] : i \in 1 .. Len(a)} \cup {b[i] : i \in 1 .. Len(b)}
           K == HigherOf(V)
           A == Kept(a, least)
           B == Kept(b, least)
           U(p) == a[Holder(K, a, A, p)]
           W(p) == b[Holder(K, b, B, p)]
           s == Relays!SortedByScore(a, least)
           t == Relays!SortedByScore(b, least)
<1>1. /\ Sortable(K, a, A) /\ s = [p \in 1 .. Cardinality(A) |-> U(p)]
      /\ Sortable(K, b, B) /\ t = [p \in 1 .. Cardinality(B) |-> W(p)]
  <2>1. (\A i \in 1 .. Len(a) : a[i] \in V) /\ \A i \in 1 .. Len(b) : b[i] \in V
    OBVIOUS
  <2> HIDE DEF V
  <2>2. RelaysSorted(a, least, V) /\ RelaysSorted(b, least, V)
    BY <2>1, RelaysAreSorted
  <2> QED
    BY <2>2 DEF RelaysSorted
<1>2. Rearranged(a, A, b, B) /\ Rearranged(b, B, a, A)
  BY MergedIsRearranged
<1>3. Cardinality(A) = Cardinality(B) /\ Cardinality(A) \in Nat
  <2>1. IsFiniteSet(A) /\ IsFiniteSet(B)
    BY <1>1 DEF Sortable
  <2> HIDE DEF A, B
  <2> QED
    BY <1>2, <2>1, RearrangedSizes, FS_CardinalityType
<1>4. Len(s) = Cardinality(A) /\ Len(t) = Cardinality(A)
  <2> HIDE DEF U, W, A, B, s, t
  <2> QED
    BY <1>1, <1>3
<1>5. ASSUME NEW p \in 1 .. Cardinality(A) PROVE U(p).score = W(p).score
  <2>1. p \in 1 .. Cardinality(B)
    BY <1>3
  <2>2. Holder(K, a, A, p) \in A /\ Holder(K, b, B, p) \in B
    BY <1>1, <2>1, PositionsAreHeld
  <2>3. \A i \in A : i \in 1 .. Len(a) /\ a[i].score \in Int
    BY DEF Kept, Merged, IsDescriptor
  <2>4. \A i \in B : i \in 1 .. Len(b) /\ b[i].score \in Int
    BY DEF Kept, Merged, IsDescriptor
  <2>5. U(p) \in V /\ W(p) \in V /\ U(p).score \in Int /\ W(p).score \in Int
    BY <2>2, <2>3, <2>4
  <2> HIDE DEF V, K, A, B
  <2>6. <<U(p), W(p)>> \notin K
    BY <1>1, <1>2, SortedAreNoLater
  <2>7. <<W(p), U(p)>> \notin K
    BY <1>1, <1>2, <2>1, SortedAreNoLater
  <2> HIDE DEF U, W
  <2> QED
    BY <2>5, <2>6, <2>7 DEF K, HigherOf
<1>6. \A p \in 1 .. Cardinality(A) : s[p] = U(p) /\ t[p] = W(p)
  <2> HIDE DEF U, W, A, B, s, t
  <2> QED
    BY <1>1, <1>3
<1> HIDE DEF U, W, A, s, t
<1>7. SameScores(s, t)
  BY <1>4, <1>5, <1>6 DEF SameScores
<1> QED
  BY <1>7 DEF s, t

-------------------------------------------------------------------------------
(* Relays: who answers when                                                   *)

Heard(es) == {es[k] : k \in DOMAIN es}

LEMMA HeardOfBoth ==
  ASSUME NEW S, NEW s \in Seq(S), NEW t \in Seq(S)
  PROVE  s \o t \in Seq(S) /\ Heard(s \o t) = Heard(s) \cup Heard(t)
<1>1. /\ s \o t \in Seq(S) /\ Len(s \o t) = Len(s) + Len(t)
      /\ \A i \in 1 .. Len(s) + Len(t) :
           (s \o t)[i] = IF i <= Len(s) THEN s[i] ELSE t[i - Len(s)]
  BY ConcatProperties
<1>2. /\ Len(s) \in Nat /\ Len(t) \in Nat /\ DOMAIN s = 1 .. Len(s) /\ DOMAIN t = 1 .. Len(t)
      /\ DOMAIN (s \o t) = 1 .. Len(s) + Len(t)
  BY <1>1, LenProperties
<1> DEFINE both == s \o t
<1> HIDE DEF both
<1>3. ASSUME NEW k \in DOMAIN both PROVE both[k] \in Heard(s) \cup Heard(t)
  <2>1. CASE k <= Len(s)
    <3>1. k \in DOMAIN s /\ both[k] = s[k]
      BY <1>1, <1>2, <1>3, <2>1 DEF both
    <3> QED
      BY <3>1 DEF Heard
  <2>2. CASE ~ (k <= Len(s))
    <3>1. k - Len(s) \in DOMAIN t /\ both[k] = t[k - Len(s)]
      BY <1>1, <1>2, <1>3, <2>2 DEF both
    <3> QED
      BY <3>1 DEF Heard
  <2> QED
    BY <2>1, <2>2
<1>4. ASSUME NEW k \in DOMAIN s PROVE s[k] \in Heard(both)
  <2>1. k \in DOMAIN both /\ both[k] = s[k]
    BY <1>1, <1>2, <1>4 DEF both
  <2> QED
    BY <2>1 DEF Heard
<1>5. ASSUME NEW k \in DOMAIN t PROVE t[k] \in Heard(both)
  <2>1. /\ k + Len(s) \in DOMAIN both /\ ~ (k + Len(s) <= Len(s))
        /\ k + Len(s) - Len(s) = k
    BY <1>2, <1>5 DEF both
  <2>2. both[k + Len(s)] = t[k]
    BY <1>1, <1>2, <2>1 DEF both
  <2> QED
    BY <2>1, <2>2 DEF Heard
<1>6. Heard(both) = Heard(s) \cup Heard(t)
  BY <1>3, <1>4, <1>5 DEF Heard
<1> QED
  BY <1>1, <1>6 DEF both

(* What three directories answered, one after the other. *)
LEMMA ThreeAreFlattened ==
  ASSUME NEW S, NEW ps \in [1 .. 3 -> Seq(S)]
  PROVE  /\ Relays!FlattenSeq(ps) \in Seq(S)
         /\ Heard(Relays!FlattenSeq(ps)) = Heard(ps[1]) \cup Heard(ps[2]) \cup Heard(ps[3])
<1> DEFINE IsFlat(f) == f = [i \in 1 .. 3 |-> IF i = 1 THEN ps[i] ELSE f[i - 1] \o ps[i]]
           flat == CHOOSE f : IsFlat(f)
           two == ps[1] \o ps[2]
           three == two \o ps[3]
           g == [i \in 1 .. 3 |-> IF i = 1 THEN ps[1] ELSE IF i = 2 THEN two ELSE three]
<1>1. Len(ps) = 3 /\ ps[1] \in Seq(S) /\ ps[2] \in Seq(S) /\ ps[3] \in Seq(S)
  OBVIOUS
<1>2. Relays!FlattenSeq(ps) = flat[3]
  BY <1>1 DEF Relays!FlattenSeq
<1>3. IsFlat(g)
  <2>1. 1 .. 3 = {1, 2, 3}
    OBVIOUS
  <2> HIDE DEF two
  <2>2. g[1] = ps[1] /\ g[2] = two /\ g[3] = two \o ps[3]
    OBVIOUS
  <2>3. \A i \in 1 .. 3 : g[i] = IF i = 1 THEN ps[i] ELSE g[i - 1] \o ps[i]
    <3> HIDE DEF g
    <3> SUFFICES ASSUME NEW i \in 1 .. 3
                 PROVE  g[i] = IF i = 1 THEN ps[i] ELSE g[i - 1] \o ps[i]
      OBVIOUS
    <3>1. CASE i = 1
      BY <2>2, <3>1
    <3>2. CASE i = 2
      <4>1. i - 1 = 1
        BY <3>2
      <4> QED
        BY <2>2, <3>2, <4>1 DEF two
    <3>3. CASE i = 3
      <4>1. i - 1 = 2
        BY <3>3
      <4> QED
        BY <2>2, <3>3, <4>1
    <3> QED
      BY <2>1, <3>1, <3>2, <3>3
  <2>4. g = [i \in 1 .. 3 |-> g[i]]
    OBVIOUS
  <2> HIDE DEF g
  <2> QED
    BY <2>3, <2>4
<1>4. IsFlat(flat)
  <2> HIDE DEF IsFlat, g
  <2> QED
    BY <1>3
<1>5. flat[3] = (ps[1] \o ps[2]) \o ps[3]
  <2> HIDE DEF flat
  <2>1. 1 \in 1 .. 3 /\ 2 \in 1 .. 3 /\ 3 \in 1 .. 3
    OBVIOUS
  <2>2. \A i \in 1 .. 3 : flat[i] = IF i = 1 THEN ps[i] ELSE flat[i - 1] \o ps[i]
    <3> DEFINE val(i) == IF i = 1 THEN ps[i] ELSE flat[i - 1] \o ps[i]
    <3>1. flat = [i \in 1 .. 3 |-> val(i)]
      BY <1>4
    <3> HIDE DEF val
    <3>2. \A i \in 1 .. 3 : flat[i] = val(i)
      BY <3>1
    <3> QED
      BY <3>2 DEF val
  <2>3. 2 - 1 = 1 /\ 3 - 1 = 2 /\ 2 # 1 /\ 3 # 1
    OBVIOUS
  <2>4. flat[1] = ps[1]
    BY <2>1, <2>2
  <2>5. flat[2] = flat[1] \o ps[2]
    BY <2>1, <2>2, <2>3
  <2>6. flat[3] = flat[2] \o ps[3]
    BY <2>1, <2>2, <2>3
  <2> QED
    BY <2>4, <2>5, <2>6
<1>6. two \in Seq(S) /\ Heard(two) = Heard(ps[1]) \cup Heard(ps[2])
  BY <1>1, HeardOfBoth
<1> HIDE DEF flat, two, g, IsFlat
<1>7. two \o ps[3] \in Seq(S) /\ Heard(two \o ps[3]) = Heard(two) \cup Heard(ps[3])
  <2>1. ps[3] \in Seq(S)
    BY <1>1
  <2> QED
    BY <1>6, <2>1, HeardOfBoth
<1> QED
  BY <1>2, <1>5, <1>6, <1>7 DEF two

(* The options of a discovery, as they are taken. *)
Options == [minScore : Int, maxResults : OrUnset(Nat)]
ScoreLimit(options) == Relays!Given(options.minScore, 1)
CountLimit(options) == Relays!Given(options.maxResults, 3)

LEMMA OptionsAreNumbers ==
  ASSUME NEW options \in Options
  PROVE  ScoreLimit(options) \in Int /\ CountLimit(options) \in Nat
  BY DEF Options, OrUnset, ScoreLimit, CountLimit, Relays!Given, Relays!Unset

(* All that is heard is merged; what is kept is sorted and cut. *)
AllOf(boot, ps, trust) == MergedOf(boot \o Relays!FlattenSeq(ps), trust)
SortedOf(boot, ps, trust, options) ==
  Relays!SortedByScore(AllOf(boot, ps, trust), ScoreLimit(options))
Cut(s, most) == IF Len(s) > most THEN SubSeq(s, 1, most) ELSE s
HeardBy(boot, ps) == Heard(boot) \cup Heard(ps[1]) \cup Heard(ps[2]) \cup Heard(ps[3])
DescriptorsOf(H, trust) == {Relays!ToDescriptor(e, trust) : e \in H}

LEMMA DiscoveryIsCut ==
  ASSUME NEW boot, NEW ps, NEW trust, NEW options
  PROVE  Relays!DiscoverRelays(boot, ps, trust, options)
           = Cut(SortedOf(boot, ps, trust, options), CountLimit(options))
  BY DEF Relays!DiscoverRelays, Cut, SortedOf, AllOf, MergedOf, MergeEntry, CountLimit, ScoreLimit

LEMMA AllAreMerged ==
  ASSUME NEW trust, Trusted(trust), NEW boot \in Entries(DOMAIN trust),
         NEW ps \in [1 .. 3 -> Entries(DOMAIN trust)]
  PROVE  Merged(AllOf(boot, ps, trust), DescriptorsOf(HeardBy(boot, ps), trust))
<1> DEFINE S == RelayEntry(DOMAIN trust)
           es == boot \o Relays!FlattenSeq(ps)
<1>1. Entries(DOMAIN trust) = Seq(S)
  BY DEF Entries, RelayEntry
<1>2. boot \in Seq(S) /\ ps \in [1 .. 3 -> Seq(S)]
  BY <1>1
<1> HIDE DEF S
<1>3. /\ Relays!FlattenSeq(ps) \in Seq(S)
      /\ Heard(Relays!FlattenSeq(ps)) = Heard(ps[1]) \cup Heard(ps[2]) \cup Heard(ps[3])
  BY <1>2, ThreeAreFlattened
<1>4. es \in Seq(S) /\ Heard(es) = HeardBy(boot, ps)
  BY <1>2, <1>3, HeardOfBoth DEF HeardBy
<1> HIDE DEF es
<1>5. Merged(MergedOf(es, trust), Descriptors(es, trust, DOMAIN es))
  BY <1>1, <1>4, EntriesAreMerged
<1>6. Descriptors(es, trust, DOMAIN es) = DescriptorsOf(HeardBy(boot, ps), trust)
  BY <1>4 DEF Descriptors, DescriptorsOf, Heard
<1> QED
  BY <1>5, <1>6 DEF AllOf, es

LEMMA CutIsFront ==
  ASSUME NEW s, NEW least \in Int, Scored(s, least), NEW most \in Nat
  PROVE  /\ Scored(Cut(s, most), least)
         /\ Len(Cut(s, most)) = (IF Len(s) > most THEN most ELSE Len(s))
         /\ \A p \in 1 .. Len(Cut(s, most)) : Cut(s, most)[p] = s[p]
<1>1. CASE Len(s) > most
  <2> DEFINE V == {s[p] : p \in 1 .. Len(s)}
             c == SubSeq(s, 1, most)
  <2>1. s \in Seq(V)
    <3>1. \A p \in 1 .. Len(s) : s[p] \in V
      OBVIOUS
    <3>2. s = [p \in 1 .. Len(s) |-> s[p]] /\ Len(s) \in Nat
      BY DEF Scored
    <3> HIDE DEF V
    <3> QED
      BY <3>1, <3>2
  <2>2. Len(s) \in Nat
    BY DEF Scored
  <2> HIDE DEF V
  <2>3. /\ c \in Seq(V) /\ Len(c) = most
        /\ \A p \in 1 .. most : c[p] = s[p] /\ p \in 1 .. Len(s)
    BY <1>1, <2>1, <2>2
  <2>4. c = [p \in 1 .. Len(c) |-> c[p]]
    BY <2>3
  <2> HIDE DEF c
  <2>5. Scored(c, least)
    BY <2>3, <2>4 DEF Scored
  <2> QED
    BY <1>1, <2>3, <2>5 DEF Cut, c
<1>2. CASE ~ (Len(s) > most)
  BY <1>2 DEF Cut
<1> QED
  BY <1>1, <1>2

(* What is found keeps the options. *)
LEMMA FoundKeepOptions ==
  ASSUME NEW trust, Trusted(trust), NEW boot \in Entries(DOMAIN trust),
         NEW ps \in [1 .. 3 -> Entries(DOMAIN trust)], NEW options \in Options
  PROVE  LET found == Relays!DiscoverRelays(boot, ps, trust, options)
         IN  Scored(found, ScoreLimit(options)) /\ Len(found) <= CountLimit(options)
<1> DEFINE s == SortedOf(boot, ps, trust, options)
<1>1. ScoreLimit(options) \in Int /\ CountLimit(options) \in Nat
  BY OptionsAreNumbers
<1>2. Scored(s, ScoreLimit(options))
  BY <1>1, AllAreMerged, SortedAreScored DEF SortedOf
<1> HIDE DEF s
<1>3. /\ Scored(Cut(s, CountLimit(options)), ScoreLimit(options))
      /\ Len(Cut(s, CountLimit(options)))
           = IF Len(s) > CountLimit(options) THEN CountLimit(options) ELSE Len(s)
  BY <1>1, <1>2, CutIsFront
<1>4. Len(s) \in Nat
  BY <1>2 DEF Scored
<1>5. Len(Cut(s, CountLimit(options))) <= CountLimit(options)
  BY <1>1, <1>3, <1>4
<1> QED
  BY <1>3, <1>5, DiscoveryIsCut DEF s

(* Of the same answers the same scores are found. *)
LEMMA FoundScoresAreSame ==
  ASSUME NEW trust, Trusted(trust), NEW boot \in Entries(DOMAIN trust),
         NEW ps \in [1 .. 3 -> Entries(DOMAIN trust)],
         NEW qs \in [1 .. 3 -> Entries(DOMAIN trust)],
         HeardBy(boot, ps) = HeardBy(boot, qs), NEW options \in Options
  PROVE  LET f == Relays!DiscoverRelays(boot, ps, trust, options)
             g == Relays!DiscoverRelays(boot, qs, trust, options)
         IN  [i \in DOMAIN f |-> f[i].score] = [i \in DOMAIN g |-> g[i].score]
<1> DEFINE s == SortedOf(boot, ps, trust, options)
           t == SortedOf(boot, qs, trust, options)
           least == ScoreLimit(options)
           most == CountLimit(options)
           f == Cut(s, most)
           g == Cut(t, most)
<1>1. least \in Int /\ most \in Nat
  BY OptionsAreNumbers
<1>2. /\ Merged(AllOf(boot, ps, trust), DescriptorsOf(HeardBy(boot, ps), trust))
      /\ Merged(AllOf(boot, qs, trust), DescriptorsOf(HeardBy(boot, ps), trust))
  BY AllAreMerged
<1>3. Scored(s, least) /\ Scored(t, least) /\ SameScores(s, t)
  BY <1>1, <1>2, SortedAreScored, SortedScoresAreSame DEF SortedOf
<1> HIDE DEF s, t, least, most
<1>4. /\ Scored(f, least) /\ Scored(g, least)
      /\ Len(f) = (IF Len(s) > most THEN most ELSE Len(s))
      /\ Len(g) = (IF Len(t) > most THEN most ELSE Len(t))
      /\ \A p \in 1 .. Len(f) : f[p] = s[p]
      /\ \A p \in 1 .. Len(g) : g[p] = t[p]
  BY <1>1, <1>3, CutIsFront
<1>5. Len(f) = Len(g) /\ \A p \in 1 .. Len(f) : p \in 1 .. Len(s)
  BY <1>1, <1>3, <1>4 DEF SameScores, Scored
<1> HIDE DEF f, g
<1>6. DOMAIN f = 1 .. Len(f) /\ DOMAIN g = 1 .. Len(f)
  BY <1>4, <1>5 DEF Scored
<1>7. \A p \in 1 .. Len(f) : f[p].score = g[p].score
  BY <1>3, <1>4, <1>5 DEF SameScores
<1>8. [i \in DOMAIN f |-> f[i].score] = [i \in DOMAIN g |-> g[i].score]
  BY <1>6, <1>7
<1> QED
  BY <1>8, DiscoveryIsCut DEF f, g, s, t, most

(* A snapshot of what keeps the options is judged by its age, its options and whether *)
(* there is anything in it.                                                           *)
LEMMA SnapshotsAreJudged ==
  ASSUME NEW relays, NEW options \in Options,
         Scored(relays, ScoreLimit(options)), Len(relays) <= CountLimit(options),
         NEW age \in Nat, NEW policy
  PROVE  Relays!Eligible(Relays!BuildDiscoverySnapshot(relays, options, 5), policy, 5 + age, 0)
           <=> /\ relays # <<>>
               /\ age <= policy.maxAge
               /\ Relays!StrictEnough(options, policy)
<1> DEFINE snapshot == Relays!BuildDiscoverySnapshot(relays, options, 5)
<1>1. snapshot.at = 5 /\ snapshot.relays = relays /\ snapshot.options = options
  BY DEF Relays!BuildDiscoverySnapshot
<1>2. snapshot # Relays!NoSnapshot
  <2>1. Relays!NoSnapshot.at = 0
    BY DEF Relays!NoSnapshot
  <2> HIDE DEF snapshot
  <2> QED
    BY <1>1, <2>1
<1> HIDE DEF snapshot
<1>3. Relays!KeepsItsOptions(snapshot)
  <2>1. options.minScore \in Int /\ options.maxResults \in Int
    BY DEF Options, OrUnset
  <2>2. DOMAIN relays = 1 .. Len(relays)
    BY DEF Scored
  <2>3. options.minScore # -1 => \A i \in DOMAIN relays : relays[i].score >= options.minScore
    BY <2>1, <2>2 DEF Scored, ScoreLimit, Relays!Given, Relays!Unset
  <2>4. options.maxResults # -1 => Len(relays) <= options.maxResults
    BY <2>1 DEF CountLimit, Relays!Given, Relays!Unset
  <2> QED
    BY <1>1, <2>3, <2>4 DEF Relays!KeepsItsOptions, Relays!Unset
<1>4. 5 > 0 /\ 5 <= (5 + age) + 0 /\ (5 + age) - 5 = age
  OBVIOUS
<1>5. Relays!Eligible(snapshot, policy, 5 + age, 0)
        <=> /\ relays # <<>>
            /\ age <= policy.maxAge
            /\ Relays!StrictEnough(options, policy)
  BY <1>1, <1>2, <1>3, <1>4 DEF Relays!Eligible
<1> QED
  BY <1>5 DEF snapshot

(* The command line's own snapshot is admitted by every router whose policy allows its   *)
(* age and its options, unless nothing was found: what is found always keeps the options. *)
(* And in whatever order three directories answer, the relays found have the same scores.  *)
THEOREM SnapshotsAreAdmitted == DecisionSpec => []OwnSnapshotsAreAdmitted
<1>1. InputTypeOK => OwnSnapshotsAreAdmitted
  <2> SUFFICES ASSUME InputTypeOK, input.kind = "relays" PROVE OwnSnapshotsAreAdmitted
    BY DEF OwnSnapshotsAreAdmitted
  <2> DEFINE Found(ps) == Relays!DiscoverRelays(input.boot, ps, input.trust, input.options)
             FoundScores(ps) == LET found == Found(ps) IN [i \in DOMAIN found |-> found[i].score]
             a == input.payloads[1]
             b == input.payloads[2]
             c == input.payloads[3]
             E == Entries(DOMAIN input.trust)
  <2>1. /\ Trusted(input.trust) /\ input.boot \in E /\ input.payloads \in [1 .. 3 -> E]
        /\ input.options \in Options /\ input.age \in Nat
    BY DiscoveriesAssumption DEF InputTypeOK, Trusted, Options
  <2>2. Relays!Eligible(Relays!BuildDiscoverySnapshot(Found(input.payloads), input.options, 5),
                        input.policy, 5 + input.age, 0)
          <=> /\ Found(input.payloads) # <<>>
              /\ input.age <= input.policy.maxAge
              /\ Relays!StrictEnough(input.options, input.policy)
    <3>1. /\ Scored(Found(input.payloads), ScoreLimit(input.options))
          /\ Len(Found(input.payloads)) <= CountLimit(input.options)
      BY <2>1, FoundKeepOptions
    <3> HIDE DEF Found
    <3> QED
      BY <2>1, <3>1, SnapshotsAreJudged
  <2>3. ASSUME NEW ps \in {<<a, c, b>>, <<b, a, c>>, <<b, c, a>>, <<c, a, b>>, <<c, b, a>>}
        PROVE  FoundScores(ps) = FoundScores(input.payloads)
    <3>1. a \in E /\ b \in E /\ c \in E
      BY <2>1
    <3>2. ps \in [1 .. 3 -> E]
      <4> HIDE DEF a, b, c, E
      <4>1. \A x, y, z \in E : <<x, y, z>> \in [1 .. 3 -> E]
        OBVIOUS
      <4> QED
        BY <2>3, <3>1, <4>1
    <3>3. HeardBy(input.boot, ps) = HeardBy(input.boot, input.payloads)
      <4>1. Heard(ps[1]) \cup Heard(ps[2]) \cup Heard(ps[3])
              = Heard(a) \cup Heard(b) \cup Heard(c)
        <5> HIDE DEF a, b, c
        <5> QED
          BY <2>3
      <4> QED
        BY <4>1 DEF HeardBy
    <3> HIDE DEF a, b, c
    <3> QED
      BY <2>1, <3>2, <3>3, FoundScoresAreSame
  <2> QED
    BY <2>2, <2>3 DEF OwnSnapshotsAreAdmitted
<1> QED
  BY <1>1, InputsAreTyped, PTL
================================================================================
