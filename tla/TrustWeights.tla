----------------------------- MODULE TrustWeights -----------------------------
(* The trust that a router adds to or takes from what a node claims: health,     *)
(* manifest and stake (scheduler/health.ts, applyManifestWeights of ranking.ts,  *)
(* accounting/staking.ts); and where the manifest's bands come from: the         *)
(* profiler's thresholds and the roles that the recommender derives from them.   *)
(*                                                                              *)
(* Health is [good, bad, streak]. Quotients are exact and rounded as Math.round  *)
(* does; the doubles of the program may round a tie the other way. Units of      *)
(* stake are multiples of 100, which are worth a whole point each.               *)
EXTENDS Integers, FiniteSetsExt

Lesser(a, b)  == IF a < b THEN a ELSE b
Greater(a, b) == IF a > b THEN a ELSE b
RoundDiv(a, b) == (2 * a + b) \div (2 * b)

-----------------------------------------------------------------------------
(* Health                                                                     *)

Total(h) == h.good + h.bad

(* markNodeFailure, as far as the counts go.                                   *)
Failed(h) == [h EXCEPT !.bad = @ + 1, !.streak = @ + 1]

FailurePenalty(h) ==
  LET reliability == IF Total(h) >= 5 THEN Lesser(20, RoundDiv(20 * h.bad, Total(h))) ELSE 0
      ofStreak    == Lesser(20, 5 * h.streak)
  IN  Lesser(30, reliability + ofStreak)

PerformanceBonus(h) ==
  IF Total(h) < 10 THEN 0
  ELSE Greater(-10, Lesser(10, RoundDiv(100 * h.good - 90 * Total(h), Total(h))))

\* A variant, for a mutant: the manifest counts more the more there is to go by.
ManifestDecayReversed(h) == Lesser(20, Total(h))

(* What is left of the manifest's points, in twentieths.                        *)
ManifestDecay(h) == 20 - Lesser(20, Total(h))

-----------------------------------------------------------------------------
(* Stake: commits and slashes by their identifiers                             *)

\* A variant, for a mutant: the units of a commit posted again are added.
RecordCommitAgain(store, id, commit) ==
  [store EXCEPT !.commits = [i \in DOMAIN store.commits \cup {id} |->
     IF i # id THEN store.commits[i]
     ELSE IF id \in DOMAIN store.commits
          THEN [commit EXCEPT !.units = @ + store.commits[id].units]
          ELSE commit]]

RecordCommit(store, id, commit) ==
  [store EXCEPT !.commits = [i \in DOMAIN store.commits \cup {id} |->
                               IF i = id THEN commit ELSE store.commits[i]]]

RecordSlash(store, id, slash) ==
  [store EXCEPT !.slashes = [i \in DOMAIN store.slashes \cup {id} |->
                               IF i = id THEN slash ELSE store.slashes[i]]]

LiveUnits(store, actor, now) ==
  MapThenSumSet(LAMBDA i : store.commits[i].units,
    {i \in DOMAIN store.commits : /\ store.commits[i].actor = actor
                                  /\ store.commits[i].expires > now})

SlashedUnits(store, actor) ==
  MapThenSumSet(LAMBDA i : store.slashes[i].units,
    {i \in DOMAIN store.slashes : store.slashes[i].actor = actor})

EffectiveStakeUnits(store, actor, now) ==
  Greater(0, LiveUnits(store, actor, now) - SlashedUnits(store, actor))

StakeScore(units) == Lesser(20, units \div 100)

-----------------------------------------------------------------------------
(* Profiles                                                                   *)

(* A machine is [x64, avx2, cores, gb, disk, vram, latency]; vram in MB, the      *)
(* latency in ms, Unset where it was not measured.                              *)
Unset == -1

\* A variant, for a mutant: each class has an upper bound, many cores without AVX2 none.
CpuBandByRange(m) == IF m.cores >= 16 /\ m.avx2 THEN "cpu_high"
                     ELSE IF m.cores \in 8 .. 15 THEN "cpu_mid" ELSE "cpu_low"

CpuBand(m)  == IF m.cores >= 16 /\ m.avx2 THEN "cpu_high"
               ELSE IF m.cores >= 8 THEN "cpu_mid" ELSE "cpu_low"
RamBand(m)  == IF m.gb >= 64 THEN "ram_64_plus"
               ELSE IF m.gb >= 32 THEN "ram_32" ELSE IF m.gb >= 16 THEN "ram_16" ELSE "ram_8"
GpuBand(m)  == IF m.vram < 1024 THEN "gpu_none"
               ELSE IF m.vram < 12000 THEN "gpu_8gb"
               ELSE IF m.vram < 20000 THEN "gpu_16gb" ELSE "gpu_24gb_plus"
NetBand(m)  == IF m.latency = Unset THEN "net_ok"
               ELSE IF m.latency < 40 THEN "net_good"
               ELSE IF m.latency < 100 THEN "net_ok" ELSE "net_poor"
DiskBand(m) == CASE m.disk = "ssd" -> "disk_ssd"
                 [] m.disk = "hdd" -> "disk_hdd"
                 [] OTHER          -> "disk_unknown"

CapabilityBands(m) == [cpu |-> CpuBand(m), ram |-> RamBand(m), gpu |-> GpuBand(m),
                       net |-> NetBand(m), disk |-> DiskBand(m)]

ManifestScore(bands) ==
  LET cpu  == [cpu_high |-> 30, cpu_mid |-> 15, cpu_low |-> 0]
      ram  == [ram_64_plus |-> 25, ram_32 |-> 15, ram_16 |-> 5, ram_8 |-> 0]
      gpu  == [gpu_24gb_plus |-> 20, gpu_16gb |-> 10, gpu_8gb |-> 5, gpu_none |-> 0]
      disk == [disk_ssd |-> 10, disk_hdd |-> 0, disk_unknown |-> 0]
      net  == [net_good |-> 10, net_ok |-> 0, net_poor |-> 0]
  IN  Lesser(100, cpu[bands.cpu] + ram[bands.ram] + gpu[bands.gpu]
                    + disk[bands.disk] + net[bands.net])

(* The roles that the recommender names, by what they need.                     *)
LowSpecRoles(bands) ==
  {"prepost_node", "policy_node", "cache_node", "registry_helper_node"}
    \cup {r \in {"embedding_node_small"} : bands.cpu # "cpu_low"}
HighSpecRoles(bands) ==
  {r \in {"llm_cpu_small"} : bands.cpu = "cpu_high" /\ bands.ram \in {"ram_32", "ram_64_plus"}}
    \cup {r \in {"llm_gpu"} : bands.gpu # "gpu_none"}
NodeProfiles(bands) == LowSpecRoles(bands) \cup HighSpecRoles(bands)

RouterEligible(m, bands, benchmarked) ==
  m.x64 /\ m.avx2 /\ m.gb >= 16 /\ bands.disk = "disk_ssd" /\ benchmarked

-----------------------------------------------------------------------------
(* The trust that a node is ranked with: what it claims, its manifest's points    *)
(* if it was admitted, its units of stake, its health.                           *)
WeightedTrust(claimed, points, units, h) ==
  LET manifest == RoundDiv(points * ManifestDecay(h), 20)
  IN  Greater(0, Lesser(100, claimed + manifest + StakeScore(units)
                               + PerformanceBonus(h) - FailurePenalty(h)))
=============================================================================
