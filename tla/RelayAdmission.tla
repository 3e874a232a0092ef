---------------------------- MODULE RelayAdmission ----------------------------
(* Relay discovery (packages/nostr-relay-discovery), the snapshot of it that the  *)
(* command line puts into a manifest, and the router's judgement of that          *)
(* snapshot (assessRelayDiscoverySnapshot of scheduler/health.ts).                *)
(*                                                                              *)
(* Directories answer concurrently: what is merged is a sequence of the payloads   *)
(* that came, in the order in which they came. An entry is [url, score, latency];   *)
(* scores are whole numbers, latencies multiples of 200 ms, Unset is undefined.     *)
EXTENDS Integers, SequencesExt, StableSort

CONSTANTS DefaultMinScore, DefaultMaxResults

Unset == -1

Lesser(a, b)  == IF a < b THEN a ELSE b
Greater(a, b) == IF a > b THEN a ELSE b
Given(value, default) == IF value = Unset THEN default ELSE value

-----------------------------------------------------------------------------
(* Discovery                                                                  *)

(* In halves of the program's unit, as it is rounded to a tenth of a half.         *)
ComputePriority(score) == Greater(0, Lesser(10, score))

ToDescriptor(entry, trust) ==
  LET base    == Greater(1, Given(entry.score, 5))
      penalty == IF entry.latency = Unset THEN 0 ELSE entry.latency \div 200
      score   == Greater(0, base + trust[entry.url] - penalty)
  IN  [url |-> entry.url, score |-> score, priority |-> ComputePriority(score)]

\* A variant, for a mutant: the descriptor that comes last counts.
MergeDescriptorLast(merged, d) ==
  LET known == {i \in DOMAIN merged : merged[i].url = d.url}
  IN  IF known = {} THEN Append(merged, d)
      ELSE [i \in DOMAIN merged |-> IF i \notin known THEN merged[i] ELSE d]

(* Descriptors of one URL become one, in its first place, with the best score.     *)
MergeDescriptor(merged, d) ==
  LET known == {i \in DOMAIN merged : merged[i].url = d.url}
  IN  IF known = {} THEN Append(merged, d)
      ELSE [i \in DOMAIN merged |->
              IF i \notin known THEN merged[i]
              ELSE [d EXCEPT !.score    = Greater(merged[i].score, @),
                             !.priority = Greater(merged[i].priority, @)]]

(* Those with at least the score, best first.                                      *)
SortedByScore(relays, least) ==
  LET Higher(a, b) == a.score > b.score \/ (a.score = b.score /\ a.priority > b.priority)
  IN  SortedAt(relays, {i \in DOMAIN relays : relays[i].score >= least}, Higher)

DiscoverRelays(bootstrap, payloads, trust, options) ==
  LET Merge(merged, entry) == MergeDescriptor(merged, ToDescriptor(entry, trust))
      all    == FoldLeft(Merge, <<>>, bootstrap \o FlattenSeq(payloads))
      sorted == SortedByScore(all, Given(options.minScore, DefaultMinScore))
      limit  == Given(options.maxResults, DefaultMaxResults)
  IN  IF Len(sorted) > limit THEN SubSeq(sorted, 1, limit) ELSE sorted

-----------------------------------------------------------------------------
(* The snapshot and its admission                                             *)

BuildDiscoverySnapshot(relays, options, at) ==
  [at |-> at, relays |-> relays, options |-> options]

(* A policy is [require, maxAge, minScore, maxResults]; no snapshot is NoSnapshot.  *)
NoSnapshot == [at |-> 0, relays |-> <<>>, options |-> [minScore |-> Unset, maxResults |-> Unset]]

StrictEnough(options, policy) ==
  /\ policy.minScore = Unset \/ (options.minScore # Unset /\ options.minScore >= policy.minScore)
  /\ policy.maxResults = Unset
       \/ (options.maxResults # Unset /\ options.maxResults <= policy.maxResults)

KeepsItsOptions(snapshot) ==
  /\ snapshot.options.minScore # Unset =>
       \A i \in DOMAIN snapshot.relays : snapshot.relays[i].score >= snapshot.options.minScore
  /\ snapshot.options.maxResults # Unset =>
       Len(snapshot.relays) <= snapshot.options.maxResults

Eligible(snapshot, policy, now, skew) ==
  IF snapshot = NoSnapshot THEN ~ policy.require
  ELSE /\ snapshot.at > 0
       /\ snapshot.at <= now + skew
       /\ now - snapshot.at <= policy.maxAge
       /\ snapshot.relays # <<>>
       /\ StrictEnough(snapshot.options, policy)
       /\ KeepsItsOptions(snapshot)

=============================================================================
