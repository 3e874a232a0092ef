----------------------------- MODULE MCDecisions -----------------------------
(* Small inputs of each kind. *)
EXTENDS Decisions

UpTo(S, n) == UNION {[1 .. k -> S] : k \in 0 .. n}

Cap(model, jobs, window, unit, rate, latency) ==
  [model |-> model, jobs |-> jobs, window |-> window, unit |-> unit,
   inRate |-> rate, outRate |-> rate + 1, latency |-> latency]

Caps == { <<>>,
          << Cap("m1", {}, 0, "token", 2, 0) >>,
          << Cap("m1", {"chat"}, 4, "token", 1, 0), Cap("m2", {"chat"}, 0, "token", 2, 0) >>,
          << Cap("m1", {"chat"}, 0, "second", 1, 2000), Cap("m2", {}, 0, "token", 1, 0) >>,
          << Cap("m1", {"chat"}, 4, "token", 1, 0), Cap("m1", {"chat"}, 0, "token", 2, 500) >> }

SomeNodes ==
  {[id |-> i, caps |-> c, load |-> l, max |-> 2, trust |-> 0] :
     i \in {"n"}, c \in Caps, l \in {0, 1}}
  \cup {[id |-> "t", caps |-> << Cap("m1", {}, 0, "second", 2, 0) >>,
         load |-> 1, max |-> 0, trust |-> 50]}

SomeRequests ==
  {[model |-> m, job |-> j, in |-> i, out |-> 1] :
     m \in {"m1", AnyModel}, j \in {"chat", NoJob}, i \in {1, 4}}

SomeHealths == {h \in [good : 0 .. 12, bad : 0 .. 12, streak : 0 .. 5] : h.streak <= h.bad}

MCActors == {"a", "b"}
SomeCommits == [actor : MCActors, units : {100, 500}, expires : 1 .. 2]
SomeSlashes == [actor : {"a"}, units : {100, 400}]
SomeStores ==
  {[commits |-> c, slashes |-> s] :
     c \in UNION {[ids -> SomeCommits] : ids \in SUBSET {"c1", "c2"}},
     s \in UNION {[ids -> SomeSlashes] : ids \in SUBSET {"s1", "s2"}}}

SomeMachines ==
  [x64 : {TRUE}, avx2 : BOOLEAN, cores : {4, 8, 16}, gb : {8, 16, 32, 64},
   disk : {"hdd", "ssd"}, vram : {0, 1024, 12000, 20000}, latency : {Weights!Unset, 20, 40, 100}]

SomePolicies == [enabled : {TRUE}, split : BOOLEAN, bps : {0, 500, 1000}, flat : {0, 2},
                 min : {Terms!Unset, 2}, max : {Terms!Unset, 3}]
SomeLimits   == [maxSats : {Terms!Unset, 3}, maxBps : {Terms!Unset, 500, 1000, 1500, 3000}]

Parts == { [type |-> "node",   id |-> 1, amount |-> 2, role |-> "node-inference"],
           [type |-> "node",   id |-> 1, amount |-> 1, role |-> "node-inference"],
           [type |-> "router", id |-> 2, amount |-> 1, role |-> "router-fee"],
           [type |-> "router", id |-> 2, amount |-> 1, role |-> NoRole] }
SomeReceipts ==
  [request : {"r"}, type : {"node"}, payee : {1}, amount : {2, 3},
   splits : UpTo(Parts, 2), invoice : {"i", NoInvoice}]

SomeEntries == { [url |-> "u1", score |-> 2, latency |-> Relays!Unset],
                 [url |-> "u1", score |-> 7, latency |-> 400],
                 [url |-> "u2", score |-> Relays!Unset, latency |-> 400],
                 [url |-> "u3", score |-> 3, latency |-> Relays!Unset] }
Bootstrap == << [url |-> "u1", score |-> Relays!Unset, latency |-> Relays!Unset] >>
SomeTrust == [u1 |-> 0, u2 |-> 2, u3 |-> 0]
Options == [minScore : {Relays!Unset, 1, 4}, maxResults : {Relays!Unset, 1, 2}]
RelayPolicies == [require : {FALSE}, maxAge : {1}, minScore : {Relays!Unset, 2, 4},
                  maxResults : {Relays!Unset, 1}]

MCSchedules ==
  [kind : {"schedule"}, nodes : UpTo(SomeNodes, 3), request : SomeRequests, topK : 0 .. 2]
MCTrusts == [kind : {"trust"}, health : SomeHealths, claimed : {0, 50, 95}, points : {0, 35, 95},
             units : {0, 500, 2500}]
MCStakes == [kind : {"stake"}, store : SomeStores, id : {"c1"}, commit : SomeCommits, now : 0 .. 1]
MCSlashes == [id : {"s2", "s3"}, slash : SomeSlashes]
MCMachines == {i \in [kind : {"machine"}, machine : SomeMachines, better : SomeMachines] :
                 AtLeast(i.better, i.machine)}
MCOffers == [kind : {"offer"}, nodeTotal : {0, 5, 15, 100}, policy : SomePolicies, limit : SomeLimits]
MCReceipts == [kind : {"receipt"}, offer : {r \in SomeReceipts : r.amount = 3},
               receipt : SomeReceipts]
MCUnpaids == [kind : {"unpaid"}, expires : [{"k1", "k2"} -> 0 .. 2], paid : SUBSET {"k1", "k2"},
              now : 0 .. 3, grace : -1 .. 1]
MCDiscoveries == {[kind |-> "relays", boot |-> Bootstrap, trust |-> SomeTrust,
                   payloads |-> <<a, <<c>>, b>>, options |-> o, policy |-> p, age |-> age] :
                    a \in UpTo(SomeEntries, 1), b \in UpTo(SomeEntries, 1), c \in SomeEntries,
                    o \in Options, p \in RelayPolicies, age \in 0 .. 2}
=============================================================================
