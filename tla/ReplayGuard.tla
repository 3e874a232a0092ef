----------------------------- MODULE ReplayGuard ------------------------------
(***************************************************************************)
(* checkReplay of packages/protocol/src/replay.ts over InMemoryNonceStore: *)
(* the guard that every signed request of the router and of the node goes  *)
(* through.  A Map from nonces to timestamps is the set of its entries,    *)
(* which are themselves records [nonce, ts]: an entry is exactly what the  *)
(* guard remembers of the envelope that it let through.                    *)
(*                                                                         *)
(* The body of an envelope does not matter here, so that an envelope is    *)
(* its nonce and its timestamp.  Requests arrive in any order, any number  *)
(* of times: a client, an SDK or a proxy may send an envelope again.  The  *)
(* clock is that of one process and does not go back.                      *)
(***************************************************************************)
EXTENDS Integers

CONSTANTS
  Nonces,     \* the nonces that clients put on their envelopes
  Window,     \* windowMs (DEFAULT_REPLAY_WINDOW_MS)
  MaxTime     \* bound: the clock stops here, and no envelope is dated later

ASSUME WindowAssumption == Window \in Nat
ASSUME MaxTimeAssumption == MaxTime \in Nat

VARIABLES
  now,        \* Date.now()
  held,       \* the entries of the store's Map
  accepts     \* accepts[e]: how often checkReplay answered ok for e

guardVars == <<now, held, accepts>>

Timestamps == 0 .. MaxTime
Envelope == [nonce : Nonces, ts : Timestamps]

TypeOK ==
  /\ now \in Timestamps
  /\ held \subseteq Envelope
  /\ accepts \in [Envelope -> Nat]

-------------------------------------------------------------------------------
(* The store's operations, as functions of its entries. *)

Has(entries, nonce) == \E x \in entries : x.nonce = nonce

Add(entries, e) == {x \in entries : x.nonce # e.nonce} \cup {e}

CleanupInclusive(entries, cutoff) == {x \in entries : x.ts > cutoff}

Cleanup(entries, cutoff) == {x \in entries : x.ts >= cutoff}

-------------------------------------------------------------------------------
OutOfWindow(e) == now - e.ts > Window \/ e.ts - now > Window

PastWindowOnly(e) ==
  IF now - e.ts > Window THEN "ts-out-of-window"
  ELSE IF Has(held, e.nonce) THEN "nonce-reused"
  ELSE "ok"

Verdict(e) ==
  IF OutOfWindow(e) THEN "ts-out-of-window"
  ELSE IF Has(held, e.nonce) THEN "nonce-reused"
  ELSE "ok"

Init ==
  /\ now = 0
  /\ held = {}
  /\ accepts = [e \in Envelope |-> 0]

Accept(e) ==
  /\ Verdict(e) = "ok"
  /\ held' = Cleanup(Add(held, e), now - Window)
  /\ accepts' = [accepts EXCEPT ![e] = @ + 1]
  /\ UNCHANGED now

Reject(e) ==
  /\ Verdict(e) # "ok"
  /\ UNCHANGED guardVars

Tick ==
  /\ now < MaxTime
  /\ now' = now + 1
  /\ UNCHANGED <<held, accepts>>

Next ==
  \/ Tick
  \/ \E e \in Envelope : Accept(e) \/ Reject(e)

Spec == Init /\ [][Next]_guardVars

-------------------------------------------------------------------------------
\* Whatever is sent again and however the clock moves between two copies of an
\* envelope, checkReplay answers ok for it at most once, although cleanup
\* forgets nonces all the time: one is forgotten only when its envelope is
\* already too old to be accepted, envelopes dated in the future included.
AcceptedAtMostOnce == \A e \in Envelope : accepts[e] <= 1

\* A nonce is refused as reused only if an envelope with that nonce was let
\* through: a refused request does not use up its nonce.
HeldWasAccepted == \A x \in held : accepts[x] > 0

\* The Map does not grow with the number of requests served: when checkReplay
\* has let an envelope through, it holds nothing that the window alone refuses.
ExpiredAreForgotten ==
  [][accepts' # accepts => \A x \in held' : now - x.ts <= Window]_guardVars

Promise == INSTANCE ReplayProtection WITH Envelopes <- Envelope

\* checkReplay over the in-memory store is an implementation of the promise.
ImplementsReplayProtection == Promise!Spec
===============================================================================
