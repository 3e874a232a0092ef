-------------------------- MODULE EnvelopeWorkerPool --------------------------
(***************************************************************************)
(* The pool of worker threads that router and node use to check envelopes  *)
(* (workers/envelope-worker-pool.ts, the same file in both services), with *)
(* the worker at the other end of the port and the caller that falls back  *)
(* on a check of its own (validateSignedEnvelope in utils/http.ts).        *)
(*                                                                         *)
(* A slot carries one task at a time.  The pool listens to the slot's      *)
(* worker only while the task runs, takes the first message for its answer *)
(* and gives the slot to the next task when the answer comes or the timer  *)
(* fires.  The worker knows nothing of timers: it works through what was   *)
(* posted to it, one after the other.                                      *)
(***************************************************************************)
EXTENDS Integers, Sequences

CONSTANTS
  Tasks,       \* the calls of validateAndVerify, one for each envelope
  Authentic,   \* those whose envelope is well formed and rightly signed
  MaxWorkers,  \* maxWorkers
  MaxQueue,    \* maxQueue
  NoTask       \* what an idle slot carries

ASSUME TasksAssumption == Authentic \subseteq Tasks /\ NoTask \notin Tasks
ASSUME SizesAssumption == MaxWorkers \in Nat \ {0} /\ MaxQueue \in Nat

Slots == 1 .. MaxWorkers

VARIABLES
  queue,    \* the tasks that have no slot yet
  serving,  \* the task of each slot: whose timer runs and whose listeners are on
  posted,   \* what each worker was sent and has not answered yet
  alive,    \* the slots whose worker runs
  outcome,  \* what became of each call
  up        \* the process runs

poolVars == <<queue, serving, posted, alive, outcome, up>>

(* "unchecked": the call returned and says nothing of the envelope.  "late": *)
(* it was rejected.  In both cases the caller checks the envelope itself.    *)
Outcomes == {"new", "waiting", "accepted", "rejected", "unchecked", "late"}

PoolTypeOK ==
  /\ queue \in Seq(Tasks)
  /\ Len(queue) <= MaxQueue
  /\ serving \in [Slots -> Tasks \cup {NoTask}]
  /\ posted \in [Slots -> Seq(Tasks)]
  /\ alive \subseteq Slots
  /\ outcome \in [Tasks -> Outcomes]
  /\ up \in BOOLEAN

PoolInit ==
  /\ queue = <<>>
  /\ serving = [w \in Slots |-> NoTask]
  /\ posted = [w \in Slots |-> <<>>]
  /\ alive = Slots
  /\ outcome = [t \in Tasks |-> "new"]
  /\ up = TRUE

AnySlot(s) == Slots

Idle(s) == {w \in Slots : s[w] = NoTask}

DispatchKeepsQueued(q, s, p) ==
  IF q = <<>> \/ Idle(s) = {}
  THEN queue' = q /\ serving' = s /\ posted' = p
  ELSE \E w \in Idle(s) :
         /\ \A v \in Idle(s) : w <= v
         /\ queue' = q
         /\ serving' = [s EXCEPT ![w] = Head(q)]
         /\ posted' = IF w \in alive THEN [p EXCEPT ![w] = Append(@, Head(q))] ELSE p

(* dispatch, from the queue q, the slots s and the posted tasks p: the first
   task goes to the first idle slot.  A message to a dead worker is lost. *)
Dispatch(q, s, p) ==
  IF q = <<>> \/ Idle(s) = {}
  THEN queue' = q /\ serving' = s /\ posted' = p
  ELSE \E w \in Idle(s) :
         /\ \A v \in Idle(s) : w <= v
         /\ queue' = Tail(q)
         /\ serving' = [s EXCEPT ![w] = Head(q)]
         /\ posted' = IF w \in alive THEN [p EXCEPT ![w] = Append(@, Head(q))] ELSE p

CleanupSlotWithoutDispatch(w, p) ==
  /\ queue' = queue
  /\ serving' = [serving EXCEPT ![w] = NoTask]
  /\ posted' = p

(* cleanup: the slot is free and the next task gets it. *)
CleanupSlot(w, p) == Dispatch(queue, [serving EXCEPT ![w] = NoTask], p)

(* The call validateAndVerify. *)
Submit(t) ==
  /\ up
  /\ outcome[t] = "new"
  /\ IF Len(queue) >= MaxQueue
     THEN /\ outcome' = [outcome EXCEPT ![t] = "unchecked"]
          /\ UNCHANGED <<queue, serving, posted>>
     ELSE /\ outcome' = [outcome EXCEPT ![t] = "waiting"]
          /\ Dispatch(Append(queue, t), serving, posted)
  /\ UNCHANGED <<alive, up>>

(* The worker's result for a task, or its report of an exception. *)
VerdictOn(t) == IF t \in Authentic THEN "accepted" ELSE "rejected"
ResultsFor(t) == {VerdictOn(t), "unchecked"}

(* A result arrives.  It settles the task that the slot carries now; without
   one there is no listener and the result is dropped. *)
Answer(w) ==
  /\ up
  /\ w \in alive
  /\ posted[w] # <<>>
  /\ LET rest == [posted EXCEPT ![w] = Tail(@)] IN
     IF serving[w] = NoTask
     THEN posted' = rest /\ UNCHANGED <<queue, serving, outcome>>
     ELSE /\ CleanupSlot(w, rest)
          /\ \E result \in ResultsFor(Head(posted[w])) :
               outcome' = [outcome EXCEPT ![serving[w]] = result]
  /\ UNCHANGED <<alive, up>>

TimeoutDropsTask(w) ==
  /\ up
  /\ serving[w] # NoTask
  /\ CleanupSlot(w, posted)
  /\ UNCHANGED <<alive, outcome, up>>

(* The timer of the slot's task fires. *)
Timeout(w) ==
  /\ up
  /\ serving[w] # NoTask
  /\ outcome' = [outcome EXCEPT ![serving[w]] = "late"]
  /\ CleanupSlot(w, posted)
  /\ UNCHANGED <<alive, up>>

(* The worker ends with an error.  Nobody starts another one; while its slot
   is idle nobody listens to the error either, and the process ends. *)
WorkerDies(w) ==
  /\ up
  /\ w \in alive
  /\ alive' = alive \ {w}
  /\ IF serving[w] = NoTask
     THEN /\ up' = FALSE
          /\ posted' = [posted EXCEPT ![w] = <<>>]
          /\ UNCHANGED <<queue, serving, outcome>>
     ELSE /\ outcome' = [outcome EXCEPT ![serving[w]] = "late"]
          /\ CleanupSlot(w, [posted EXCEPT ![w] = <<>>])
          /\ UNCHANGED up

PoolNext ==
  \/ \E t \in Tasks : Submit(t)
  \/ \E w \in Slots : Answer(w) \/ Timeout(w) \/ WorkerDies(w)

PoolSpec == PoolInit /\ [][PoolNext]_poolVars

(* Timers fire.  Nothing is assumed of the workers. *)
FairPoolSpec == PoolSpec /\ \A w \in Slots : WF_poolVars(Timeout(w))

-------------------------------------------------------------------------------
(* Properties *)

\* No call is lost and none is served twice: a call that waits is in the queue
\* once or at one slot, and nothing else is there, whatever answers, timers and
\* deaths of workers have moved the slots on.
WaitingIsQueuedOrServed ==
  /\ \A t \in Tasks : outcome[t] = "waiting" <=>
       \/ \E i \in 1 .. Len(queue) : queue[i] = t
       \/ \E w \in Slots : serving[w] = t
  /\ \A i, j \in 1 .. Len(queue) : queue[i] = queue[j] => i = j
  /\ \A w, v \in Slots : serving[w] = serving[v] /\ serving[w] # NoTask => w = v
  /\ \A i \in 1 .. Len(queue), w \in Slots : queue[i] # serving[w]

\* The pool never has work and a free slot at the same time, although dispatch
\* hands out one task at a time and is called only for a new task and a freed
\* slot.
NoIdleSlotWhileQueued == queue # <<>> => \A w \in Slots : serving[w] # NoTask

\* As long as no task was overtaken by its timer or by the death of its worker,
\* every verdict is about the envelope it is given for.
OwnVerdictsUntilLate ==
  (\A t \in Tasks : outcome[t] # "late") =>
    \A t \in Tasks : outcome[t] \in {"accepted", "rejected"} => outcome[t] = VerdictOn(t)

\* Every call returns, unless the process ends: no answer, no worker and no place
\* in the queue is needed for that.
EveryCallReturns ==
  \A t \in Tasks : outcome[t] = "waiting" ~> outcome[t] # "waiting" \/ ~ up

\* "Invalid envelopes rejected before business logic": what the pool accepts is
\* authentic.
AcceptedIsAuthentic == \A t \in Tasks : outcome[t] = "accepted" => t \in Authentic
===============================================================================
