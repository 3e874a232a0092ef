---------------------------- MODULE EnvelopeProofs ----------------------------
(***************************************************************************)
(* Proofs about what an envelope passes through before its request runs:   *)
(* the pool that checks its shape and its signature, for all sets of       *)
(* tasks, all numbers of workers and all sizes of the queue; and the guard *)
(* against replays over the store in memory and over the store in a file,  *)
(* for every set of nonces, every window, every cleanup interval and any   *)
(* number of restarts.                                                     *)
(***************************************************************************)
EXTENDS EnvelopeWorkerPool, FileNonceStore, SequenceTheorems, TLAPS

-------------------------------------------------------------------------------
(* The pool of workers                                                        *)

(* Task t is in the queue q or at one of the slots s. *)
Held(q, s, t) == (\E i \in 1 .. Len(q) : q[i] = t) \/ (\E w \in Slots : s[w] = t)

(* No task is twice in the queue q and the slots s. *)
Distinct(q, s) ==
  /\ \A i, j \in 1 .. Len(q) : q[i] = q[j] => i = j
  /\ \A w, v \in Slots : s[w] = s[v] /\ s[w] # NoTask => w = v
  /\ \A i \in 1 .. Len(q), w \in Slots : q[i] # s[w]

(* Before the first late task a worker was posted its slot's task and no more. *)
WorkersKeepUp ==
  (\A t \in Tasks : outcome[t] # "late") =>
    \A w \in Slots : posted[w] = IF serving[w] = NoTask THEN <<>> ELSE <<serving[w]>>

PoolInv ==
  /\ PoolTypeOK
  /\ WaitingIsQueuedOrServed
  /\ NoIdleSlotWhileQueued
  /\ WorkersKeepUp
  /\ OwnVerdictsUntilLate
  /\ (\A t \in Tasks : outcome[t] # "late") /\ up => alive = Slots

-------------------------------------------------------------------------------
(* dispatch *)

LEMMA SplitQueue ==
  ASSUME NEW q \in Seq(Tasks), q # <<>>
  PROVE  /\ Head(q) \in Tasks
         /\ Tail(q) \in Seq(Tasks)
         /\ Len(q) \in Nat \ {0}
         /\ Len(Tail(q)) = Len(q) - 1
         /\ Head(q) = q[1]
         /\ \A i \in 1 .. Len(Tail(q)) : Tail(q)[i] = q[i + 1]
<1>1. Len(q) \in Nat \ {0}
  BY EmptySeq
<1>2. Head(q) = q[1]
  OBVIOUS
<1> QED
  BY <1>1, <1>2, HeadTailProperties

(* dispatch moves a task from the queue to an idle slot or does nothing. *)
LEMMA DispatchCases ==
  ASSUME NEW q \in Seq(Tasks), NEW s \in [Slots -> Tasks \cup {NoTask}],
         NEW p \in [Slots -> Seq(Tasks)], Dispatch(q, s, p)
  PROVE  \/ /\ q = <<>> \/ Idle(s) = {}
            /\ queue' = q /\ serving' = s /\ posted' = p
         \/ /\ q # <<>>
            /\ \E w \in Slots :
                 /\ s[w] = NoTask
                 /\ queue' = Tail(q)
                 /\ serving' = [s EXCEPT ![w] = Head(q)]
                 /\ posted' = IF w \in alive THEN [p EXCEPT ![w] = Append(@, Head(q))] ELSE p
  BY DEF Dispatch, Idle

LEMMA DispatchTypes ==
  ASSUME NEW q \in Seq(Tasks), NEW s \in [Slots -> Tasks \cup {NoTask}],
         NEW p \in [Slots -> Seq(Tasks)], Dispatch(q, s, p)
  PROVE  /\ queue' \in Seq(Tasks)
         /\ Len(queue') <= Len(q)
         /\ Idle(s) # {} /\ q # <<>> => Len(queue') = Len(q) - 1
         /\ serving' \in [Slots -> Tasks \cup {NoTask}]
         /\ posted' \in [Slots -> Seq(Tasks)]
<1>1. Len(q) \in Nat
  OBVIOUS
<1>2. CASE q = <<>> \/ Idle(s) = {}
  BY <1>1, <1>2 DEF Dispatch
<1>3. CASE q # <<>> /\ Idle(s) # {}
  <2>1. PICK w \in Slots : 
          /\ queue' = Tail(q)
          /\ serving' = [s EXCEPT ![w] = Head(q)]
          /\ posted' = IF w \in alive THEN [p EXCEPT ![w] = Append(@, Head(q))] ELSE p
    BY <1>3, DispatchCases
  <2>2. p[w] \in Seq(Tasks) /\ Append(p[w], Head(q)) \in Seq(Tasks)
    BY <1>3, SplitQueue, AppendProperties
  <2> QED
    BY <1>1, <1>3, <2>1, <2>2, SplitQueue
<1> QED
  BY <1>2, <1>3

LEMMA DispatchKeepsTasks ==
  ASSUME NEW q \in Seq(Tasks), NEW s \in [Slots -> Tasks \cup {NoTask}],
         NEW p \in [Slots -> Seq(Tasks)], Dispatch(q, s, p), Distinct(q, s)
  PROVE  /\ Distinct(queue', serving')
         /\ \A t \in Tasks : Held(queue', serving', t) <=> Held(q, s, t)
<1>1. CASE queue' = q /\ serving' = s
  BY <1>1
<1>2. ASSUME q # <<>>, NEW w \in Slots, s[w] = NoTask, queue' = Tail(q),
             serving' = [s EXCEPT ![w] = Head(q)]
      PROVE  /\ Distinct(queue', serving')
             /\ \A t \in Tasks : Held(queue', serving', t) <=> Held(q, s, t)
  <2> DEFINE n == Len(q)
  <2>1. /\ n \in Nat \ {0}
        /\ Head(q) \in Tasks
        /\ Head(q) = q[1]
        /\ Len(queue') = n - 1
        /\ \A i \in 1 .. n - 1 : queue'[i] = q[i + 1]
        /\ \A v \in Slots : serving'[v] = IF v = w THEN q[1] ELSE s[v]
    BY <1>2, SplitQueue
  <2>2. /\ \A i, j \in 1 .. n : q[i] = q[j] => i = j
        /\ \A v, u \in Slots : s[v] = s[u] /\ s[v] # NoTask => v = u
        /\ \A i \in 1 .. n, v \in Slots : q[i] # s[v]
    BY DEF Distinct
  <2> HIDE DEF n
  <2>3. /\ 1 \in 1 .. n
        /\ \A i \in 1 .. n - 1 : i + 1 \in 1 .. n /\ i + 1 # 1
        /\ \A i \in 1 .. n : i = 1 \/ (i - 1 \in 1 .. n - 1 /\ (i - 1) + 1 = i)
    BY <2>1
  <2>4. \A i, j \in 1 .. n - 1 : queue'[i] = queue'[j] => i = j
    <3>1. \A i, j \in 1 .. n - 1 : i + 1 = j + 1 => i = j
      BY <2>1
    <3> QED
      BY <2>1, <2>2, <2>3, <3>1
  <2>5. \A i \in 1 .. n - 1, v \in Slots : queue'[i] # serving'[v]
    <3> SUFFICES ASSUME NEW i \in 1 .. n - 1, NEW v \in Slots PROVE queue'[i] # serving'[v]
      OBVIOUS
    <3>1. i + 1 \in 1 .. n /\ i + 1 # 1 /\ queue'[i] = q[i + 1]
      BY <2>1, <2>3
    <3>2. CASE v = w
      BY <2>1, <2>2, <2>3, <3>1, <3>2
    <3>3. CASE v # w
      BY <2>1, <2>2, <3>1, <3>3
    <3> QED
      BY <3>2, <3>3
  <2>6. \A v, u \in Slots : serving'[v] = serving'[u] /\ serving'[v] # NoTask => v = u
    BY <2>1, <2>2, <2>3
  <2>7. ASSUME NEW t \in Tasks, Held(q, s, t) PROVE Held(queue', serving', t)
    <3>1. ASSUME NEW i \in 1 .. n, q[i] = t PROVE Held(queue', serving', t)
      <4>1. CASE i = 1
        BY <2>1, <3>1, <4>1 DEF Held
      <4>2. CASE i # 1
        <5>1. i - 1 \in 1 .. n - 1 /\ (i - 1) + 1 = i
          BY <2>3, <4>2
        <5>2. queue'[i - 1] = t /\ i - 1 \in 1 .. Len(queue')
          BY <2>1, <3>1, <5>1
        <5> QED
          BY <5>2 DEF Held
      <4> QED
        BY <4>1, <4>2
    <3>2. ASSUME NEW v \in Slots, s[v] = t PROVE Held(queue', serving', t)
      <4>1. v # w
        BY <1>2, <3>2, TasksAssumption
      <4> QED
        BY <2>1, <3>2, <4>1 DEF Held
    <3>3. (\E i \in 1 .. n : q[i] = t) \/ (\E v \in Slots : s[v] = t)
      BY <2>7 DEF Held, n
    <3> QED
      BY <3>1, <3>2, <3>3
  <2>8. ASSUME NEW t \in Tasks, Held(queue', serving', t) PROVE Held(q, s, t)
    <3>1. ASSUME NEW i \in 1 .. n - 1, queue'[i] = t PROVE Held(q, s, t)
      BY <2>1, <2>3, <3>1 DEF Held, n
    <3>2. ASSUME NEW v \in Slots, serving'[v] = t PROVE Held(q, s, t)
      BY <2>1, <2>3, <3>2 DEF Held, n
    <3>3. (\E i \in 1 .. n - 1 : queue'[i] = t) \/ (\E v \in Slots : serving'[v] = t)
      BY <2>1, <2>8 DEF Held
    <3> QED
      BY <3>1, <3>2, <3>3
  <2> QED
    BY <2>1, <2>4, <2>5, <2>6, <2>7, <2>8 DEF Distinct
<1> QED
  BY <1>1, <1>2, DispatchCases

LEMMA DispatchLeavesNoIdleSlot ==
  ASSUME NEW q \in Seq(Tasks), NEW s \in [Slots -> Tasks \cup {NoTask}],
         NEW p \in [Slots -> Seq(Tasks)], Dispatch(q, s, p),
         NEW w \in Slots, Idle(s) \subseteq {w} \/ Len(q) <= 1
  PROVE  NoIdleSlotWhileQueued'
<1>1. CASE q = <<>> \/ Idle(s) = {}
  BY <1>1 DEF Dispatch, Idle, NoIdleSlotWhileQueued
<1>2. CASE q # <<>> /\ Idle(s) # {}
  <2>1. PICK v \in Slots : /\ s[v] = NoTask
                           /\ queue' = Tail(q)
                           /\ serving' = [s EXCEPT ![v] = Head(q)]
    BY <1>2, DispatchCases
  <2>2. CASE Len(q) <= 1
    <3>1. /\ Tail(q) \in Seq(Tasks)
          /\ Len(q) \in Nat \ {0}
          /\ Len(Tail(q)) = Len(q) - 1
      BY <1>2, SplitQueue
    <3>2. Len(Tail(q)) = 0
      BY <2>2, <3>1
    <3>3. Tail(q) = <<>>
      BY <3>1, <3>2, EmptySeq
    <3> QED
      BY <2>1, <3>3 DEF NoIdleSlotWhileQueued
  <2>3. CASE Idle(s) \subseteq {w}
    <3>1. Head(q) # NoTask
      BY <1>2, SplitQueue, TasksAssumption
    <3>2. \A u \in Slots : s[u] = NoTask => u = v
      BY <2>1, <2>3 DEF Idle
    <3> QED
      BY <2>1, <3>1, <3>2 DEF NoIdleSlotWhileQueued
  <2> QED
    BY <2>2, <2>3
<1> QED
  BY <1>1, <1>2

(* A worker keeps up across dispatch if it did before. *)
LEMMA DispatchKeepsUp ==
  ASSUME NEW q \in Seq(Tasks), NEW s \in [Slots -> Tasks \cup {NoTask}],
         NEW p \in [Slots -> Seq(Tasks)], Dispatch(q, s, p), alive = Slots,
         \A w \in Slots : p[w] = IF s[w] = NoTask THEN <<>> ELSE <<s[w]>>
  PROVE  \A w \in Slots : posted'[w] = IF serving'[w] = NoTask THEN <<>> ELSE <<serving'[w]>>
<1>1. CASE serving' = s /\ posted' = p
  BY <1>1
<1>2. ASSUME q # <<>>, NEW w \in Slots, s[w] = NoTask,
             serving' = [s EXCEPT ![w] = Head(q)],
             posted' = [p EXCEPT ![w] = Append(p[w], Head(q))]
      PROVE  \A v \in Slots : posted'[v] = IF serving'[v] = NoTask THEN <<>> ELSE <<serving'[v]>>
  <2>1. Head(q) \in Tasks /\ Head(q) # NoTask
    BY <1>2, SplitQueue, TasksAssumption
  <2>2. Append(<<>>, Head(q)) = <<Head(q)>>
    BY <2>1
  <2>3. p[w] = <<>>
    BY <1>2
  <2> QED
    BY <1>2, <2>1, <2>2, <2>3
<1>3. \/ serving' = s /\ posted' = p
      \/ /\ q # <<>>
         /\ \E w \in Slots : /\ s[w] = NoTask
                             /\ serving' = [s EXCEPT ![w] = Head(q)]
                             /\ posted' = [p EXCEPT ![w] = Append(p[w], Head(q))]
  <2>1. CASE ~ (serving' = s /\ posted' = p)
    <3>1. PICK w \in Slots :
            /\ s[w] = NoTask
            /\ queue' = Tail(q)
            /\ serving' = [s EXCEPT ![w] = Head(q)]
            /\ posted' = IF w \in alive THEN [p EXCEPT ![w] = Append(@, Head(q))] ELSE p
      BY <2>1 DEF Dispatch, Idle
    <3>2. posted' = [p EXCEPT ![w] = Append(p[w], Head(q))]
      BY <3>1
    <3>3. q # <<>>
      BY <2>1 DEF Dispatch
    <3> QED
      BY <3>1, <3>2, <3>3
  <2> QED
    BY <2>1
<1> QED
  BY <1>1, <1>2, <1>3

-------------------------------------------------------------------------------
(* The steps *)

(* What Held and Distinct say of the pool's own queue and slots. *)
LEMMA WaitingIsHeld ==
  WaitingIsQueuedOrServed <=>
    /\ Distinct(queue, serving)
    /\ \A t \in Tasks : outcome[t] = "waiting" <=> Held(queue, serving, t)
  BY DEF WaitingIsQueuedOrServed, Distinct, Held

LEMMA PoolInvInit == PoolInit => PoolInv
<1> SUFFICES ASSUME PoolInit PROVE PoolInv
  OBVIOUS
<1>1. <<>> \in Seq(Tasks) /\ Len(<<>>) = 0
  BY EmptySeq
<1>2. PoolTypeOK
  BY <1>1, SizesAssumption DEF PoolInit, PoolTypeOK, Outcomes
<1>3. WaitingIsQueuedOrServed
  BY <1>1, TasksAssumption DEF PoolInit, WaitingIsQueuedOrServed
<1>4. NoIdleSlotWhileQueued /\ WorkersKeepUp /\ OwnVerdictsUntilLate /\ alive = Slots
  BY DEF PoolInit, NoIdleSlotWhileQueued, WorkersKeepUp, OwnVerdictsUntilLate
<1> QED
  BY <1>2, <1>3, <1>4 DEF PoolInv

(* A task leaves the slot w, where it was until then, with the outcome o. *)
LEMMA CleanupKeepsTasks ==
  ASSUME PoolInv, NEW w \in Slots, serving[w] # NoTask, NEW p \in [Slots -> Seq(Tasks)],
         CleanupSlot(w, p), NEW o \in Outcomes \ {"new", "waiting"},
         outcome' = [outcome EXCEPT ![serving[w]] = o],
         alive' \in SUBSET Slots, up' \in BOOLEAN
  PROVE  PoolTypeOK' /\ WaitingIsQueuedOrServed' /\ NoIdleSlotWhileQueued'
<1> DEFINE s == [serving EXCEPT ![w] = NoTask]
<1>1. /\ PoolTypeOK
      /\ queue \in Seq(Tasks)
      /\ Len(queue) \in Nat
      /\ Len(queue) <= MaxQueue
      /\ s \in [Slots -> Tasks \cup {NoTask}]
      /\ outcome \in [Tasks -> Outcomes]
      /\ serving[w] \in Tasks
      /\ Dispatch(queue, s, p)
  BY DEF PoolInv, PoolTypeOK, CleanupSlot
<1>2. \A v \in Slots : s[v] = IF v = w THEN NoTask ELSE serving[v]
  BY <1>1 DEF PoolTypeOK
<1>3. Distinct(queue, serving) /\ \A t \in Tasks : outcome[t] = "waiting" <=> Held(queue, serving, t)
  BY WaitingIsHeld DEF PoolInv
<1> HIDE DEF s
<1>4. PoolTypeOK'
  <2>1. /\ queue' \in Seq(Tasks)
        /\ Len(queue') \in Nat
        /\ Len(queue') <= Len(queue)
        /\ serving' \in [Slots -> Tasks \cup {NoTask}]
        /\ posted' \in [Slots -> Seq(Tasks)]
    BY <1>1, DispatchTypes
  <2>2. outcome' \in [Tasks -> Outcomes]
    BY <1>1
  <2> QED
    BY <1>1, <2>1, <2>2, SizesAssumption DEF PoolTypeOK
<1>5. Distinct(queue, s)
  <2>1. \A i \in 1 .. Len(queue), v \in Slots : queue[i] # s[v]
    <3>1. \A i \in 1 .. Len(queue) : queue[i] \in Tasks
      BY <1>1, ElementOfSeq
    <3> QED
      BY <1>2, <1>3, <3>1, TasksAssumption DEF Distinct
  <2> QED
    BY <1>2, <1>3, <2>1 DEF Distinct
<1>6. \A t \in Tasks : Held(queue, s, t) <=> Held(queue, serving, t) /\ t # serving[w]
  <2> SUFFICES ASSUME NEW t \in Tasks
               PROVE  Held(queue, s, t) <=> Held(queue, serving, t) /\ t # serving[w]
    OBVIOUS
  <2>1. t # NoTask
    BY TasksAssumption
  <2>2. ASSUME NEW i \in 1 .. Len(queue), queue[i] = t PROVE t # serving[w]
    BY <1>3, <2>2 DEF Distinct
  <2>3. \A v \in Slots : s[v] = t <=> serving[v] = t /\ v # w
    BY <1>2, <2>1
  <2>4. \A v \in Slots : serving[v] = t /\ t = serving[w] => v = w
    BY <1>3, <2>1 DEF Distinct
  <2> QED
    BY <2>2, <2>3, <2>4 DEF Held
<1>7. WaitingIsQueuedOrServed'
  <2>1. /\ Distinct(queue', serving')
        /\ \A t \in Tasks : Held(queue', serving', t) <=> Held(queue, s, t)
    BY <1>1, <1>5, DispatchKeepsTasks
  <2>2. \A t \in Tasks : outcome'[t] = IF t = serving[w] THEN o ELSE outcome[t]
    BY <1>1
  <2>3. \A t \in Tasks : outcome'[t] = "waiting" <=> Held(queue', serving', t)
    BY <1>3, <1>6, <2>1, <2>2
  <2> QED
    BY <2>1, <2>3 DEF WaitingIsQueuedOrServed, Distinct, Held
<1>8. NoIdleSlotWhileQueued'
  <2>1. CASE queue = <<>>
    <3>1. Len(queue) <= 1
      BY <2>1, EmptySeq
    <3> QED
      BY <1>1, <3>1, DispatchLeavesNoIdleSlot
  <2>2. CASE queue # <<>>
    <3>1. Idle(s) \subseteq {w}
      BY <1>2, <2>2 DEF PoolInv, NoIdleSlotWhileQueued, Idle
    <3> QED
      BY <1>1, <3>1, DispatchLeavesNoIdleSlot
  <2> QED
    BY <2>1, <2>2
<1> QED
  BY <1>4, <1>7, <1>8

LEMMA SubmitKeepsPoolInv ==
  ASSUME PoolInv, NEW t \in Tasks, Submit(t)
  PROVE  PoolInv'
<1>1. /\ PoolTypeOK
      /\ outcome[t] = "new"
      /\ up
      /\ UNCHANGED <<alive, up>>
      /\ queue \in Seq(Tasks)
      /\ Len(queue) \in Nat
      /\ Len(queue) <= MaxQueue
      /\ outcome \in [Tasks -> Outcomes]
      /\ serving \in [Slots -> Tasks \cup {NoTask}]
      /\ posted \in [Slots -> Seq(Tasks)]
  BY DEF PoolInv, PoolTypeOK, Submit
<1>2. Distinct(queue, serving) /\ \A x \in Tasks : outcome[x] = "waiting" <=> Held(queue, serving, x)
  BY WaitingIsHeld DEF PoolInv
<1>3. CASE Len(queue) >= MaxQueue
  <2>1. /\ outcome' = [outcome EXCEPT ![t] = "unchecked"]
        /\ UNCHANGED <<queue, serving, posted>>
    BY <1>3 DEF Submit
  <2>2. \A x \in Tasks : outcome'[x] = IF x = t THEN "unchecked" ELSE outcome[x]
    BY <1>1, <2>1
  <2>3. PoolTypeOK'
    BY <1>1, <2>1 DEF PoolTypeOK, Outcomes
  <2>4. WaitingIsQueuedOrServed'
    BY <1>1, <2>1, <2>2 DEF PoolInv, WaitingIsQueuedOrServed
  <2>5. (\A x \in Tasks : outcome'[x] # "late") <=> (\A x \in Tasks : outcome[x] # "late")
    BY <1>1, <2>2
  <2>6. WorkersKeepUp' /\ NoIdleSlotWhileQueued'
    BY <2>1, <2>5 DEF PoolInv, WorkersKeepUp, NoIdleSlotWhileQueued
  <2>7. OwnVerdictsUntilLate'
    BY <2>2, <2>5 DEF PoolInv, OwnVerdictsUntilLate, VerdictOn
  <2> QED
    BY <1>1, <2>3, <2>4, <2>5, <2>6, <2>7 DEF PoolInv
<1>4. CASE Len(queue) < MaxQueue
  <2> DEFINE q == Append(queue, t)
  <2>1. /\ outcome' = [outcome EXCEPT ![t] = "waiting"]
        /\ Dispatch(q, serving, posted)
    BY <1>1, <1>4, SizesAssumption DEF Submit
  <2>2. \A x \in Tasks : outcome'[x] = IF x = t THEN "waiting" ELSE outcome[x]
    BY <1>1, <2>1
  <2>3. /\ q \in Seq(Tasks)
        /\ Len(q) = Len(queue) + 1
        /\ \A i \in 1 .. Len(queue) : q[i] = queue[i]
        /\ q[Len(queue) + 1] = t
    BY <1>1, AppendProperties
  <2> HIDE DEF q
  <2>4. ~ Held(queue, serving, t)
    BY <1>1, <1>2
  <2>5. Distinct(q, serving)
    <3>1. \A i \in 1 .. Len(q) : i \in 1 .. Len(queue) \/ i = Len(queue) + 1
      BY <1>1, <2>3
    <3>2. \A i \in 1 .. Len(queue) : q[i] = queue[i] /\ queue[i] # t
      BY <2>3, <2>4 DEF Held
    <3>3. \A w \in Slots : serving[w] # t
      BY <2>4 DEF Held
    <3> QED
      BY <1>2, <2>3, <3>1, <3>2, <3>3 DEF Distinct
  <2>6. \A x \in Tasks : Held(q, serving, x) <=> Held(queue, serving, x) \/ x = t
    <3>1. \A i \in 1 .. Len(q) : i \in 1 .. Len(queue) \/ i = Len(queue) + 1
      BY <1>1, <2>3
    <3>2. /\ \A i \in 1 .. Len(queue) : i \in 1 .. Len(q)
          /\ Len(queue) + 1 \in 1 .. Len(q)
      BY <1>1, <2>3
    <3> QED
      BY <2>3, <3>1, <3>2 DEF Held
  <2>7. WaitingIsQueuedOrServed'
    <3>1. /\ Distinct(queue', serving')
          /\ \A x \in Tasks : Held(queue', serving', x) <=> Held(q, serving, x)
      BY <1>1, <2>1, <2>3, <2>5, DispatchKeepsTasks
    <3>2. \A x \in Tasks : outcome'[x] = "waiting" <=> Held(queue', serving', x)
      BY <1>2, <2>2, <2>6, <3>1
    <3> QED
      BY <3>1, <3>2 DEF WaitingIsQueuedOrServed, Distinct, Held
  <2>8. PoolTypeOK'
    <3>1. /\ queue' \in Seq(Tasks)
          /\ Len(queue') \in Nat
          /\ Len(queue') <= Len(queue) + 1
          /\ serving' \in [Slots -> Tasks \cup {NoTask}]
          /\ posted' \in [Slots -> Seq(Tasks)]
      BY <1>1, <2>1, <2>3, DispatchTypes
    <3>2. outcome' \in [Tasks -> Outcomes]
      BY <1>1, <2>1 DEF Outcomes
    <3> QED
      BY <1>1, <1>4, <3>1, <3>2, SizesAssumption DEF PoolTypeOK
  <2>9. NoIdleSlotWhileQueued'
    <3>1. 1 \in Slots
      BY SizesAssumption DEF Slots
    <3>2. CASE queue = <<>>
      <4>1. Len(q) <= 1
        BY <2>3, <3>2, EmptySeq
      <4> QED
        BY <1>1, <2>1, <2>3, <3>1, <4>1, DispatchLeavesNoIdleSlot
    <3>3. CASE queue # <<>>
      <4>1. Idle(serving) \subseteq {1}
        BY <3>3 DEF PoolInv, NoIdleSlotWhileQueued, Idle
      <4> QED
        BY <1>1, <2>1, <2>3, <3>1, <4>1, DispatchLeavesNoIdleSlot
    <3> QED
      BY <3>2, <3>3
  <2>10. (\A x \in Tasks : outcome'[x] # "late") <=> (\A x \in Tasks : outcome[x] # "late")
    BY <1>1, <2>2
  <2>11. WorkersKeepUp'
    <3>1. SUFFICES ASSUME \A x \in Tasks : outcome'[x] # "late"
                   PROVE  \A w \in Slots : posted'[w] = IF serving'[w] = NoTask THEN <<>> ELSE <<serving'[w]>>
      BY DEF WorkersKeepUp
    <3>2. alive = Slots
      BY <1>1, <2>10, <3>1 DEF PoolInv
    <3>3. \A w \in Slots : posted[w] = IF serving[w] = NoTask THEN <<>> ELSE <<serving[w]>>
      BY <2>10, <3>1 DEF PoolInv, WorkersKeepUp
    <3> QED
      BY <1>1, <2>1, <2>3, <3>2, <3>3, DispatchKeepsUp
  <2>12. OwnVerdictsUntilLate'
    BY <2>2, <2>10 DEF PoolInv, OwnVerdictsUntilLate, VerdictOn
  <2> QED
    BY <1>1, <2>7, <2>8, <2>9, <2>10, <2>11, <2>12 DEF PoolInv
<1> QED
  BY <1>1, <1>3, <1>4, SizesAssumption

LEMMA AnswerKeepsPoolInv ==
  ASSUME PoolInv, NEW w \in Slots, Answer(w)
  PROVE  PoolInv'
<1> DEFINE rest == [posted EXCEPT ![w] = Tail(posted[w])]
<1>1. /\ PoolTypeOK
      /\ UNCHANGED <<alive, up>>
      /\ up
      /\ alive \in SUBSET Slots
      /\ up \in BOOLEAN
      /\ queue \in Seq(Tasks)
      /\ outcome \in [Tasks -> Outcomes]
      /\ serving \in [Slots -> Tasks \cup {NoTask}]
      /\ posted \in [Slots -> Seq(Tasks)]
      /\ posted[w] \in Seq(Tasks)
      /\ posted[w] # <<>>
  BY DEF PoolInv, PoolTypeOK, Answer
<1>2. rest \in [Slots -> Seq(Tasks)] /\ Head(posted[w]) \in Tasks
  BY <1>1, SplitQueue
<1>3. CASE serving[w] = NoTask
  <2>1. posted' = rest /\ UNCHANGED <<queue, serving, outcome>>
    BY <1>3 DEF Answer
  <2>2. \E t \in Tasks : outcome[t] = "late"
    BY <1>1, <1>3 DEF PoolInv, WorkersKeepUp
  <2>3. PoolTypeOK'
    BY <1>1, <1>2, <2>1 DEF PoolTypeOK
  <2>4. WaitingIsQueuedOrServed' /\ NoIdleSlotWhileQueued'
    BY <2>1 DEF PoolInv, WaitingIsQueuedOrServed, NoIdleSlotWhileQueued
  <2>5. WorkersKeepUp' /\ OwnVerdictsUntilLate'
    BY <2>1, <2>2 DEF WorkersKeepUp, OwnVerdictsUntilLate
  <2> QED
    BY <2>1, <2>2, <2>3, <2>4, <2>5 DEF PoolInv
<1>4. CASE serving[w] # NoTask
  <2>1. PICK o \in ResultsFor(Head(posted[w])) : outcome' = [outcome EXCEPT ![serving[w]] = o]
    BY <1>4 DEF Answer
  <2>2. o \in {"accepted", "rejected", "unchecked"}
    BY <2>1 DEF ResultsFor, VerdictOn
  <2>3. CleanupSlot(w, rest)
    BY <1>4 DEF Answer
  <2>4. PoolTypeOK' /\ WaitingIsQueuedOrServed' /\ NoIdleSlotWhileQueued'
    <3>1. o \in Outcomes \ {"new", "waiting"}
      BY <2>2 DEF Outcomes
    <3>2. alive' \in SUBSET Slots /\ up' \in BOOLEAN
      BY <1>1
    <3> HIDE DEF rest
    <3> QED
      BY <1>2, <1>4, <2>1, <2>3, <3>1, <3>2, CleanupKeepsTasks
  <2>5. /\ serving[w] \in Tasks
        /\ \A t \in Tasks : outcome'[t] = IF t = serving[w] THEN o ELSE outcome[t]
    BY <1>1, <1>4, <2>1
  <2>6. ASSUME \A t \in Tasks : outcome'[t] # "late"
        PROVE  /\ \A t \in Tasks : outcome[t] # "late"
               /\ alive = Slots
               /\ \A v \in Slots : posted[v] = IF serving[v] = NoTask THEN <<>> ELSE <<serving[v]>>
    <3>1. outcome[serving[w]] = "waiting"
      BY <2>5 DEF PoolInv, WaitingIsQueuedOrServed
    <3>2. \A t \in Tasks : outcome[t] # "late"
      BY <2>5, <2>6, <3>1
    <3> QED
      BY <1>1, <3>2 DEF PoolInv, WorkersKeepUp
  <2>7. WorkersKeepUp'
    <3>1. SUFFICES ASSUME \A t \in Tasks : outcome'[t] # "late"
                   PROVE  \A v \in Slots : posted'[v] = IF serving'[v] = NoTask THEN <<>> ELSE <<serving'[v]>>
      BY DEF WorkersKeepUp
    <3> DEFINE s == [serving EXCEPT ![w] = NoTask]
    <3>2. s \in [Slots -> Tasks \cup {NoTask}] /\ \A v \in Slots : s[v] = IF v = w THEN NoTask ELSE serving[v]
      BY <1>1
    <3>3. Tail(posted[w]) = <<>>
      <4>1. posted[w] = <<serving[w]>>
        BY <1>4, <2>6, <3>1
      <4> QED
        BY <4>1
    <3>4. \A v \in Slots : rest[v] = IF s[v] = NoTask THEN <<>> ELSE <<s[v]>>
      BY <1>1, <2>6, <3>1, <3>2, <3>3
    <3>5. Dispatch(queue, s, rest)
      BY <2>3 DEF CleanupSlot
    <3> HIDE DEF s, rest
    <3> QED
      BY <1>1, <1>2, <2>6, <3>1, <3>2, <3>4, <3>5, DispatchKeepsUp
  <2>8. OwnVerdictsUntilLate'
    <3>1. SUFFICES ASSUME \A t \in Tasks : outcome'[t] # "late"
                   PROVE  \A t \in Tasks : outcome'[t] \in {"accepted", "rejected"} => outcome'[t] = VerdictOn(t)
      BY DEF OwnVerdictsUntilLate, VerdictOn
    <3>2. Head(posted[w]) = serving[w]
      <4>1. posted[w] = <<serving[w]>>
        BY <1>4, <2>6, <3>1
      <4> QED
        BY <4>1
    <3>3. o \in {"accepted", "rejected"} => o = VerdictOn(serving[w])
      BY <2>1, <3>2 DEF ResultsFor, VerdictOn
    <3> QED
      BY <2>5, <2>6, <3>1, <3>3 DEF PoolInv, OwnVerdictsUntilLate
  <2> QED
    BY <1>1, <2>4, <2>6, <2>7, <2>8 DEF PoolInv
<1> QED
  BY <1>3, <1>4

(* A task that has become late leaves nothing more to show. *)
LEMMA LateKeepsPoolInv ==
  ASSUME PoolInv, NEW w \in Slots, serving[w] # NoTask,
         outcome' = [outcome EXCEPT ![serving[w]] = "late"],
         PoolTypeOK', WaitingIsQueuedOrServed', NoIdleSlotWhileQueued'
  PROVE  PoolInv'
<1>1. outcome \in [Tasks -> Outcomes] /\ serving[w] \in Tasks
  BY DEF PoolInv, PoolTypeOK
<1>2. \E t \in Tasks : outcome'[t] = "late"
  BY <1>1
<1>3. WorkersKeepUp' /\ OwnVerdictsUntilLate'
  BY <1>2 DEF WorkersKeepUp, OwnVerdictsUntilLate
<1> QED
  BY <1>2, <1>3 DEF PoolInv

LEMMA TimeoutKeepsPoolInv ==
  ASSUME PoolInv, NEW w \in Slots, Timeout(w)
  PROVE  PoolInv'
<1>1. /\ posted \in [Slots -> Seq(Tasks)]
      /\ serving[w] # NoTask
      /\ outcome' = [outcome EXCEPT ![serving[w]] = "late"]
      /\ CleanupSlot(w, posted)
      /\ alive' \in SUBSET Slots
      /\ up' \in BOOLEAN
  BY DEF PoolInv, PoolTypeOK, Timeout
<1>2. "late" \in Outcomes \ {"new", "waiting"}
  BY DEF Outcomes
<1> QED
  BY <1>1, <1>2, CleanupKeepsTasks, LateKeepsPoolInv

LEMMA WorkerDiesKeepsPoolInv ==
  ASSUME PoolInv, NEW w \in Slots, WorkerDies(w)
  PROVE  PoolInv'
<1> DEFINE p == [posted EXCEPT ![w] = <<>>]
<1>1. /\ PoolTypeOK
      /\ p \in [Slots -> Seq(Tasks)]
      /\ alive' \in SUBSET Slots
      /\ up \in BOOLEAN
  BY EmptySeq DEF PoolInv, PoolTypeOK, WorkerDies
<1>2. CASE serving[w] # NoTask
  <2>1. /\ outcome' = [outcome EXCEPT ![serving[w]] = "late"]
        /\ CleanupSlot(w, p)
        /\ up' \in BOOLEAN
    BY <1>1, <1>2 DEF WorkerDies
  <2>2. "late" \in Outcomes \ {"new", "waiting"}
    BY DEF Outcomes
  <2> HIDE DEF p
  <2> QED
    BY <1>1, <1>2, <2>1, <2>2, CleanupKeepsTasks, LateKeepsPoolInv
<1>3. CASE serving[w] = NoTask
  <2>1. /\ up' = FALSE
        /\ posted' = p
        /\ UNCHANGED <<queue, serving, outcome>>
    BY <1>3 DEF WorkerDies
  <2>2. PoolTypeOK'
    BY <1>1, <2>1 DEF PoolTypeOK
  <2>3. WorkersKeepUp'
    BY <1>1, <1>3, <2>1 DEF PoolInv, PoolTypeOK, WorkersKeepUp
  <2>4. WaitingIsQueuedOrServed' /\ NoIdleSlotWhileQueued' /\ OwnVerdictsUntilLate'
    BY <2>1 DEF PoolInv, WaitingIsQueuedOrServed, NoIdleSlotWhileQueued, OwnVerdictsUntilLate, VerdictOn
  <2> QED
    BY <2>1, <2>2, <2>3, <2>4 DEF PoolInv
<1> QED
  BY <1>2, <1>3

LEMMA PoolInvStep == PoolInv /\ [PoolNext]_poolVars => PoolInv'
<1> SUFFICES ASSUME PoolInv, [PoolNext]_poolVars PROVE PoolInv'
  OBVIOUS
<1>1. ASSUME NEW t \in Tasks, Submit(t) PROVE PoolInv'
  BY <1>1, SubmitKeepsPoolInv
<1>2. ASSUME NEW w \in Slots, Answer(w) PROVE PoolInv'
  BY <1>2, AnswerKeepsPoolInv
<1>3. ASSUME NEW w \in Slots, Timeout(w) PROVE PoolInv'
  BY <1>3, TimeoutKeepsPoolInv
<1>4. ASSUME NEW w \in Slots, WorkerDies(w) PROVE PoolInv'
  BY <1>4, WorkerDiesKeepsPoolInv
<1>5. CASE UNCHANGED poolVars
  BY <1>5 DEF poolVars, PoolInv, PoolTypeOK, WaitingIsQueuedOrServed, NoIdleSlotWhileQueued,
              WorkersKeepUp, OwnVerdictsUntilLate, VerdictOn
<1> QED
  BY <1>1, <1>2, <1>3, <1>4, <1>5 DEF PoolNext

-------------------------------------------------------------------------------
(* The theorems *)

(* The inductive invariant of the pool.                                    *)
THEOREM PoolInvariant == PoolSpec => []PoolInv
<1> QED
  BY PoolInvInit, PoolInvStep, PTL DEF PoolSpec

(* The queue never exceeds maxQueue, and everything stays in its type.     *)
THEOREM PoolTypeCorrect == PoolSpec => []PoolTypeOK
<1>1. PoolInv => PoolTypeOK
  BY DEF PoolInv
<1> QED
  BY <1>1, PoolInvariant, PTL

(* dispatch and cleanup lose no task and serve none twice.                 *)
THEOREM TasksAreKept == PoolSpec => []WaitingIsQueuedOrServed
<1>1. PoolInv => WaitingIsQueuedOrServed
  BY DEF PoolInv
<1> QED
  BY <1>1, PoolInvariant, PTL

(* One call of dispatch per event keeps every slot busy while tasks queue. *)
THEOREM SlotsAreUsed == PoolSpec => []NoIdleSlotWhileQueued
<1>1. PoolInv => NoIdleSlotWhileQueued
  BY DEF PoolInv
<1> QED
  BY <1>1, PoolInvariant, PTL

(* Without a late task, answers and tasks match although the pool does not
   compare their ids.                                                      *)
THEOREM VerdictsMatchUntilLate == PoolSpec => []OwnVerdictsUntilLate
<1>1. PoolInv => OwnVerdictsUntilLate
  BY DEF PoolInv
<1> QED
  BY <1>1, PoolInvariant, PTL

-------------------------------------------------------------------------------
(* The guard over the store in memory                                         *)

(* An envelope that was let through and whose timestamp the window still   *)
(* admits is in the store.  This is what makes at-most-once inductive:     *)
(* cleanup and the window's test have the same bound.                      *)
AdmissibleAreHeld ==
  \A e \in Envelope : accepts[e] > 0 /\ e.ts >= now - Window => e \in held

GuardInv == TypeOK /\ AcceptedAtMostOnce /\ HeldWasAccepted /\ AdmissibleAreHeld

(* Only an envelope that was never let through passes the guard. *)
LEMMA OkMeansFresh ==
  ASSUME GuardInv, NEW e \in Envelope, Verdict(e) = "ok"
  PROVE  /\ accepts[e] = 0
         /\ \A x \in held : x.nonce # e.nonce
         /\ now - e.ts <= Window
         /\ e.ts - now <= Window
<1>1. now \in Int /\ e.ts \in Int /\ Window \in Int
  BY WindowAssumption, MaxTimeAssumption DEF GuardInv, TypeOK, Envelope, Timestamps
<1>2. ~ OutOfWindow(e) /\ ~ Has(held, e.nonce)
  BY DEF Verdict
<1>3. now - e.ts <= Window /\ e.ts - now <= Window
  BY <1>1, <1>2 DEF OutOfWindow
<1>4. \A x \in held : x.nonce # e.nonce
  BY <1>2 DEF Has
<1>5. e \notin held
  BY <1>4
<1>6. ~ (accepts[e] > 0)
  BY <1>1, <1>3, <1>5 DEF GuardInv, AdmissibleAreHeld
<1>7. accepts[e] \in Nat
  BY DEF GuardInv, TypeOK
<1> QED
  BY <1>3, <1>4, <1>6, <1>7

LEMMA GuardInvInit == Init => GuardInv
  BY WindowAssumption, MaxTimeAssumption
     DEF Init, GuardInv, TypeOK, AcceptedAtMostOnce, HeldWasAccepted,
         AdmissibleAreHeld, Timestamps

(* The store after an accepted envelope: nothing but entries, none twice,  *)
(* and every entry that the window admits.                                 *)
LEMMA AcceptKeepsGuardInv ==
  ASSUME GuardInv, NEW e \in Envelope, Accept(e)
  PROVE  GuardInv'
<1>1. /\ accepts[e] = 0
      /\ \A x \in held : x.nonce # e.nonce
      /\ now - e.ts <= Window
  BY OkMeansFresh DEF Accept
<1>2. /\ now \in Int
      /\ Window \in Int
      /\ \A x \in Envelope : x.ts \in Int
  BY WindowAssumption, MaxTimeAssumption DEF GuardInv, TypeOK, Envelope, Timestamps
<1>3. held' = {x \in held \cup {e} : x.ts >= now - Window}
  BY <1>1 DEF Accept, Add, Cleanup
<1>4. now' = now /\ accepts' = [accepts EXCEPT ![e] = @ + 1]
  BY DEF Accept
<1>5. TypeOK'
  BY <1>3, <1>4 DEF GuardInv, TypeOK
<1>6. \A x \in Envelope : accepts'[x] = IF x = e THEN 1 ELSE accepts[x]
  BY <1>1, <1>4 DEF GuardInv, TypeOK
<1>7. AcceptedAtMostOnce'
  BY <1>6 DEF GuardInv, AcceptedAtMostOnce
<1>8. HeldWasAccepted'
  <2> SUFFICES ASSUME NEW x \in held' PROVE accepts'[x] > 0
    BY DEF HeldWasAccepted
  <2>1. x \in held \/ x = e
    BY <1>3
  <2>2. x \in Envelope
    BY <2>1 DEF GuardInv, TypeOK
  <2> QED
    BY <1>6, <2>1, <2>2 DEF GuardInv, HeldWasAccepted
<1>9. AdmissibleAreHeld'
  <2> SUFFICES ASSUME NEW x \in Envelope, accepts'[x] > 0, x.ts >= now' - Window
               PROVE  x \in held'
    BY DEF AdmissibleAreHeld
  <2>1. x = e \/ x \in held
    BY <1>4, <1>6 DEF GuardInv, AdmissibleAreHeld
  <2> QED
    BY <1>3, <1>4, <2>1
<1> QED
  BY <1>5, <1>7, <1>8, <1>9 DEF GuardInv

LEMMA TickKeepsGuardInv ==
  ASSUME GuardInv, Tick
  PROVE  GuardInv'
<1>1. /\ now' = now + 1
      /\ now \in Int
      /\ Window \in Int
      /\ \A x \in Envelope : x.ts \in Int
      /\ held' = held
      /\ accepts' = accepts
  BY WindowAssumption, MaxTimeAssumption
     DEF GuardInv, TypeOK, Envelope, Timestamps, Tick
<1>2. TypeOK'
  BY <1>1, MaxTimeAssumption DEF GuardInv, TypeOK, Timestamps, Tick
<1>3. AcceptedAtMostOnce' /\ HeldWasAccepted'
  BY <1>1 DEF GuardInv, AcceptedAtMostOnce, HeldWasAccepted
<1>4. AdmissibleAreHeld'
  BY <1>1 DEF GuardInv, AdmissibleAreHeld
<1> QED
  BY <1>2, <1>3, <1>4 DEF GuardInv

LEMMA GuardInvStep == GuardInv /\ [Next]_guardVars => GuardInv'
<1> SUFFICES ASSUME GuardInv, [Next]_guardVars PROVE GuardInv'
  OBVIOUS
<1>1. CASE Tick
  BY <1>1, TickKeepsGuardInv
<1>2. ASSUME NEW e \in Envelope, Accept(e) PROVE GuardInv'
  BY <1>2, AcceptKeepsGuardInv
<1>3. CASE UNCHANGED guardVars
  BY <1>3 DEF guardVars, GuardInv, TypeOK, AcceptedAtMostOnce, HeldWasAccepted,
              AdmissibleAreHeld
<1> QED
  BY <1>1, <1>2, <1>3 DEF Next, Reject

-------------------------------------------------------------------------------
THEOREM GuardInvariant == Spec => []GuardInv
  BY GuardInvInit, GuardInvStep, PTL DEF Spec

\* The variables of the guard keep their types.
THEOREM TypeCorrect == Spec => []TypeOK
<1>1. GuardInv => TypeOK
  BY DEF GuardInv
<1> QED
  BY <1>1, GuardInvariant, PTL

\* For all nonces, windows and clocks, checkReplay lets an envelope through at
\* most once.
THEOREM AtMostOnce == Spec => []AcceptedAtMostOnce
<1>1. GuardInv => AcceptedAtMostOnce
  BY DEF GuardInv
<1> QED
  BY <1>1, GuardInvariant, PTL

\* The store holds no nonce of an envelope that was refused.
THEOREM OnlyAcceptedAreHeld == Spec => []HeldWasAccepted
<1>1. GuardInv => HeldWasAccepted
  BY DEF GuardInv
<1> QED
  BY <1>1, GuardInvariant, PTL

\* checkReplay leaves behind no entry that the window refuses anyway.
THEOREM Forgetful == Spec => ExpiredAreForgotten
<1>1. GuardInv /\ [Next]_guardVars
        => [accepts' # accepts => \A x \in held' : now - x.ts <= Window]_guardVars
  <2> SUFFICES ASSUME GuardInv, Next, accepts' # accepts
               PROVE  \A x \in held' : now - x.ts <= Window
    OBVIOUS
  <2>1. PICK e \in Envelope : Accept(e)
    BY DEF Next, Tick, Reject, guardVars
  <2>2. held' \subseteq Envelope /\ \A x \in held' : x.ts >= now - Window
    BY <2>1 DEF Accept, Add, Cleanup, GuardInv, TypeOK
  <2>3. now \in Int /\ Window \in Int /\ \A x \in Envelope : x.ts \in Int
    BY WindowAssumption, MaxTimeAssumption DEF GuardInv, TypeOK, Envelope, Timestamps
  <2> QED
    BY <2>2, <2>3
<1> QED
  BY <1>1, GuardInvariant, PTL DEF Spec, ExpiredAreForgotten

\* Every behaviour of the guard is one that the promise allows: a step that lets
\* an envelope through is the promise's Accept, a refusal changes nothing.
THEOREM Refinement == Spec => ImplementsReplayProtection
<1>1. Init => Promise!Init
  BY DEF Init, Promise!Init
<1>2. GuardInv /\ [Next]_guardVars => [Promise!Next]_(Promise!vars)
  <2> SUFFICES ASSUME GuardInv, [Next]_guardVars
               PROVE  [Promise!Next]_(Promise!vars)
    OBVIOUS
  <2>1. CASE Tick
    BY <2>1 DEF Tick, Promise!Next, Promise!Tick
  <2>2. ASSUME NEW e \in Envelope, Accept(e)
        PROVE  Promise!Next
    <3>1. accepts[e] = 0 /\ now - e.ts <= Window /\ e.ts - now <= Window
      BY <2>2, OkMeansFresh DEF Accept
    <3>2. accepts' = [accepts EXCEPT ![e] = 1] /\ now' = now
      BY <2>2, <3>1 DEF Accept, GuardInv, TypeOK
    <3> QED
      BY <3>1, <3>2 DEF Promise!Next, Promise!Accept, Promise!InWindow
  <2>3. CASE UNCHANGED guardVars
    BY <2>3 DEF guardVars, Promise!vars
  <2> QED
    BY <2>1, <2>2, <2>3 DEF Next, Reject
<1> QED
  BY <1>1, <1>2, GuardInvariant, PTL
     DEF Spec, ImplementsReplayProtection, Promise!Spec

-------------------------------------------------------------------------------
(* The guard over the store in a file                                         *)

(* An entry that has been in the file and that the window still admits is  *)
(* wherever the store may take its entries from: in the Map, in the file   *)
(* that a restart loads, and in the snapshot that will replace the file.   *)
DurableAreEverywhere ==
  \A e \in durable : now - e.ts <= Window =>
    /\ e \in held
    /\ e \in file
    /\ inFlight => e \in snapshot

(* What is being written is still held, unless it has expired meanwhile. *)
WrittenAreHeld ==
  inFlight => \A e \in snapshot : now - e.ts <= Window => e \in held

FileInv == FileTypeOK /\ UnsavedIsPending /\ DurableAreEverywhere /\ WrittenAreHeld

(* The arithmetic that every step needs. *)
LEMMA Times ==
  ASSUME FileTypeOK
  PROVE  /\ now \in Int
         /\ Window \in Int
         /\ \A x \in Envelope : x.ts \in Int
  BY WindowAssumption, MaxTimeAssumption
     DEF FileTypeOK, TypeOK, Envelope, Timestamps

LEMMA LongAgoIsInt == LongAgo \in Int
  BY CleanupIntervalAssumption DEF LongAgo

LEMMA FileInvInit == FileInit => FileInv
<1> SUFFICES ASSUME FileInit PROVE FileInv
  OBVIOUS
<1>1. TypeOK
  BY WindowAssumption, MaxTimeAssumption DEF FileInit, Init, TypeOK, Timestamps
<1>2. crashes \in 0 .. MaxCrashes
  BY MaxCrashesAssumption DEF FileInit
<1>3. FileTypeOK
  BY <1>1, <1>2, LongAgoIsInt DEF FileInit, FileTypeOK
<1>4. UnsavedIsPending /\ DurableAreEverywhere /\ WrittenAreHeld
  BY DEF FileInit, Init, UnsavedIsPending, DurableAreEverywhere, WrittenAreHeld
<1> QED
  BY <1>3, <1>4 DEF FileInv

-------------------------------------------------------------------------------
(* Accepting an envelope takes nothing admissible out of the Map. *)
LEMMA AcceptKeepsAdmissible ==
  ASSUME FileInv, NEW e \in Envelope, FileAccept(e)
  PROVE  /\ held' \subseteq held \cup {e}
         /\ \A x \in held : now - x.ts <= Window => x \in held'
<1>1. \A x \in held : x.nonce # e.nonce
  BY DEF FileAccept, Verdict, Has
<1>2. Add(held, e) = held \cup {e}
  BY <1>1 DEF Add
<1>3. /\ now \in Int
      /\ Window \in Int
      /\ \A x \in held : x.ts \in Int
  BY Times DEF FileInv, FileTypeOK, TypeOK
<1>4. CASE CleanupDue
  <2>1. held' = {x \in held \cup {e} : x.ts >= now - Window}
    BY <1>2, <1>4 DEF FileAccept, Cleanup
  <2> QED
    BY <1>3, <2>1
<1>5. CASE ~ CleanupDue
  BY <1>2, <1>5 DEF FileAccept
<1> QED
  BY <1>4, <1>5

LEMMA AcceptKeepsFileInv ==
  ASSUME FileInv, NEW e \in Envelope, FileAccept(e)
  PROVE  FileInv'
<1>1. /\ now' = now
      /\ file' = file
      /\ inFlight' = inFlight
      /\ snapshot' = snapshot
      /\ crashes' = crashes
      /\ durable' = durable
      /\ timer' = TRUE
  BY DEF FileAccept, SchedulePersist
<1>2. FileTypeOK'
  <2>1. held' \subseteq Envelope
    BY AcceptKeepsAdmissible DEF FileInv, FileTypeOK, TypeOK
  <2>2. queued' \in BOOLEAN
    BY DEF FileAccept, SchedulePersist, FileInv, FileTypeOK
  <2>3. lastCleanup' \in Int
    BY Times DEF FileAccept, FileInv, FileTypeOK
  <2>4. accepts' \in [Envelope -> Nat]
    BY DEF FileAccept, FileInv, FileTypeOK, TypeOK
  <2> QED
    BY <1>1, <2>1, <2>2, <2>3, <2>4 DEF FileInv, FileTypeOK, TypeOK
<1>3. UnsavedIsPending'
  BY <1>1 DEF UnsavedIsPending
<1>4. DurableAreEverywhere' /\ WrittenAreHeld'
  BY <1>1, AcceptKeepsAdmissible DEF FileInv, DurableAreEverywhere, WrittenAreHeld
<1> QED
  BY <1>2, <1>3, <1>4 DEF FileInv

LEMMA TickKeepsFileInv ==
  ASSUME FileInv, FileTick
  PROVE  FileInv'
<1>1. /\ now' = now + 1
      /\ held' = held
      /\ accepts' = accepts
      /\ UNCHANGED fileVars
  BY DEF FileTick, Tick
<1>2. /\ now \in Int
      /\ Window \in Int
      /\ \A x \in Envelope : x.ts \in Int
      /\ snapshot \subseteq Envelope
      /\ durable \subseteq Envelope
  BY Times DEF FileInv, FileTypeOK
<1>3. FileTypeOK'
  BY <1>1, MaxTimeAssumption
     DEF FileTick, Tick, FileInv, FileTypeOK, TypeOK, Timestamps, fileVars
<1>4. UnsavedIsPending'
  BY <1>1 DEF FileInv, UnsavedIsPending, fileVars
<1>5. DurableAreEverywhere' /\ WrittenAreHeld'
  BY <1>1, <1>2 DEF FileInv, DurableAreEverywhere, WrittenAreHeld, fileVars
<1> QED
  BY <1>3, <1>4, <1>5 DEF FileInv

LEMMA TimerKeepsFileInv ==
  ASSUME FileInv, TimerFires
  PROVE  FileInv'
<1>1. FileTypeOK'
  BY DEF TimerFires, guardVars, FileInv, FileTypeOK, TypeOK
<1>2. UnsavedIsPending'
  BY DEF TimerFires, guardVars, FileInv, FileTypeOK, UnsavedIsPending
<1>3. DurableAreEverywhere' /\ WrittenAreHeld'
  BY DEF TimerFires, guardVars, FileInv, FileTypeOK, DurableAreEverywhere, WrittenAreHeld
<1> QED
  BY <1>1, <1>2, <1>3 DEF FileInv

LEMMA PersistKeepsFileInv ==
  ASSUME FileInv, PersistDone
  PROVE  FileInv'
<1>1. FileTypeOK'
  BY DEF PersistDone, SchedulePersist, guardVars, FileInv, FileTypeOK, TypeOK
<1>2. UnsavedIsPending'
  BY DEF PersistDone, SchedulePersist, guardVars, FileInv, FileTypeOK, UnsavedIsPending
<1>3. DurableAreEverywhere' /\ WrittenAreHeld'
  BY DEF PersistDone, guardVars, FileInv, FileTypeOK, DurableAreEverywhere, WrittenAreHeld
<1> QED
  BY <1>1, <1>2, <1>3 DEF FileInv

LEMMA RestartKeepsFileInv ==
  ASSUME FileInv, Restart
  PROVE  FileInv'
<1>1. FileTypeOK'
  <2>1. crashes' \in 0 .. MaxCrashes
    BY MaxCrashesAssumption DEF Restart, FileInv, FileTypeOK
  <2> QED
    BY <2>1, LongAgoIsInt DEF Restart, FileInv, FileTypeOK, TypeOK
<1>2. UnsavedIsPending' /\ DurableAreEverywhere' /\ WrittenAreHeld'
  BY DEF Restart, FileInv, UnsavedIsPending, DurableAreEverywhere, WrittenAreHeld
<1> QED
  BY <1>1, <1>2 DEF FileInv

LEMMA FileInvStep == FileInv /\ [FileNext]_vars => FileInv'
<1> SUFFICES ASSUME FileInv, [FileNext]_vars PROVE FileInv'
  OBVIOUS
<1>1. ASSUME NEW e \in Envelope, FileAccept(e) PROVE FileInv'
  BY <1>1, AcceptKeepsFileInv
<1>2. CASE UNCHANGED vars
  BY <1>2 DEF vars, fileVars, guardVars, FileInv, FileTypeOK, TypeOK, UnsavedIsPending,
              DurableAreEverywhere, WrittenAreHeld
<1>3. ASSUME NEW e \in Envelope, FileReject(e) PROVE FileInv'
  BY <1>2, <1>3 DEF FileReject, Reject, vars
<1> QED
  BY <1>1, <1>2, <1>3, TickKeepsFileInv, TimerKeepsFileInv, PersistKeepsFileInv,
     RestartKeepsFileInv DEF FileNext

-------------------------------------------------------------------------------
THEOREM FileInvariant == FileSpec => []FileInv
  BY FileInvInit, FileInvStep, PTL DEF FileSpec

\* The variables of the file-backed store keep their types.
THEOREM FileTypeCorrect == FileSpec => []FileTypeOK
<1>1. FileInv => FileTypeOK
  BY DEF FileInv
<1> QED
  BY <1>1, FileInvariant, PTL

\* The debounced writes never leave an entry of the Map without a write that
\* has it or that is still to come.
THEOREM NothingUnsavedIsForgotten == FileSpec => []UnsavedIsPending
<1>1. FileInv => UnsavedIsPending
  BY DEF FileInv
<1> QED
  BY <1>1, FileInvariant, PTL

\* However often the process restarts, no envelope whose nonce has been in the
\* file is let through again.
THEOREM PersistedAtMostOnce == FileSpec => PersistedNeverReaccepted
<1>1. FileInv /\ [FileNext]_vars => [\A e \in durable : accepts'[e] = accepts[e]]_vars
  <2> SUFFICES ASSUME FileInv, FileNext, NEW d \in durable
               PROVE  accepts'[d] = accepts[d]
    OBVIOUS
  <2>1. ASSUME NEW e \in Envelope, FileAccept(e)
        PROVE  accepts'[d] = accepts[d]
    <3>1. now - e.ts <= Window /\ e \notin held
      BY <2>1, Times DEF FileAccept, Verdict, OutOfWindow, Has, FileInv
    <3>2. d # e
      BY <3>1 DEF FileInv, DurableAreEverywhere
    <3> QED
      BY <2>1, <3>2 DEF FileAccept, FileInv, FileTypeOK, TypeOK
  <2>2. ASSUME ~ \E e \in Envelope : FileAccept(e)
        PROVE  accepts' = accepts
    BY <2>2 DEF FileNext, FileTick, Tick, TimerFires, PersistDone, Restart, FileReject,
                Reject, guardVars
  <2> QED
    BY <2>1, <2>2
<1> QED
  BY <1>1, FileInvariant, PTL DEF FileSpec, PersistedNeverReaccepted
===============================================================================
