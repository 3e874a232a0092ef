---------------------------- MODULE FileNonceStore ----------------------------
(***************************************************************************)
(* checkReplay over the FileNonceStore of packages/protocol/src/replay.ts: *)
(* the store that the router and the node use when they are given a nonce  *)
(* store path.  The Map is written to the file by debounced snapshots, and *)
(* read back when the process starts.                                      *)
(*                                                                         *)
(* A timer may fire at any moment after it was set, whatever its delay is, *)
(* and a write may take any time.  A failed write leaves the file alone    *)
(* and rejects a promise that nobody awaits, so that the process ends: for *)
(* the store it is a crash.  The rename replaces the file at once: a crash *)
(* in the middle of a write leaves the previous file.                      *)
(***************************************************************************)
EXTENDS ReplayGuard

CONSTANTS
  CleanupInterval,  \* cleanupIntervalMs
  MaxCrashes        \* bound: the number of restarts

ASSUME CleanupIntervalAssumption == CleanupInterval \in Nat
ASSUME MaxCrashesAssumption == MaxCrashes \in Nat

VARIABLES
  file,         \* the entries in the file at filePath
  timer,        \* persistTimer # null
  inFlight,     \* persistInFlight
  snapshot,     \* while inFlight, the entries that are being written
  queued,       \* persistQueued
  lastCleanup,  \* lastCleanupMs; long ago in a process that has just started
  crashes,      \* how often the process was restarted
  durable       \* history: the entries that were in the file at some time

fileVars == <<file, timer, inFlight, snapshot, queued, lastCleanup, crashes, durable>>
vars == <<guardVars, fileVars>>

FileTypeOK ==
  /\ TypeOK
  /\ file \subseteq Envelope
  /\ timer \in BOOLEAN
  /\ inFlight \in BOOLEAN
  /\ snapshot \subseteq Envelope
  /\ queued \in BOOLEAN
  /\ lastCleanup \in Int
  /\ crashes \in 0 .. MaxCrashes
  /\ durable \subseteq Envelope

LongAgo == 0 - CleanupInterval

FileInit ==
  /\ Init
  /\ file = {}
  /\ timer = FALSE
  /\ inFlight = FALSE
  /\ snapshot = {}
  /\ queued = FALSE
  /\ lastCleanup = LongAgo
  /\ crashes = 0
  /\ durable = {}

-------------------------------------------------------------------------------
(* schedulePersist: a second call while the timer runs is only noted. *)

SchedulePersist ==
  /\ queued' = timer
  /\ timer' = TRUE

(* add schedules a snapshot; so does cleanup, when it runs at all: the timer
   is then set already, and the second call is noted. *)
CleanupDue == now - lastCleanup >= CleanupInterval

FileAccept(e) ==
  /\ Verdict(e) = "ok"
  /\ accepts' = [accepts EXCEPT ![e] = @ + 1]
  /\ IF CleanupDue
     THEN /\ held' = Cleanup(Add(held, e), now - Window)
          /\ lastCleanup' = now
          /\ timer' = TRUE
          /\ queued' = TRUE
     ELSE /\ held' = Add(held, e)
          /\ SchedulePersist
          /\ UNCHANGED lastCleanup
  /\ UNCHANGED <<now, file, inFlight, snapshot, crashes, durable>>

FileReject(e) == Reject(e) /\ UNCHANGED fileVars

(* persist: one write at a time; a timer that fires during a write is noted. *)
TimerFires ==
  /\ timer
  /\ timer' = FALSE
  /\ IF inFlight
     THEN /\ queued' = TRUE
          /\ UNCHANGED <<inFlight, snapshot>>
     ELSE /\ inFlight' = TRUE
          /\ snapshot' = held
          /\ UNCHANGED queued
  /\ UNCHANGED <<guardVars, file, lastCleanup, crashes, durable>>

(* The rename and the finally block after it. *)
PersistDoneUnnoted ==
  /\ inFlight
  /\ file' = snapshot
  /\ durable' = durable \cup snapshot
  /\ inFlight' = FALSE
  /\ snapshot' = {}
  /\ UNCHANGED <<guardVars, timer, queued, lastCleanup, crashes>>

PersistDone ==
  /\ inFlight
  /\ file' = snapshot
  /\ durable' = durable \cup snapshot
  /\ inFlight' = FALSE
  /\ snapshot' = {}
  /\ IF queued THEN SchedulePersist ELSE UNCHANGED <<timer, queued>>
  /\ UNCHANGED <<guardVars, lastCleanup, crashes>>

(* A file that is written in place is lost with the write that a crash cuts. *)
CrashTruncatesFile ==
  /\ crashes < MaxCrashes
  /\ crashes' = crashes + 1
  /\ file' = IF inFlight THEN {} ELSE file
  /\ held' = file'
  /\ timer' = FALSE
  /\ inFlight' = FALSE
  /\ snapshot' = {}
  /\ queued' = FALSE
  /\ lastCleanup' = LongAgo
  /\ UNCHANGED <<now, accepts, durable>>

(* The process ends, by a crash, a failed write or a deployment (nothing
   flushes the store on the way out), and another one loads the file. *)
Restart ==
  /\ crashes < MaxCrashes
  /\ crashes' = crashes + 1
  /\ held' = file
  /\ timer' = FALSE
  /\ inFlight' = FALSE
  /\ snapshot' = {}
  /\ queued' = FALSE
  /\ lastCleanup' = LongAgo
  /\ UNCHANGED <<now, accepts, file, durable>>

FileTick == Tick /\ UNCHANGED fileVars

FileNext ==
  \/ FileTick
  \/ TimerFires
  \/ PersistDone
  \/ Restart
  \/ \E e \in Envelope : FileAccept(e) \/ FileReject(e)

FileSpec == FileInit /\ [][FileNext]_vars

(* Timers fire and writes end; requests, time and crashes owe nothing. *)
FairFileSpec == FileSpec /\ WF_vars(TimerFires) /\ WF_vars(PersistDone)

-------------------------------------------------------------------------------
\* Once its nonce has reached the file, an envelope is never let through again,
\* whatever is pruned, in flight or queued when the process ends.  The nonces
\* that a restart loses are those of the last debounced snapshot.
PersistedNeverReaccepted ==
  [][\A e \in durable : accepts'[e] = accepts[e]]_vars

\* The debounce loses no wake-up: while the Map holds an entry that neither the
\* file nor the running write has, a timer runs, or the running write will set
\* one when it ends.
UnsavedIsPending ==
  \A x \in held :
    \/ timer
    \/ inFlight /\ (x \in snapshot \/ queued)
    \/ ~ inFlight /\ x \in file

\* A nonce that the store remembers reaches the file, unless the store forgets
\* it, when it expires or when the process ends.
EventuallyPersisted ==
  \A e \in Envelope : (e \in held) ~> (e \in file \/ e \notin held)
===============================================================================
