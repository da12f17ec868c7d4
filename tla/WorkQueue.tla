------------------------------ MODULE WorkQueue ------------------------------
(***************************************************************************)
(* Babylon::WorkQueue (Core/AppRuntime/Source/WorkQueue.h, WorkQueue.cpp): *)
(* the queue behind JsRuntime::Dispatch and the loop of the JavaScript     *)
(* thread that serves it.                                                  *)
(*                                                                         *)
(* m_task is the tail of a chain of arcana tasks.  Append makes the new    *)
(* callable a continuation of the tail, to be run by m_dispatcher.  The    *)
(* arcana library is not part of the repository; of its tasks and its      *)
(* dispatcher the model keeps what the code uses: a continuation is put on *)
(* the dispatcher when its predecessor is complete, a continuation of a    *)
(* failed task and a continuation run after the cancellation are skipped   *)
(* and fail, and blocking_tick runs what is on the dispatcher, sleeping    *)
(* until there is something or until cancelled() wakes it.                 *)
(*                                                                         *)
(* Threads: the owner of the queue (AppRuntime's user), the JavaScript     *)
(* thread, and background threads that dispatch to it.                     *)
(***************************************************************************)
EXTENDS Naturals

CONSTANTS Work,             \* callables handed to Append, each at most once
          Suspensions,      \* the callables that Suspend() appends
          Background,       \* threads other than the owner's and JavaScript's
          None              \* no callable, no thread, a completed task

Callables == Work \cup Suspensions
Threads   == Background \cup {"owner", "js"}

ASSUME ConstantsAssumption ==
          /\ Work \cap Suspensions = {}
          /\ None \notin Callables
          /\ None \notin Threads
          /\ Background \cap {"owner", "js"} = {}

VARIABLES
  st,           \* st[c]: what has become of the callable's task
  pred,         \* pred[c]: the task c continues (None: a completed one)
  tail,         \* m_task
  lockedBy,     \* the thread that holds m_appendMutex
  arg,          \* the callable that thread is appending
  held,         \* m_suspensionLock: the suspension whose mutex is locked
  cancelled,    \* m_cancelSource
  ownerPc,      \* where the owner is
  jsPc,         \* where the JavaScript thread is in Run
  cur,          \* the callable it is running
  ticket,       \* history: the place of a callable in the order of Append
  issued        \* history: how many callables have been appended

vars == <<st, pred, tail, lockedBy, arg, held, cancelled, ownerPc, jsPc, cur,
          ticket, issued>>
----------------------------------------------------------------------------
\* "queued": on m_dispatcher.  "dropped": cleared from it, never completed.
Failed   == {"threw", "skipped"}
Complete == {"done"} \cup Failed
Statuses == {"new", "waiting", "queued", "running", "dropped"} \cup Complete

TaskFailed(p)   == p # None /\ st[p] \in Failed
TaskComplete(p) == p = None \/ st[p] \in Complete

\* Task c completes with status s, and its continuation goes to m_dispatcher.
Completing(c, s) ==
  [d \in Callables |-> IF d = c THEN s
                       ELSE IF st[d] = "waiting" /\ pred[d] = c THEN "queued"
                       ELSE st[d]]
----------------------------------------------------------------------------
Init == /\ st = [c \in Callables |-> "new"]
        /\ pred = [c \in Callables |-> None]
        /\ tail = None
        /\ lockedBy = None /\ arg = None
        /\ held = None
        /\ cancelled = FALSE
        /\ ownerPc = "idle"
        /\ jsPc = "start" /\ cur = None
        /\ ticket = [c \in Callables |-> 0] /\ issued = 0

(* Who may call Append with c: the owner (AppRuntime::Dispatch, or Suspend   *)
(* with the callable that holds the suspension mutex), a callable that is    *)
(* running, and a background thread as long as the JsRuntime it dispatches   *)
(* through exists.                                                           *)
MayAppend(t, c) ==
  /\ st[c] = "new"
  /\ \/ t \in Background /\ c \in Work /\ jsPc # "exited"
     \/ t = "js" /\ c \in Work /\ jsPc = "running" /\ cur \in Work
     \/ t = "owner" /\ c \in Work /\ ownerPc = "idle"
     \/ t = "owner" /\ c = held /\ ownerPc = "suspending"

\* Mutant of AppendThen: m_appendMutex is not taken.
AppendThenUnlocked(t, c) ==
  /\ MayAppend(t, c)
  /\ lockedBy # t
  /\ lockedBy' = t
  /\ arg' = c
  /\ pred' = [pred EXCEPT ![c] = tail]
  /\ st' = [st EXCEPT ![c] = IF TaskComplete(tail) THEN "queued" ELSE "waiting"]
  /\ ticket' = [ticket EXCEPT ![c] = issued + 1]
  /\ issued' = issued + 1
  /\ ownerPc' = IF t = "owner" THEN "appending" ELSE ownerPc
  /\ UNCHANGED <<tail, held, cancelled, jsPc, cur>>

\* Append: take m_appendMutex and make c a continuation of m_task.
AppendThen(t, c) ==
  /\ MayAppend(t, c)
  /\ lockedBy = None
  /\ lockedBy' = t
  /\ arg' = c
  /\ pred' = [pred EXCEPT ![c] = tail]
  /\ st' = [st EXCEPT ![c] = IF TaskComplete(tail) THEN "queued" ELSE "waiting"]
  /\ ticket' = [ticket EXCEPT ![c] = issued + 1]
  /\ issued' = issued + 1
  /\ ownerPc' = IF t = "owner" THEN "appending" ELSE ownerPc
  /\ UNCHANGED <<tail, held, cancelled, jsPc, cur>>

\* Mutant of AppendAssign: the continuation is not assigned to m_task.
AppendAssignLost(t) ==
  /\ lockedBy = t
  /\ lockedBy' = None
  /\ arg' = None
  /\ ownerPc' = IF t = "owner" THEN "idle" ELSE ownerPc
  /\ UNCHANGED <<st, pred, tail, held, cancelled, jsPc, cur, ticket, issued>>

\* Append: assign the continuation to m_task and release m_appendMutex.
AppendAssign(t) ==
  /\ lockedBy = t
  /\ tail' = arg
  /\ lockedBy' = None
  /\ arg' = None
  /\ ownerPc' = IF t = "owner" THEN "idle" ELSE ownerPc
  /\ UNCHANGED <<st, pred, held, cancelled, jsPc, cur, ticket, issued>>
----------------------------------------------------------------------------
(* Suspend: a new mutex, locked by m_suspensionLock.emplace, which first     *)
(* unlocks the mutex of an earlier suspension.  The callable that owns the   *)
(* mutex is appended next (MayAppend with "suspending").                     *)
Suspend(c) ==
  /\ ownerPc = "idle"
  /\ st[c] = "new"
  /\ held' = c
  /\ ownerPc' = "suspending"
  /\ UNCHANGED <<st, pred, tail, lockedBy, arg, cancelled, jsPc, cur, ticket, issued>>

\* m_suspensionLock.reset() unlocks the mutex of the suspension.
Resume ==
  /\ ownerPc = "idle"
  /\ held # None
  /\ held' = None
  /\ UNCHANGED <<st, pred, tail, lockedBy, arg, cancelled, ownerPc, jsPc, cur,
                 ticket, issued>>

\* Mutant of DestroyResume: the destructor does not resume.
DestroySuspended ==
  /\ ownerPc = "idle"
  /\ ownerPc' = "resumed"
  /\ UNCHANGED <<st, pred, tail, lockedBy, arg, held, cancelled, jsPc, cur, ticket, issued>>

\* ~WorkQueue: resume if suspended, cancel, wake the dispatcher, join.
DestroyResume ==
  /\ ownerPc = "idle"
  /\ ownerPc' = "resumed"
  /\ held' = None
  /\ UNCHANGED <<st, pred, tail, lockedBy, arg, cancelled, jsPc, cur, ticket, issued>>

DestroyCancel ==
  /\ ownerPc = "resumed"
  /\ ownerPc' = "cancelled"
  /\ cancelled' = TRUE
  /\ UNCHANGED <<st, pred, tail, lockedBy, arg, held, jsPc, cur, ticket, issued>>

DestroyWake ==
  /\ ownerPc = "cancelled"
  /\ ownerPc' = "joining"
  /\ UNCHANGED <<st, pred, tail, lockedBy, arg, held, cancelled, jsPc, cur,
                 ticket, issued>>

DestroyJoin ==
  /\ ownerPc = "joining"
  /\ jsPc = "exited"
  /\ ownerPc' = "joined"
  /\ UNCHANGED <<st, pred, tail, lockedBy, arg, held, cancelled, jsPc, cur,
                 ticket, issued>>
----------------------------------------------------------------------------
ownerVars == <<pred, tail, lockedBy, arg, held, cancelled, ownerPc, ticket, issued>>

\* Run is entered (m_env and the affinity of m_dispatcher are set).
JsStart ==
  /\ jsPc = "start"
  /\ jsPc' = "check"
  /\ UNCHANGED <<st, cur, ownerVars>>

JsCheck ==
  /\ jsPc = "check"
  /\ jsPc' = IF cancelled THEN "clear" ELSE "tick"
  /\ UNCHANGED <<st, cur, ownerVars>>

\* blocking_tick takes c from the dispatcher and calls it.
JsBegin(c) ==
  /\ jsPc = "tick"
  /\ st[c] = "queued"
  /\ ~cancelled
  /\ ~TaskFailed(pred[c])
  /\ st' = [st EXCEPT ![c] = "running"]
  /\ cur' = c
  /\ jsPc' = "running"
  /\ UNCHANGED ownerVars

\* It takes c, whose predecessor failed or whose cancellation is requested.
JsSkip(c) ==
  /\ jsPc = "tick"
  /\ st[c] = "queued"
  /\ cancelled \/ TaskFailed(pred[c])
  /\ st' = Completing(c, "skipped")
  /\ jsPc' = "check"
  /\ UNCHANGED <<cur, ownerVars>>

\* It returns when cancelled and sleeps when there is nothing to run.
JsIdle ==
  /\ jsPc = "tick"
  /\ \/ cancelled /\ jsPc' = "check"
     \/ ~cancelled /\ (\A c \in Callables : st[c] # "queued") /\ jsPc' = "asleep"
  /\ UNCHANGED <<st, cur, ownerVars>>

\* Mutants of JsWake: an Append, or cancelled(), does not wake the thread.
JsWakeByCancelOnly ==
  /\ jsPc = "asleep"
  /\ ownerPc \in {"joining", "joined"}
  /\ jsPc' = "tick"
  /\ UNCHANGED <<st, cur, ownerVars>>

JsWakeByAppendOnly ==
  /\ jsPc = "asleep"
  /\ \E c \in Callables : st[c] = "queued"
  /\ jsPc' = "tick"
  /\ UNCHANGED <<st, cur, ownerVars>>

\* A callable put on the dispatcher wakes it, and so does cancelled().
JsWake ==
  /\ jsPc = "asleep"
  /\ \/ \E c \in Callables : st[c] = "queued"
     \/ ownerPc \in {"joining", "joined"}
  /\ jsPc' = "tick"
  /\ UNCHANGED <<st, cur, ownerVars>>

Return(s) ==
  /\ st' = Completing(cur, s)
  /\ cur' = None
  /\ jsPc' = "check"
  /\ UNCHANGED ownerVars

\* A callable returns, or throws and fails its task.
JsEnd ==
  /\ jsPc = "running"
  /\ cur \in Work
  /\ lockedBy # "js"
  /\ Return("done") \/ Return("threw")

\* Mutant of JsEndSuspension: it does not lock the mutex.
JsEndSuspensionUnlocked ==
  /\ jsPc = "running"
  /\ cur \in Suspensions
  /\ Return("done")

\* The callable of Suspend returns once it could lock its mutex.
JsEndSuspension ==
  /\ jsPc = "running"
  /\ cur \in Suspensions
  /\ held # cur
  /\ Return("done")

\* After the loop: m_dispatcher.clear(), ...
JsClear ==
  /\ jsPc = "clear"
  /\ st' = [c \in Callables |-> IF st[c] = "queued" THEN "dropped" ELSE st[c]]
  /\ jsPc' = "reset"
  /\ UNCHANGED <<cur, ownerVars>>

\* ... and m_task = task_from_result(), without m_appendMutex.
JsReset ==
  /\ jsPc = "reset"
  /\ tail' = None
  /\ jsPc' = "detach"
  /\ UNCHANGED <<st, pred, lockedBy, arg, held, cancelled, ownerPc, cur,
                 ticket, issued>>

\* RunEnvironmentTier: Napi::Detach destroys the environment and its JsRuntime.
JsDetach ==
  /\ jsPc = "detach"
  /\ jsPc' = "exited"
  /\ UNCHANGED <<st, cur, ownerVars>>
----------------------------------------------------------------------------
Owner == \/ \E c \in Suspensions : Suspend(c)
         \/ Resume
         \/ DestroyResume \/ DestroyCancel \/ DestroyWake \/ DestroyJoin

JavaScript == \/ JsStart \/ JsCheck \/ JsIdle \/ JsWake
              \/ \E c \in Callables : JsBegin(c) \/ JsSkip(c)
              \/ JsEnd \/ JsEndSuspension
              \/ JsClear \/ JsReset \/ JsDetach

\* The queue is destroyed and no Append is under way.
Terminated == ownerPc = "joined" /\ lockedBy = None /\ UNCHANGED vars

Next == \/ Owner
        \/ JavaScript
        \/ \E t \in Threads : \/ AppendAssign(t)
                              \/ \E c \in Callables : AppendThen(t, c)
        \/ Terminated

Spec == Init /\ [][Next]_vars

(* Threads are scheduled: an Append that has begun ends, a destructor that   *)
(* has begun goes on, Suspend goes on to its Append, and the JavaScript      *)
(* thread runs (callables return).  Nobody is obliged to call Append,        *)
(* Suspend, Resume or the destructor.                                        *)
Fairness == /\ WF_vars(JavaScript)
            /\ WF_vars(\E t \in Threads : AppendAssign(t))
            /\ WF_vars(\E c \in Suspensions : ownerPc = "suspending" /\ AppendThen("owner", c))
            /\ WF_vars(DestroyCancel \/ DestroyWake \/ DestroyJoin)

FairSpec == Spec /\ Fairness
----------------------------------------------------------------------------
\* Where the owner is in ~WorkQueue: nothing suspends a queue that is destroyed.
Destroying == {"resumed", "cancelled", "joining", "joined"}

TypeOK ==
  /\ st \in [Callables -> Statuses]
  /\ pred \in [Callables -> Callables \cup {None}]
  /\ tail \in Callables \cup {None}
  /\ lockedBy \in Threads \cup {None}
  /\ arg \in Callables \cup {None}
  /\ held \in IF ownerPc \in Destroying THEN {None} ELSE Suspensions \cup {None}
  /\ cancelled \in BOOLEAN
  /\ ownerPc \in {"idle", "suspending", "appending"} \cup Destroying
  /\ jsPc \in {"start", "check", "tick", "running", "asleep", "clear", "reset",
                "detach", "exited"}
  /\ cur \in Callables \cup {None}
  /\ ticket \in [Callables -> Nat]
  /\ issued \in Nat

(* The chain of tasks keeps at most one task on the dispatcher or running:   *)
(* nothing appended can overtake, however Append and the completion of the   *)
(* tail interleave (WorkQueue.h:20-23), until Run has left its loop.         *)
OneScheduled ==
  jsPc \notin {"detach", "exited"} =>
    \A c, d \in Callables :
       st[c] \in {"queued", "running"} /\ st[d] \in {"queued", "running"} => c = d

(* Suspend() suspends: while m_suspensionLock is held nothing appended after *)
(* the suspension has begun, whatever the running callables and the other    *)
(* threads appended before it (WorkQueue.cpp:23-30).                         *)
SuspensionHolds ==
  held # None /\ ticket[held] > 0 =>
    \A c \in Callables :
       ticket[c] > ticket[held] => st[c] \in {"waiting", "queued", "skipped", "dropped"}

(* The mutex that m_suspensionLock has locked lives in the callable of the   *)
(* suspension.  As long as no callable has thrown, that callable has not     *)
(* completed and its mutex is there to be unlocked, also while the queue is  *)
(* being destroyed (WorkQueue.cpp:10-30).                                    *)
SuspensionMutexAlive ==
  /\ held # None
  /\ ownerPc # "suspending"
  /\ \A c \in Callables : st[c] # "threw"
  => st[held] \in {"waiting", "queued", "running"}

(* The queue implements what JsRuntime::Dispatch promises: one at a time, in *)
(* the order of Append, at most once, and discarded in that order only.      *)
Phase(c) == CASE st[c] = "new" -> "new"
              [] st[c] \in {"waiting", "queued"} -> "pending"
              [] st[c] = "running" -> "running"
              [] OTHER -> "over"

Contract == INSTANCE DispatchContract WITH phase <- [c \in Callables |-> Phase(c)]

ImplementsContract == Contract!Spec

(* ~WorkQueue returns: the JavaScript thread is neither left asleep in       *)
(* blocking_tick nor blocked in a suspension (WorkQueue.cpp:10-21).          *)
DestructionEnds == ownerPc = "resumed" ~> ownerPc = "joined"

(* Nothing dispatched is forgotten: if suspensions are resumed, what was     *)
(* appended is run, or skipped, or the queue is being destroyed.             *)
EventuallySettled ==
  []<>(held = None) =>
    \A c \in Callables :
       st[c] \in {"waiting", "queued"} ~> st[c] \in Complete \/ cancelled

(* "Any function provided as an argument to Dispatch(...) will be executed"  *)
(* (Documentation/JsRuntime.md:52): until destruction no callable is skipped. *)
NeverSkipped == \A c \in Callables : st[c] = "skipped" => cancelled

(* "thread-safe" (Documentation/JsRuntime.md:77): no thread is between       *)
(* reading and assigning m_task in Append while Run assigns it.              *)
NoTaskRace == ~(jsPc = "reset" /\ lockedBy # None)
=============================================================================
