--------------------------- MODULE WorkQueueProofs ---------------------------
(***************************************************************************)
(* Proofs about WorkQueue, for any callables and any background threads.   *)
(***************************************************************************)
EXTENDS WorkQueue, TLAPS

\* The thread is still in Run, and m_task is the tail of the chain.
InRun == jsPc \notin {"detach", "exited"}

\* Tickets number the callables in the order of Append.
TicketInv ==
  /\ \A c \in Callables : st[c] = "new" <=> ticket[c] = 0
  /\ \A c \in Callables : ticket[c] <= issued
  /\ \A c, d \in Callables : ticket[c] = ticket[d] /\ ticket[c] > 0 => c = d

\* One thread at a time is inside Append, with the last callable appended.
LockInv ==
  /\ lockedBy = None <=> arg = None
  /\ lockedBy # None => ticket[arg] = issued /\ issued > 0
  /\ ownerPc = "appending" <=> lockedBy = "owner"
  /\ lockedBy = "js" => jsPc = "running" /\ cur \in Work

\* m_task is the last task appended, or the one before while one is in Append.
Assigned == IF lockedBy = None THEN issued ELSE issued - 1
TailInv ==
  InRun => IF tail = None THEN Assigned = 0
           ELSE ticket[tail] = Assigned /\ ticket[tail] > 0

\* Every task continues the one appended just before it.
PredInv ==
  InRun => \A c \in Callables :
     st[c] # "new" => IF pred[c] = None THEN ticket[c] = 1
                      ELSE ticket[c] = ticket[pred[c]] + 1 /\ ticket[pred[c]] > 0

\* A task waits for its predecessor, and one that does not wait has none left.
OrderInv ==
  InRun => \A c \in Callables :
     /\ st[c] = "waiting" => pred[c] # None /\ st[pred[c]] \notin Complete
     /\ st[c] \notin {"new", "waiting"} =>
          \A d \in Callables : 0 < ticket[d] /\ ticket[d] < ticket[c] => st[d] \in Complete

\* What runs has run after callables that all returned.
RanInv ==
  \A c, d \in Callables :
     st[c] \in {"running", "done", "threw"} /\ 0 < ticket[d] /\ ticket[d] < ticket[c]
        => st[d] = "done"

\* The JavaScript thread runs one callable.
RunInv ==
  /\ cur # None <=> jsPc = "running"
  /\ \A c \in Callables : st[c] = "running" <=> c = cur

\* Failures have a cause, and the loop is left when cancelled.
CauseInv ==
  /\ \A c \in Callables :
        st[c] = "skipped" => cancelled \/ \E d \in Callables : st[d] = "threw"
  /\ \A c \in Callables : st[c] = "dropped" => cancelled
  /\ jsPc \in {"clear", "reset", "detach", "exited"} => cancelled
  /\ cancelled <=> ownerPc \in {"cancelled", "joining", "joined"}

\* A held suspension is about to be appended or has not been run.
HeldInv ==
  /\ ownerPc = "suspending" => held # None /\ st[held] = "new"
  /\ held # None => /\ ownerPc \in {"idle", "suspending", "appending"}
                    /\ st[held] \notin {"done", "threw"}
                    /\ ownerPc # "suspending" => st[held] # "new"

IInv == /\ TypeOK
        /\ TicketInv
        /\ LockInv
        /\ TailInv
        /\ PredInv
        /\ OrderInv
        /\ RanInv
        /\ RunInv
        /\ CauseInv
        /\ HeldInv
----------------------------------------------------------------------------
\* The invariant holds initially: nothing has been appended.
LEMMA InitInv == Init => IInv
<1> SUFFICES ASSUME Init PROVE IInv
  OBVIOUS
<1> USE DEF Init
<1>1. TypeOK
  BY DEF TypeOK, Destroying, Statuses
<1>2. TicketInv /\ PredInv
  BY DEF TicketInv, PredInv
<1>3. LockInv /\ TailInv
  BY ConstantsAssumption DEF LockInv, TailInv, Assigned, Threads
<1>4. OrderInv /\ RanInv
  BY DEF OrderInv, RanInv
<1>5. RunInv
  BY ConstantsAssumption DEF RunInv
<1>6. CauseInv /\ HeldInv
  BY DEF CauseInv, HeldInv
<1>7. QED
  BY <1>1, <1>2, <1>3, <1>4, <1>5, <1>6 DEF IInv

\* Every step keeps the types.
LEMMA TypeStep == TypeOK /\ [Next]_vars => TypeOK'
<1> SUFFICES ASSUME TypeOK, [Next]_vars PROVE TypeOK'
  OBVIOUS
<1> USE DEF TypeOK, Destroying, Statuses, Complete, Failed, ownerVars
<1>1. ASSUME NEW c \in Suspensions, Suspend(c) PROVE TypeOK'
  BY <1>1 DEF Suspend
<1>2. CASE Resume
  BY <1>2 DEF Resume
<1>3. CASE DestroyResume \/ DestroyCancel \/ DestroyWake \/ DestroyJoin
  BY <1>3 DEF DestroyResume, DestroyCancel, DestroyWake, DestroyJoin
<1>4. CASE JsStart \/ JsCheck \/ JsIdle \/ JsWake \/ JsReset \/ JsDetach
  BY <1>4 DEF JsStart, JsCheck, JsIdle, JsWake, JsReset, JsDetach
<1>5. ASSUME NEW c \in Callables, JsBegin(c) \/ JsSkip(c) PROVE TypeOK'
  BY <1>5 DEF JsBegin, JsSkip, Completing
<1>6. CASE JsEnd \/ JsEndSuspension \/ JsClear
  BY <1>6 DEF JsEnd, JsEndSuspension, Return, Completing, JsClear
<1>7. ASSUME NEW t \in Threads, AppendAssign(t) PROVE TypeOK'
  BY <1>7 DEF AppendAssign
<1>8. ASSUME NEW t \in Threads, NEW c \in Callables, AppendThen(t, c) PROVE TypeOK'
  BY <1>8 DEF AppendThen, TaskComplete
<1>9. CASE Terminated \/ UNCHANGED vars
  BY <1>9 DEF Terminated, vars
<1>10. QED
  BY <1>1, <1>2, <1>3, <1>4, <1>5, <1>6, <1>7, <1>8, <1>9 DEF Next, Owner, JavaScript

\* The steps that change neither a task nor m_task nor m_appendMutex.
Quiet == \/ \E c \in Suspensions : Suspend(c)
         \/ Resume \/ DestroyResume \/ DestroyCancel \/ DestroyWake \/ DestroyJoin
         \/ JsStart \/ JsCheck \/ JsIdle \/ JsWake \/ JsDetach
         \/ Terminated \/ UNCHANGED vars

\* The steps that complete a task: a callable returns, throws or is skipped.
Completes(c) == \E s \in Complete :
                   /\ st[c] \in {"queued", "running"}
                   /\ st' = Completing(c, s)
                   /\ s = "skipped" <=> st[c] = "queued"
                   /\ s = "skipped" => cancelled \/ TaskFailed(pred[c])
                   /\ s # "skipped" => c # held
                   /\ cur' = (IF st[c] = "queued" THEN cur ELSE None)
                   /\ jsPc = (IF st[c] = "queued" THEN "tick" ELSE "running")
                   /\ lockedBy # "js"
                   /\ jsPc' = "check"
                   /\ UNCHANGED ownerVars

\* Every step is of one of seven kinds.
LEMMA StepKinds ==
  ASSUME IInv, [Next]_vars
  PROVE  \/ Quiet
         \/ \E t \in Threads : AppendAssign(t)
         \/ \E t \in Threads, c \in Callables : AppendThen(t, c)
         \/ \E c \in Callables : JsBegin(c)
         \/ \E c \in Callables : Completes(c)
         \/ JsClear
         \/ JsReset
<1>1. ASSUME NEW c \in Callables, JsSkip(c) PROVE Completes(c)
  BY <1>1 DEF JsSkip, Completes, Complete, Failed, IInv, LockInv
<1>2. CASE JsEnd \/ JsEndSuspension
  <2>1. cur \in Callables /\ st[cur] = "running"
    BY <1>2, ConstantsAssumption DEF IInv, RunInv, TypeOK, JsEnd, JsEndSuspension, Callables
  <2>2. lockedBy # "js" /\ cur # held
    BY <1>2, ConstantsAssumption DEF IInv, TypeOK, LockInv, Callables, JsEnd, JsEndSuspension
  <2>3. Completes(cur)
    BY <1>2, <2>1, <2>2 DEF JsEnd, JsEndSuspension, Return, Completes, Complete, Failed
  <2>4. QED
    BY <2>1, <2>3
<1>3. QED
  BY <1>1, <1>2 DEF Next, Owner, JavaScript, Quiet

\* Tickets are given out by AppendThen only, to a callable that is new.
LEMMA TicketStep == IInv /\ [Next]_vars => TicketInv'
<1> SUFFICES ASSUME IInv, [Next]_vars PROVE TicketInv'
  OBVIOUS
<1> USE DEF IInv, TypeOK, TicketInv, ownerVars
<1>1. CASE Quiet
  BY <1>1 DEF Quiet, Suspend, Resume, DestroyResume, DestroyCancel, DestroyWake, DestroyJoin,
              JsStart, JsCheck, JsIdle, JsWake, JsDetach, Terminated, vars
<1>2. ASSUME NEW t \in Threads, AppendAssign(t) PROVE TicketInv'
  BY <1>2 DEF AppendAssign
<1>3. ASSUME NEW t \in Threads, NEW c \in Callables, AppendThen(t, c) PROVE TicketInv'
  BY <1>3 DEF AppendThen, MayAppend
<1>4. ASSUME NEW c \in Callables, JsBegin(c) \/ Completes(c) PROVE TicketInv'
  BY <1>4 DEF JsBegin, Completes, Completing, Complete, Failed
<1>5. CASE JsClear \/ JsReset
  BY <1>5 DEF JsClear, JsReset
<1>6. QED
  BY <1>1, <1>2, <1>3, <1>4, <1>5, StepKinds

\* m_appendMutex admits one thread.
LEMMA LockStep == IInv /\ [Next]_vars => LockInv'
<1> SUFFICES ASSUME IInv, [Next]_vars PROVE LockInv'
  OBVIOUS
<1> USE ConstantsAssumption DEF IInv, TypeOK, LockInv, ownerVars
<1>1. CASE Quiet
  BY <1>1 DEF Quiet, Suspend, Resume, DestroyResume, DestroyCancel, DestroyWake, DestroyJoin,
              JsStart, JsCheck, JsIdle, JsWake, JsDetach, Terminated, vars
<1>2. ASSUME NEW t \in Threads, AppendAssign(t) PROVE LockInv'
  BY <1>2 DEF AppendAssign, Threads
<1>3. ASSUME NEW t \in Threads, NEW c \in Callables, AppendThen(t, c) PROVE LockInv'
  BY <1>3 DEF AppendThen, MayAppend, Callables, Threads
<1>4. ASSUME NEW c \in Callables, JsBegin(c) \/ Completes(c) PROVE LockInv'
  BY <1>4 DEF JsBegin, Completes
<1>5. CASE JsClear \/ JsReset
  BY <1>5 DEF JsClear, JsReset
<1>6. QED
  BY <1>1, <1>2, <1>3, <1>4, <1>5, StepKinds

\* m_task follows the last ticket until Run resets it.
LEMMA TailStep == IInv /\ [Next]_vars => TailInv'
<1> SUFFICES ASSUME IInv, [Next]_vars PROVE TailInv'
  OBVIOUS
<1> USE ConstantsAssumption DEF IInv, TypeOK, TailInv, LockInv, Assigned, InRun, ownerVars
<1>1. CASE Quiet
  BY <1>1 DEF Quiet, Suspend, Resume, DestroyResume, DestroyCancel, DestroyWake, DestroyJoin,
              JsStart, JsCheck, JsIdle, JsWake, JsDetach, Terminated, vars
<1>2. ASSUME NEW t \in Threads, AppendAssign(t) PROVE TailInv'
  BY <1>2 DEF AppendAssign
<1>3. ASSUME NEW t \in Threads, NEW c \in Callables, AppendThen(t, c) PROVE TailInv'
  BY <1>3 DEF AppendThen, MayAppend, TicketInv
<1>4. ASSUME NEW c \in Callables, JsBegin(c) \/ Completes(c) PROVE TailInv'
  BY <1>4 DEF JsBegin, Completes
<1>5. CASE JsClear \/ JsReset
  BY <1>5 DEF JsClear, JsReset
<1>6. QED
  BY <1>1, <1>2, <1>3, <1>4, <1>5, StepKinds

\* A new task continues the last one appended.
LEMMA PredStep == IInv /\ [Next]_vars => PredInv'
<1> SUFFICES ASSUME IInv, [Next]_vars PROVE PredInv'
  OBVIOUS
<1> USE ConstantsAssumption DEF IInv, TypeOK, PredInv, InRun, ownerVars
<1>1. CASE Quiet
  BY <1>1 DEF Quiet, Suspend, Resume, DestroyResume, DestroyCancel, DestroyWake, DestroyJoin,
              JsStart, JsCheck, JsIdle, JsWake, JsDetach, Terminated, vars
<1>2. ASSUME NEW t \in Threads, AppendAssign(t) PROVE PredInv'
  BY <1>2 DEF AppendAssign
<1>3. ASSUME NEW t \in Threads, NEW c \in Callables, AppendThen(t, c) PROVE PredInv'
  BY <1>3 DEF AppendThen, MayAppend, LockInv, TailInv, Assigned, TicketInv
<1>4. ASSUME NEW c \in Callables, JsBegin(c) PROVE PredInv'
  BY <1>4 DEF JsBegin
<1>5. ASSUME NEW c \in Callables, Completes(c) PROVE PredInv'
  BY <1>5 DEF Completes, Completing, Complete, Failed
<1>6. CASE JsClear \/ JsReset
  BY <1>6 DEF JsClear, JsReset
<1>7. QED
  BY <1>1, <1>2, <1>3, <1>4, <1>5, <1>6, StepKinds

\* One callable runs at a time.
LEMMA RunStep == IInv /\ [Next]_vars => RunInv'
<1> SUFFICES ASSUME IInv, [Next]_vars PROVE RunInv'
  OBVIOUS
<1> USE ConstantsAssumption DEF IInv, TypeOK, RunInv, ownerVars
<1>1. CASE Quiet
  BY <1>1 DEF Quiet, Suspend, Resume, DestroyResume, DestroyCancel, DestroyWake, DestroyJoin,
              JsStart, JsCheck, JsIdle, JsWake, JsDetach, Terminated, vars
<1>2. ASSUME NEW t \in Threads, AppendAssign(t) PROVE RunInv'
  BY <1>2 DEF AppendAssign
<1>3. ASSUME NEW t \in Threads, NEW c \in Callables, AppendThen(t, c) PROVE RunInv'
  BY <1>3 DEF AppendThen, MayAppend
<1>4. ASSUME NEW c \in Callables, JsBegin(c) PROVE RunInv'
  BY <1>4 DEF JsBegin
<1>5. ASSUME NEW c \in Callables, Completes(c) PROVE RunInv'
  BY <1>5 DEF Completes, Completing, Complete, Failed
<1>6. CASE JsClear \/ JsReset
  BY <1>6 DEF JsClear, JsReset
<1>7. QED
  BY <1>1, <1>2, <1>3, <1>4, <1>5, <1>6, StepKinds

\* A task is skipped after a cancellation or a throw.
LEMMA CauseStep == IInv /\ [Next]_vars => CauseInv'
<1> SUFFICES ASSUME IInv, [Next]_vars PROVE CauseInv'
  OBVIOUS
<1> USE ConstantsAssumption DEF IInv, TypeOK, CauseInv, ownerVars
<1>1. CASE Quiet
  BY <1>1 DEF Quiet, Suspend, Resume, DestroyResume, DestroyCancel, DestroyWake, DestroyJoin,
              JsStart, JsCheck, JsIdle, JsWake, JsDetach, Terminated, vars
<1>2. ASSUME NEW t \in Threads, AppendAssign(t) PROVE CauseInv'
  BY <1>2 DEF AppendAssign, LockInv
<1>3. ASSUME NEW t \in Threads, NEW c \in Callables, AppendThen(t, c) PROVE CauseInv'
  BY <1>3 DEF AppendThen, MayAppend
<1>4. ASSUME NEW c \in Callables, JsBegin(c) PROVE CauseInv'
  BY <1>4 DEF JsBegin
<1>5. ASSUME NEW c \in Callables, Completes(c) PROVE CauseInv'
  BY <1>5 DEF Completes, Completing, Complete, Failed, TaskFailed
<1>6. CASE JsClear \/ JsReset
  BY <1>6 DEF JsClear, JsReset
<1>7. QED
  BY <1>1, <1>2, <1>3, <1>4, <1>5, <1>6, StepKinds

\* The callable of a held suspension cannot return.
LEMMA HeldStep == IInv /\ [Next]_vars => HeldInv'
<1> SUFFICES ASSUME IInv, [Next]_vars PROVE HeldInv'
  OBVIOUS
<1> USE ConstantsAssumption DEF IInv, TypeOK, HeldInv, LockInv, Callables, ownerVars
<1>1. CASE Quiet
  BY <1>1 DEF Quiet, Suspend, Resume, DestroyResume, DestroyCancel, DestroyWake, DestroyJoin,
              JsStart, JsCheck, JsIdle, JsWake, JsDetach, Terminated, vars
<1>2. ASSUME NEW t \in Threads, AppendAssign(t) PROVE HeldInv'
  BY <1>2 DEF AppendAssign
<1>3. ASSUME NEW t \in Threads, NEW c \in Callables, AppendThen(t, c) PROVE HeldInv'
  BY <1>3 DEF AppendThen, MayAppend
<1>4. ASSUME NEW c \in Callables, JsBegin(c) PROVE HeldInv'
  BY <1>4 DEF JsBegin
<1>5. ASSUME NEW c \in Callables, Completes(c) PROVE HeldInv'
  BY <1>5 DEF Completes, Completing, Complete, Failed
<1>6. CASE JsClear \/ JsReset
  BY <1>6 DEF JsClear, JsReset
<1>7. QED
  BY <1>1, <1>2, <1>3, <1>4, <1>5, <1>6, StepKinds

\* A task that does not wait has only complete tasks before it.
LEMMA OrderStep == IInv /\ [Next]_vars => OrderInv'
<1> SUFFICES ASSUME IInv, [Next]_vars PROVE OrderInv'
  OBVIOUS
<1> USE ConstantsAssumption DEF IInv, TypeOK, OrderInv, InRun, ownerVars
<1>1. CASE Quiet
  BY <1>1 DEF Quiet, Suspend, Resume, DestroyResume, DestroyCancel, DestroyWake, DestroyJoin,
              JsStart, JsCheck, JsIdle, JsWake, JsDetach, Terminated, vars
<1>2. ASSUME NEW t \in Threads, AppendAssign(t) PROVE OrderInv'
  BY <1>2 DEF AppendAssign
<1>3. ASSUME NEW t \in Threads, NEW c \in Callables, AppendThen(t, c) PROVE OrderInv'
  <2> SUFFICES ASSUME InRun, NEW e \in Callables
               PROVE  /\ st'[e] = "waiting" => pred'[e] # None /\ st'[pred'[e]] \notin Complete
                      /\ st'[e] \notin {"new", "waiting"} =>
                           \A d \in Callables :
                              0 < ticket'[d] /\ ticket'[d] < ticket'[e] => st'[d] \in Complete
    BY <1>3 DEF AppendThen
  <2> USE <1>3 DEF AppendThen, MayAppend, Complete, Failed, TicketInv
  <2>1. \A d \in Callables \ {c} : 0 < ticket[d] /\ TaskComplete(tail) => st[d] \in Complete
    BY DEF TailInv, Assigned, TaskComplete
  <2>2. CASE e = c
    BY <2>1, <2>2 DEF TaskComplete
  <2>3. CASE e # c
    BY <2>3
  <2>4. QED
    BY <2>2, <2>3
<1>4. ASSUME NEW c \in Callables, JsBegin(c) PROVE OrderInv'
  BY <1>4 DEF JsBegin, Complete, Failed
<1>5. ASSUME NEW c \in Callables, Completes(c) PROVE OrderInv'
  <2> USE <1>5 DEF Completes, Completing, Complete, Failed
  <2>1. \A d \in Callables : 0 < ticket[d] /\ ticket[d] < ticket[c] => st'[d] \in Complete
    OBVIOUS
  <2>2. ASSUME NEW e \in Callables, st[e] = "waiting", pred[e] = c,
               NEW d \in Callables, 0 < ticket[d], ticket[d] < ticket[e]
        PROVE  st'[d] \in Complete
    <3>1. ticket[d] < ticket[c] \/ d = c
      BY <2>2 DEF PredInv, TicketInv
    <3>2. QED
      BY <2>1, <2>2, <3>1
  <2>3. QED
    BY <2>1, <2>2
<1>6. CASE JsClear \/ JsReset
  BY <1>6 DEF JsClear, JsReset, Complete, Failed
<1>7. QED
  BY <1>1, <1>2, <1>3, <1>4, <1>5, <1>6, StepKinds

\* A callable runs only after callables that all returned.
LEMMA RanStep == IInv /\ [Next]_vars => RanInv'
<1> SUFFICES ASSUME IInv, [Next]_vars PROVE RanInv'
  OBVIOUS
<1> USE ConstantsAssumption DEF IInv, TypeOK, RanInv, ownerVars
<1>1. CASE Quiet
  BY <1>1 DEF Quiet, Suspend, Resume, DestroyResume, DestroyCancel, DestroyWake, DestroyJoin,
              JsStart, JsCheck, JsIdle, JsWake, JsDetach, Terminated, vars
<1>2. ASSUME NEW t \in Threads, AppendAssign(t) PROVE RanInv'
  BY <1>2 DEF AppendAssign
<1>3. ASSUME NEW t \in Threads, NEW c \in Callables, AppendThen(t, c) PROVE RanInv'
  BY <1>3 DEF AppendThen, MayAppend, TicketInv
<1>4. ASSUME NEW c \in Callables, JsBegin(c) PROVE RanInv'
  <2> USE <1>4 DEF JsBegin, InRun
  <2>1. ASSUME NEW d \in Callables, 0 < ticket[d], ticket[d] < ticket[c] PROVE st[d] = "done"
    <3>1. /\ pred[c] \in Callables
          /\ st[pred[c]] = "done"
          /\ ticket[c] = ticket[pred[c]] + 1 /\ ticket[pred[c]] > 0
      BY <2>1 DEF PredInv, OrderInv, TaskFailed, Complete
    <3>2. d = pred[c] \/ ticket[d] < ticket[pred[c]]
      BY <2>1, <3>1 DEF TicketInv
    <3>3. QED
      BY <2>1, <3>1, <3>2
  <2>2. QED
    BY <2>1
<1>5. ASSUME NEW c \in Callables, Completes(c) PROVE RanInv'
  BY <1>5 DEF Completes, Completing, Complete, Failed
<1>6. CASE JsClear \/ JsReset
  BY <1>6 DEF JsClear, JsReset
<1>7. QED
  BY <1>1, <1>2, <1>3, <1>4, <1>5, <1>6, StepKinds
----------------------------------------------------------------------------
\* The invariant holds in every state of every behaviour.
THEOREM Invariance == Spec => []IInv
<1>1. IInv /\ [Next]_vars => IInv'
  BY TypeStep, TicketStep, LockStep, TailStep, PredStep, OrderStep, RanStep, RunStep,
     CauseStep, HeldStep DEF IInv
<1>2. QED
  BY InitInv, <1>1, PTL DEF Spec

\* The types of the state of the queue.
THEOREM TypeCorrect == Spec => []TypeOK
  BY Invariance, PTL DEF IInv

(* The dispatcher never holds more than one task while Run is in its loop:   *)
(* two callables on it would each have the other complete before it.         *)
THEOREM OneScheduledHolds == Spec => []OneScheduled
<1>1. IInv => OneScheduled
  <2> SUFFICES ASSUME IInv, InRun, NEW c \in Callables, NEW d \in Callables,
                      st[c] \in {"queued", "running"}, st[d] \in {"queued", "running"}
               PROVE  c = d
    BY DEF OneScheduled, InRun
  <2>1. ticket[c] > 0 /\ ticket[d] > 0 /\ ticket[c] \in Nat /\ ticket[d] \in Nat
    BY DEF IInv, TypeOK, TicketInv
  <2>2. ~(ticket[c] < ticket[d]) /\ ~(ticket[d] < ticket[c])
    BY <2>1 DEF IInv, OrderInv, Complete, Failed
  <2>3. QED
    BY <2>1, <2>2 DEF IInv, TicketInv
<1>2. QED
  BY Invariance, <1>1, PTL

(* While a suspension is held, nothing appended after it has begun: what has *)
(* begun came after callables that all returned, and the suspension has not. *)
THEOREM SuspensionHoldsAlways == Spec => []SuspensionHolds
<1>1. IInv => SuspensionHolds
  <2> SUFFICES ASSUME IInv, held # None, ticket[held] > 0,
                      NEW c \in Callables, ticket[c] > ticket[held]
               PROVE  st[c] \in {"waiting", "queued", "skipped", "dropped"}
    BY DEF SuspensionHolds
  <2>1. held \in Callables /\ st[held] # "done"
    BY DEF IInv, TypeOK, HeldInv, Callables
  <2>2. st[c] \notin {"new", "running", "done", "threw"}
    BY <2>1 DEF IInv, TypeOK, RanInv, TicketInv
  <2>3. QED
    BY <2>2 DEF IInv, TypeOK, Statuses, Complete, Failed
<1>2. QED
  BY Invariance, <1>1, PTL

(* The mutex that m_suspensionLock has locked is still owned by a callable   *)
(* that has not completed, unless a callable has thrown.                     *)
THEOREM SuspensionMutexStaysAlive == Spec => []SuspensionMutexAlive
<1>1. IInv => SuspensionMutexAlive
  <2> SUFFICES ASSUME IInv, held # None, ownerPc # "suspending",
                      \A c \in Callables : st[c] # "threw"
               PROVE  st[held] \in {"waiting", "queued", "running"}
    BY DEF SuspensionMutexAlive
  <2>1. held \in Callables /\ ~cancelled
    BY DEF IInv, TypeOK, HeldInv, CauseInv, Callables
  <2>2. st[held] \notin {"new", "done", "threw", "skipped", "dropped"}
    BY <2>1 DEF IInv, HeldInv, CauseInv
  <2>3. QED
    BY <2>1, <2>2 DEF IInv, TypeOK, Statuses, Complete, Failed
<1>2. QED
  BY Invariance, <1>1, PTL
----------------------------------------------------------------------------
phases == [c \in Callables |-> Phase(c)]

\* What a change of st does to the phases.
LEMMA PhaseOf ==
  ASSUME TypeOK, NEW c \in Callables
  PROVE  /\ phases[c] \in {"new", "pending", "running", "over"}
         /\ phases[c] = "new" <=> st[c] = "new"
         /\ phases[c] = "pending" <=> st[c] \in {"waiting", "queued"}
         /\ phases[c] = "running" <=> st[c] = "running"
         /\ phases[c] = "over" <=> st[c] \in Complete \cup {"dropped"}
  BY DEF phases, Phase, TypeOK, Statuses, Complete, Failed

\* In Run, a callable on the dispatcher has only callables that are over before it.
LEMMA QueuedIsNext ==
  ASSUME IInv, InRun, NEW c \in Callables, st[c] \notin {"new", "waiting"}
  PROVE  Contract!EarlierOver(c)
<1> SUFFICES ASSUME NEW d \in Callables, 0 < ticket[d], ticket[d] < ticket[c]
             PROVE  phases[d] = "over"
  BY DEF Contract!EarlierOver, phases
<1>1. st[d] \in Complete
  BY DEF IInv, OrderInv
<1>2. QED
  BY <1>1, PhaseOf DEF IInv

(* The queue implements the contract of JsRuntime::Dispatch: Append is its   *)
(* Dispatch, a callable begins and ends there as here, and the callables     *)
(* that are skipped or cleared are discarded in the order of Append.         *)
THEOREM Implementation == Spec => ImplementsContract
<1>1. Init => Contract!Init
  BY DEF Init, Contract!Init, Phase
<1>2. IInv /\ IInv' /\ [Next]_vars => [Contract!Next]_(Contract!contractVars)
  <2> SUFFICES ASSUME IInv, IInv', [Next]_vars
               PROVE  Contract!Next \/ UNCHANGED <<phases, ticket, issued>>
    BY DEF Contract!contractVars, phases
  <2> USE DEF ownerVars
  <2>0. TypeOK /\ TypeOK'
    BY DEF IInv
  <2>1. CASE Quiet
    <3>1. UNCHANGED <<st, ticket, issued>>
      BY <2>1 DEF Quiet, Suspend, Resume, DestroyResume, DestroyCancel, DestroyWake, DestroyJoin,
                  JsStart, JsCheck, JsIdle, JsWake, JsDetach, Terminated, vars
    <3>2. QED
      BY <3>1 DEF phases, Phase
  <2>2. ASSUME NEW t \in Threads, AppendAssign(t) PROVE UNCHANGED <<phases, ticket, issued>>
    BY <2>2 DEF AppendAssign, phases, Phase
  <2>3. ASSUME NEW t \in Threads, NEW c \in Callables, AppendThen(t, c)
        PROVE  Contract!Dispatch(c)
    <3>1. phases[c] = "new" /\ phases' = [phases EXCEPT ![c] = "pending"]
      BY <2>0, <2>3 DEF AppendThen, MayAppend, phases, Phase, TypeOK
    <3>2. QED
      BY <2>3, <3>1 DEF AppendThen, Contract!Dispatch, phases
  <2>4. ASSUME NEW c \in Callables, JsBegin(c) PROVE Contract!Start(c)
    <3>1. /\ phases[c] = "pending"
          /\ \A d \in Callables : phases[d] # "running"
          /\ phases' = [phases EXCEPT ![c] = "running"]
      BY <2>0, <2>4, ConstantsAssumption DEF IInv, RunInv, JsBegin, phases, Phase, TypeOK
    <3>2. Contract!EarlierOver(c)
      BY <2>4, QueuedIsNext DEF JsBegin, InRun
    <3>3. QED
      BY <2>4, <3>1, <3>2 DEF JsBegin, Contract!Start, phases
  <2>5. ASSUME NEW c \in Callables, Completes(c)
        PROVE  Contract!Finish(c) \/ Contract!Discard(c)
    <3>1. /\ phases[c] = (IF st[c] = "queued" THEN "pending" ELSE "running")
          /\ phases' = [phases EXCEPT ![c] = "over"]
      BY <2>0, <2>5 DEF Completes, Completing, Complete, Failed, phases, Phase, TypeOK
    <3>2. Contract!EarlierOver(c)
      BY <2>5, QueuedIsNext DEF Completes, InRun
    <3>3. QED
      BY <2>5, <3>1, <3>2 DEF Completes, Contract!Finish, Contract!Discard, phases
  <2>6. CASE JsClear
    <3>1. CASE \E c \in Callables : st[c] = "queued"
      <4>1. PICK c \in Callables : st[c] = "queued"
        BY <3>1
      <4>2. \A d \in Callables : st[d] = "queued" => d = c
        <5> SUFFICES ASSUME NEW d \in Callables, st[d] = "queued", d # c PROVE FALSE
          OBVIOUS
        <5>1. ticket[c] > 0 /\ ticket[d] > 0 /\ ticket[c] \in Nat /\ ticket[d] \in Nat
          BY <4>1 DEF IInv, TypeOK, TicketInv
        <5>2. ~(ticket[c] < ticket[d]) /\ ~(ticket[d] < ticket[c])
          BY <2>6, <4>1, <5>1 DEF JsClear, InRun, IInv, OrderInv, Complete, Failed
        <5>3. QED
          BY <5>1, <5>2 DEF IInv, TicketInv
      <4>3. phases[c] = "pending" /\ phases' = [phases EXCEPT ![c] = "over"]
        BY <2>0, <2>6, <4>1, <4>2 DEF JsClear, phases, Phase, TypeOK
      <4>4. Contract!EarlierOver(c)
        BY <2>6, <4>1, QueuedIsNext DEF JsClear, InRun
      <4>5. Contract!Discard(c)
        BY <2>6, <4>3, <4>4 DEF JsClear, Contract!Discard, phases
      <4>6. QED
        BY <4>5 DEF Contract!Next
    <3>2. CASE \A c \in Callables : st[c] # "queued"
      BY <2>0, <2>6, <3>2 DEF JsClear, phases, Phase, TypeOK
    <3>3. QED
      BY <3>1, <3>2
  <2>7. CASE JsReset
    BY <2>7 DEF JsReset, phases, Phase
  <2>8. QED
    BY <2>1, <2>2, <2>3, <2>4, <2>5, <2>6, <2>7, StepKinds DEF Contract!Next
<1>3. QED
  BY <1>1, <1>2, Invariance, PTL DEF Spec, ImplementsContract, Contract!Spec
----------------------------------------------------------------------------
(* Nothing dispatched is forgotten: the part of EventuallySettled and of     *)
(* DestructionEnds that does not depend on scheduling.                       *)

\* The callables that have been put on the dispatcher.
Released(c) == st[c] \notin {"new", "waiting"}

\* Every number up to the number of the appends is the ticket of a callable.
CountInv == \A n \in 1 .. issued : \E c \in Callables : ticket[c] = n

\* The callables that have been put on the dispatcher are the first ones.
PrefixInv == InRun => \E k \in 0 .. issued :
                         \A c \in Callables : Released(c) <=> 0 < ticket[c] /\ ticket[c] <= k

\* The loop is over when the dispatcher is cleared.
Looping    == jsPc \notin {"reset", "detach", "exited"}
DroppedInv == Looping => \A c \in Callables : st[c] # "dropped"

(* A callable that waits while nothing before it is on the dispatcher or     *)
(* runs, though the dispatcher has not been cleared.                         *)
Forgotten(c) ==
  /\ Looping
  /\ st[c] = "waiting"
  /\ \A d \in Callables : ticket[d] < ticket[c] => st[d] \notin {"queued", "running"}

LEMMA KeptInit == Init => CountInv /\ PrefixInv /\ DroppedInv
<1> SUFFICES ASSUME Init PROVE CountInv /\ PrefixInv /\ DroppedInv
  OBVIOUS
<1>1. issued = 0 /\ \A c \in Callables : st[c] = "new" /\ ticket[c] = 0
  BY DEF Init
<1>2. 0 \in 0 .. issued /\ \A c \in Callables : Released(c) <=> 0 < ticket[c] /\ ticket[c] <= 0
  BY <1>1 DEF Released
<1>3. QED
  BY <1>1, <1>2 DEF CountInv, PrefixInv, DroppedInv

LEMMA CountStep == IInv /\ CountInv /\ [Next]_vars => CountInv'
<1> SUFFICES ASSUME IInv, CountInv, [Next]_vars, NEW n \in 1 .. issued'
             PROVE  \E d \in Callables : ticket'[d] = n
  BY DEF CountInv
<1>1. ASSUME NEW t \in Threads, NEW c \in Callables, AppendThen(t, c)
      PROVE  \E d \in Callables : ticket'[d] = n
  <2>1. /\ issued' = issued + 1 /\ ticket[c] = 0 /\ issued \in Nat
        /\ \A d \in Callables : ticket'[d] = IF d = c THEN issued + 1 ELSE ticket[d]
    BY <1>1 DEF AppendThen, MayAppend, IInv, TypeOK, TicketInv
  <2>2. CASE n = issued + 1
    BY <2>1, <2>2
  <2>3. CASE n # issued + 1
    <3>1. PICK d \in Callables : ticket[d] = n
      BY <2>1, <2>3 DEF CountInv
    <3>2. QED
      BY <2>1, <3>1
  <2>4. QED
    BY <2>2, <2>3
<1>2. CASE UNCHANGED <<ticket, issued>>
  BY <1>2 DEF CountInv
<1>3. QED
  BY <1>1, <1>2, StepKinds
     DEF Quiet, Suspend, Resume, DestroyResume, DestroyCancel, DestroyWake, DestroyJoin,
         JsStart, JsCheck, JsIdle, JsWake, JsDetach, Terminated, vars, AppendAssign, JsBegin,
         Completes, JsClear, JsReset, ownerVars

LEMMA PrefixStep == IInv /\ CountInv /\ PrefixInv /\ [Next]_vars => PrefixInv'
<1> SUFFICES ASSUME IInv, CountInv, PrefixInv, [Next]_vars, InRun'
             PROVE  \E k \in 0 .. issued' :
                       \A c \in Callables : Released(c)' <=> 0 < ticket'[c] /\ ticket'[c] <= k
  BY DEF PrefixInv
<1>0. /\ st \in [Callables -> Statuses] /\ ticket \in [Callables -> Nat] /\ issued \in Nat
      /\ TicketInv
  BY DEF IInv, TypeOK
\* Steps that put nothing on the dispatcher.
<1>1. ASSUME InRun, UNCHANGED <<ticket, issued>>, \A c \in Callables : Released(c)' <=> Released(c)
      PROVE  \E k \in 0 .. issued' :
                \A c \in Callables : Released(c)' <=> 0 < ticket'[c] /\ ticket'[c] <= k
  BY <1>1 DEF PrefixInv
<1>2. CASE Quiet \/ (\E t \in Threads : AppendAssign(t)) \/ JsReset
  <2>1. InRun /\ UNCHANGED <<st, ticket, issued>>
    BY <1>2 DEF Quiet, Suspend, Resume, DestroyResume, DestroyCancel, DestroyWake, DestroyJoin,
         JsStart, JsCheck, JsIdle, JsWake, JsDetach, Terminated, vars, AppendAssign, JsReset,
         ownerVars, InRun
  <2>2. QED
    BY <1>1, <2>1 DEF Released
<1>3. ASSUME NEW c \in Callables, JsBegin(c) PROVE InRun /\ UNCHANGED <<ticket, issued>>
                                                   /\ \A d \in Callables : Released(d)' <=> Released(d)
  BY <1>0, <1>3 DEF JsBegin, ownerVars, InRun, Released
<1>4. CASE JsClear
  <2>1. InRun /\ UNCHANGED <<ticket, issued>> /\ \A d \in Callables : Released(d)' <=> Released(d)
    BY <1>0, <1>4 DEF JsClear, ownerVars, InRun, Released
  <2>2. QED
    BY <1>1, <2>1
<1>5. ASSUME NEW t \in Threads, NEW c \in Callables, AppendThen(t, c)
      PROVE  \E k \in 0 .. issued' :
                \A d \in Callables : Released(d)' <=> 0 < ticket'[d] /\ ticket'[d] <= k
  <2>1. /\ InRun /\ st[c] = "new" /\ ticket[c] = 0 /\ issued' = issued + 1
        /\ \A d \in Callables : /\ ticket'[d] = IF d = c THEN issued + 1 ELSE ticket[d]
                                /\ d # c => st'[d] = st[d]
        /\ st'[c] = IF TaskComplete(tail) THEN "queued" ELSE "waiting"
    BY <1>0, <1>5 DEF AppendThen, MayAppend, InRun, TicketInv
  <2>2. PICK k \in 0 .. issued :
          \A d \in Callables : Released(d) <=> 0 < ticket[d] /\ ticket[d] <= k
    BY <2>1 DEF PrefixInv
  <2>3. \A d \in Callables : ticket[d] <= issued /\ ticket[d] \in Nat
    BY <1>0 DEF TicketInv
  <2>4. CASE TaskComplete(tail)
    <3>1. ASSUME NEW d \in Callables, 0 < ticket[d] PROVE st[d] \in Complete
      BY <2>1, <2>4, <3>1, <1>5, <1>0 DEF IInv, TypeOK, TailInv, Assigned, TaskComplete, OrderInv,
         AppendThen, TicketInv, Complete, Failed
    <3>2. \A d \in Callables : Released(d)' <=> 0 < ticket'[d] /\ ticket'[d] <= issued + 1
      <4> TAKE d \in Callables
      <4>1. CASE d = c
        BY <1>0, <2>1, <2>4, <4>1 DEF Released
      <4>2. CASE d # c
        <5>1. st'[d] = st[d] /\ ticket'[d] = ticket[d]
          BY <2>1, <4>2
        <5>2. 0 < ticket[d] => Released(d)
          BY <3>1 DEF Released, Complete, Failed
        <5>3. Released(d) => 0 < ticket[d]
          BY <2>2
        <5>4. QED
          BY <1>0, <2>3, <5>1, <5>2, <5>3 DEF Released
      <4>3. QED
        BY <4>1, <4>2
    <3>3. issued + 1 \in 0 .. issued'
      BY <1>0, <2>1
    <3>4. QED
      BY <3>2, <3>3
  <2>5. CASE ~TaskComplete(tail)
    <3>1. \A d \in Callables : Released(d)' <=> 0 < ticket'[d] /\ ticket'[d] <= k
      BY <1>0, <2>1, <2>2, <2>3, <2>5 DEF Released
    <3>2. k \in 0 .. issued'
      BY <1>0, <2>1
    <3>3. QED
      BY <3>1, <3>2
  <2>6. QED
    BY <2>4, <2>5
<1>6. ASSUME NEW c \in Callables, Completes(c)
      PROVE  \E k \in 0 .. issued' :
                \A d \in Callables : Released(d)' <=> 0 < ticket'[d] /\ ticket'[d] <= k
  <2>1. /\ InRun /\ Released(c) /\ UNCHANGED <<ticket, issued>>
        /\ \A d \in Callables :
              Released(d)' <=> Released(d) \/ (st[d] = "waiting" /\ pred[d] = c)
    BY <1>0, <1>6 DEF Completes, Completing, Complete, Failed, ownerVars, InRun, Released
  <2>2. PICK k \in 0 .. issued :
          \A d \in Callables : Released(d) <=> 0 < ticket[d] /\ ticket[d] <= k
    BY <2>1 DEF PrefixInv
  <2>3. CASE \A d \in Callables : ~(st[d] = "waiting" /\ pred[d] = c)
    BY <1>1, <2>1, <2>3
  <2>4. CASE \E d \in Callables : st[d] = "waiting" /\ pred[d] = c
    <3>1. ASSUME NEW d \in Callables, st[d] = "waiting", pred[d] = c
          PROVE  ticket[d] = k + 1 /\ k + 1 <= issued
      <4>1. ticket[d] = ticket[c] + 1 /\ ~Released(d) /\ ticket[d] <= issued /\ c # None
        BY <1>0, <2>1, <3>1, ConstantsAssumption DEF IInv, PredInv, Released, TicketInv
      <4>2. QED
        BY <1>0, <2>1, <2>2, <4>1
    <3>2. PICK e \in Callables : st[e] = "waiting" /\ pred[e] = c
      BY <2>4
    <3>3. ASSUME NEW d \in Callables
          PROVE  Released(d)' <=> 0 < ticket'[d] /\ ticket'[d] <= k + 1
      <4>1. ticket[d] = k + 1 => d = e
        BY <1>0, <3>1, <3>2 DEF TicketInv
      <4>2. QED
        BY <1>0, <2>1, <2>2, <3>1, <3>2, <4>1
    <3>4. k + 1 \in 0 .. issued'
      BY <1>0, <2>1, <3>1, <3>2
    <3>5. QED
      BY <3>3, <3>4
  <2>5. QED
    BY <2>3, <2>4
<1>7. QED
  BY <1>1, <1>2, <1>3, <1>4, <1>5, <1>6, StepKinds

LEMMA DroppedStep == IInv /\ DroppedInv /\ [Next]_vars => DroppedInv'
<1> SUFFICES ASSUME IInv, DroppedInv, [Next]_vars, Looping', NEW d \in Callables
             PROVE  st'[d] # "dropped"
  BY DEF DroppedInv
<1>0. st \in [Callables -> Statuses]
  BY DEF IInv, TypeOK
<1>1. CASE Quiet \/ (\E t \in Threads : AppendAssign(t))
  BY <1>1 DEF Quiet, Suspend, Resume, DestroyResume, DestroyCancel, DestroyWake, DestroyJoin,
     JsStart, JsCheck, JsIdle, JsWake, JsDetach, Terminated, vars, AppendAssign, ownerVars,
     Looping, DroppedInv
<1>2. ASSUME NEW t \in Threads, NEW c \in Callables, AppendThen(t, c) PROVE st'[d] # "dropped"
  BY <1>0, <1>2 DEF AppendThen, Looping, DroppedInv
<1>3. ASSUME NEW c \in Callables, JsBegin(c) \/ Completes(c) PROVE st'[d] # "dropped"
  BY <1>0, <1>3 DEF JsBegin, Completes, Completing, Complete, Failed, Looping, DroppedInv
<1>4. CASE JsClear \/ JsReset
  BY <1>4 DEF JsClear, JsReset, Looping
<1>5. QED
  BY <1>1, <1>2, <1>3, <1>4, StepKinds

LEMMA PrefixHolds == Spec => [](CountInv /\ PrefixInv /\ DroppedInv)
<1>1. IInv /\ CountInv /\ PrefixInv /\ DroppedInv /\ [Next]_vars
        => CountInv' /\ PrefixInv' /\ DroppedInv'
  BY CountStep, PrefixStep, DroppedStep
<1>2. QED
  BY KeptInit, <1>1, Invariance, PTL DEF Spec

(* Until the dispatcher is cleared a callable waits only for one that is on  *)
(* the dispatcher or runs: however Append interleaves with the completion of *)
(* the tail, the continuation is attached to a task that still completes, or *)
(* is put on the dispatcher (WorkQueue.h:20-23).                             *)
THEOREM NoneForgotten == Spec => [](\A c \in Callables : ~Forgotten(c))
<1>1. IInv /\ CountInv /\ PrefixInv /\ DroppedInv => \A c \in Callables : ~Forgotten(c)
  <2> SUFFICES ASSUME IInv, CountInv, PrefixInv, DroppedInv, NEW c \in Callables, Forgotten(c) PROVE FALSE
    OBVIOUS
  <2>0. /\ InRun /\ TypeOK /\ TicketInv /\ issued \in Nat
        /\ \A d \in Callables : ticket[d] \in Nat
    BY DEF IInv, TypeOK, Forgotten, Looping, InRun
  <2>1. PICK k \in 0 .. issued :
          \A d \in Callables : Released(d) <=> 0 < ticket[d] /\ ticket[d] <= k
    BY <2>0 DEF PrefixInv
  <2>2. ~Released(c) /\ 0 < ticket[c] /\ ticket[c] <= issued
    BY <2>0 DEF Forgotten, Released, TicketInv
  <2>3. k + 1 \in 1 .. issued /\ k + 1 <= ticket[c] /\ k \in Nat
    BY <2>0, <2>1, <2>2
  <2>4. PICK d \in Callables : ticket[d] = k + 1
    BY <2>3 DEF CountInv
  <2>5. st[d] = "waiting"
    BY <2>0, <2>1, <2>3, <2>4 DEF Released, TicketInv
  <2>6. pred[d] # None /\ pred[d] \in Callables /\ st[pred[d]] \notin Complete
    BY <2>0, <2>5 DEF IInv, OrderInv, TypeOK
  <2>7. ticket[pred[d]] = k /\ ticket[pred[d]] > 0
    BY <2>0, <2>3, <2>4, <2>5, <2>6 DEF IInv, PredInv
  <2>8. Released(pred[d])
    BY <2>1, <2>6, <2>7
  <2>9. st[pred[d]] = "dropped"
    BY <2>0, <2>3, <2>6, <2>7, <2>8 DEF Forgotten, Released, TypeOK, Statuses
  <2>10. QED
    BY <2>6, <2>9 DEF Forgotten, DroppedInv
<1>2. QED
  BY Invariance, PrefixHolds, <1>1, PTL
=============================================================================
