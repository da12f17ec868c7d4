------------------------------ MODULE Graphics ------------------------------
(***************************************************************************)
(* Graphics::Impl (Core/Graphics/Source/Graphics.cpp, GraphicsImpl.h): the *)
(* two halves of a frame, the task completion sources that announce its    *)
(* beginning and its end, and the work it waits for.                       *)
(*                                                                         *)
(* GetBeforeRenderTask and GetAfterRenderTask hand out the task of the     *)
(* current source.  The source is replaced and completed by the thread     *)
(* that renders, without a lock: a thread that took the task before the    *)
(* replacement may attach its continuation to the source that was swapped  *)
(* out, or to one that is complete, and then the continuation runs at once *)
(* on the thread that attaches it.                                         *)
(*                                                                         *)
(* The continuations are those of the modules that EXTEND this one.        *)
(***************************************************************************)
EXTENDS Sequences, Naturals

CONSTANTS Tasks,            \* the tasks given to AddRenderWorkTask
          BeforeConts,      \* continuations attached to the before source
          AfterConts,       \* continuations attached to the after source
          NoCont            \* no continuation

Conts == BeforeConts \cup AfterConts

VARIABLES
  rendering,    \* m_rendering
  pc,           \* where the rendering thread is in the frame
  onBefore,     \* continuations of the current BeforeRenderTaskCompletionSource
  onAfter,      \* continuations of the current AfterRenderTaskCompletionSource
  firing,       \* continuations of the source that was swapped out
  workTasks,    \* RenderWorkTasks
  awaited,      \* the tasks of the when_all that the frame waits for
  workDone,     \* workDone of FinishRenderingCurrentFrame
  task,         \* task[t]: the state of a render work task
  handle        \* a task taken from a source and not yet continued

frameVars == <<rendering, pc, onBefore, onAfter, firing, workTasks, awaited, workDone>>

TaskStates == {"free", "queued", "running", "done", "failed"}
Ages       == {"none", "current", "swapped", "completed"}
NoHandle   == [cont |-> NoCont, age |-> "none"]

GraphicsTypeOK ==
  /\ rendering \in BOOLEAN
  /\ pc \in {"idle", "swapBefore", "completeBefore", "runBefore", "started", "collect",
             "wait", "present", "swapAfter", "completeAfter", "runAfter"}
  /\ onBefore \in Seq(BeforeConts)
  /\ onAfter \in Seq(AfterConts)
  /\ firing \in Seq(Conts)
  /\ workTasks \subseteq Tasks
  /\ awaited \subseteq Tasks
  /\ workDone \in BOOLEAN
  /\ task \in [Tasks -> TaskStates]
  /\ handle \in [cont : Conts \cup {NoCont}, age : Ages]

GraphicsInit ==
  /\ rendering = FALSE /\ pc = "idle"
  /\ onBefore = <<>> /\ onAfter = <<>> /\ firing = <<>>
  /\ workTasks = {} /\ awaited = {} /\ workDone = FALSE
  /\ task = [t \in Tasks |-> "free"]
  /\ handle = NoHandle
----------------------------------------------------------------------------
\* GetBeforeRenderTask / GetAfterRenderTask, by a thread that will attach c.
GetTask(c) == handle' = [cont |-> c, age |-> "current"]

\* Mutant of AttachLater: the source is not replaced before it is completed.
AttachToFiring ==
  /\ handle.age \in {"current", "swapped"}
  /\ IF handle.cont \in BeforeConts /\ pc \in {"completeBefore", "runBefore"}
     THEN firing' = Append(firing, handle.cont) /\ UNCHANGED <<onBefore, onAfter>>
     ELSE IF handle.cont \in BeforeConts
          THEN onBefore' = Append(onBefore, handle.cont) /\ UNCHANGED <<firing, onAfter>>
          ELSE onAfter' = Append(onAfter, handle.cont) /\ UNCHANGED <<firing, onBefore>>

\* Mutant of AttachLater: the task was taken from the other source.
AttachSwapped ==
  /\ handle.age \in {"current", "swapped"}
  /\ IF handle.age = "swapped"
     THEN firing' = Append(firing, handle.cont) /\ UNCHANGED <<onBefore, onAfter>>
     ELSE IF handle.cont \in BeforeConts
          THEN onAfter' = Append(onAfter, handle.cont) /\ UNCHANGED <<firing, onBefore>>
          ELSE onBefore' = Append(onBefore, handle.cont) /\ UNCHANGED <<firing, onAfter>>

\* then(inline_scheduler, ...): TRUE if the continuation is run by a completion.
AttachLater ==
  /\ handle.age \in {"current", "swapped"}
  /\ IF handle.age = "swapped"
     THEN firing' = Append(firing, handle.cont) /\ UNCHANGED <<onBefore, onAfter>>
     ELSE IF handle.cont \in BeforeConts
          THEN onBefore' = Append(onBefore, handle.cont) /\ UNCHANGED <<firing, onAfter>>
          ELSE onAfter' = Append(onAfter, handle.cont) /\ UNCHANGED <<firing, onBefore>>

\* The source of the continuations in cs ages: current, swapped out, completed.
AgeHandle(cs, from, to) ==
  handle' = IF handle.cont \in cs /\ handle.age = from
            THEN [handle EXCEPT !.age = to] ELSE handle
----------------------------------------------------------------------------
\* StartRenderingCurrentFrame; with m_rendering set it throws and does nothing.
Start ==
  /\ pc = "idle"
  /\ ~rendering
  /\ rendering' = TRUE
  /\ pc' = "swapBefore"
  /\ UNCHANGED <<onBefore, onAfter, firing, workTasks, awaited, workDone, task, handle>>

SwapBefore ==
  /\ pc = "swapBefore"
  /\ firing' = onBefore
  /\ onBefore' = <<>>
  /\ AgeHandle(BeforeConts, "current", "swapped")
  /\ pc' = "completeBefore"
  /\ UNCHANGED <<rendering, onAfter, workTasks, awaited, workDone, task>>

CompleteBefore ==
  /\ pc = "completeBefore"
  /\ AgeHandle(BeforeConts, "swapped", "completed")
  /\ pc' = "runBefore"
  /\ UNCHANGED <<rendering, onBefore, onAfter, firing, workTasks, awaited, workDone, task>>

\* All continuations have run: StartRenderingCurrentFrame returns.
EndStart ==
  /\ pc = "runBefore"
  /\ firing = <<>>
  /\ pc' = "started"
  /\ UNCHANGED <<rendering, onBefore, onAfter, firing, workTasks, awaited, workDone,
                 task, handle>>

\* FinishRenderingCurrentFrame; without m_rendering it throws and does nothing.
Finish ==
  /\ pc = "started"
  /\ rendering
  /\ pc' = "collect"
  /\ UNCHANGED <<rendering, onBefore, onAfter, firing, workTasks, awaited, workDone,
                 task, handle>>

\* Mutant of Collect: the frame does not wait for its work.
CollectWithoutWaiting ==
  /\ pc = "collect"
  /\ pc' = "present"
  /\ workTasks' = {}
  /\ workDone' = (workTasks # {})
  /\ UNCHANGED <<rendering, onBefore, onAfter, firing, awaited, task, handle>>

\* RenderCurrentFrameAsync: take the work there is, or the frame is finished.
Collect ==
  /\ pc = "collect"
  /\ IF workTasks = {}
     THEN pc' = "present" /\ UNCHANGED <<workTasks, awaited, workDone>>
     ELSE /\ pc' = "wait"
          /\ awaited' = workTasks
          /\ workTasks' = {}
          /\ workDone' = TRUE
  /\ UNCHANGED <<rendering, onBefore, onAfter, firing, task, handle>>

(* The continuation of when_all calls RenderCurrentFrameAsync again.  It has *)
(* no branch for an error: when a task fails, blocking_tick never sees it.   *)
WorkComplete ==
  /\ pc = "wait"
  /\ \A t \in awaited : task[t] = "done"
  /\ pc' = "collect"
  /\ task' = [t \in Tasks |-> IF t \in awaited THEN "free" ELSE task[t]]
  /\ awaited' = {}
  /\ UNCHANGED <<rendering, onBefore, onAfter, firing, workTasks, workDone, handle>>

\* bgfx::frame(), if there was work.
Present ==
  /\ pc = "present"
  /\ pc' = "swapAfter"
  /\ workDone' = FALSE
  /\ UNCHANGED <<rendering, onBefore, onAfter, firing, workTasks, awaited, task, handle>>

SwapAfter ==
  /\ pc = "swapAfter"
  /\ firing' = onAfter
  /\ onAfter' = <<>>
  /\ AgeHandle(AfterConts, "current", "swapped")
  /\ pc' = "completeAfter"
  /\ UNCHANGED <<rendering, onBefore, workTasks, awaited, workDone, task>>

CompleteAfter ==
  /\ pc = "completeAfter"
  /\ AgeHandle(AfterConts, "swapped", "completed")
  /\ pc' = "runAfter"
  /\ UNCHANGED <<rendering, onBefore, onAfter, firing, workTasks, awaited, workDone, task>>

\* Mutant of EndFinish: m_rendering is not reset.
EndFinishRendering ==
  /\ pc = "runAfter"
  /\ firing = <<>>
  /\ pc' = "idle"
  /\ UNCHANGED <<rendering, onBefore, onAfter, firing, workTasks, awaited, workDone, task,
                 handle>>

\* All continuations have run: FinishRenderingCurrentFrame returns.
EndFinish ==
  /\ pc = "runAfter"
  /\ firing = <<>>
  /\ rendering' = FALSE
  /\ pc' = "idle"
  /\ UNCHANGED <<onBefore, onAfter, firing, workTasks, awaited, workDone, task, handle>>

\* The steps of the rendering thread between two continuations, after Start.
RenderStep == \/ SwapBefore \/ CompleteBefore \/ EndStart
              \/ Finish \/ Collect \/ WorkComplete \/ Present
              \/ SwapAfter \/ CompleteAfter \/ EndFinish
=============================================================================
