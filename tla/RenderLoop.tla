----------------------------- MODULE RenderLoop -----------------------------
(***************************************************************************)
(* The two clients of Graphics::Impl that draw: the animation frames of    *)
(* NativeEngine (Plugins/NativeEngine/Source/NativeEngine.cpp:507-594) and *)
(* the XR frames of NativeXr (Plugins/NativeXr/Source/NativeXr.cpp).       *)
(*                                                                         *)
(* With automatic rendering the JavaScript thread is the rendering thread: *)
(* ScheduleRender dispatches RenderCurrentFrame.  Without it the embedding *)
(* application calls Start and Finish on a thread of its own, and the      *)
(* callbacks are render work that is dispatched to the JavaScript thread.  *)
(*                                                                         *)
(* The JavaScript thread runs what was dispatched to it in order, one      *)
(* after the other (module DispatchContract).                              *)
(*                                                                         *)
(* Two native functions take more than one step, since without automatic   *)
(* rendering the other thread may come between: ScheduleRender, which      *)
(* tests m_isRenderScheduled and then sets it, without a lock, and         *)
(* BeginFrame, which calls bgfx::frame() itself (NativeXr.cpp:432).        *)
(***************************************************************************)
EXTENDS Graphics, FiniteSets

CONSTANTS RafTasks, XrTasks,    \* render work made by NativeEngine and NativeXr
          MaxRaces,             \* bound: threads that race for m_isRenderScheduled
          MaxEnds               \* bound: calls of XRSession.end that wait their turn

ASSUME RenderLoopAssumption ==
          /\ Tasks = RafTasks \cup XrTasks
          /\ RafTasks \cap XrTasks = {}
          /\ BeforeConts = {"raf", "xr"}
          /\ AfterConts = {"schedule", "endFrame"}
          /\ NoCont \notin Conts
          /\ RafTasks # {} /\ XrTasks # {}
          /\ Tasks \cap {"idle", "app", "render", "endSession"} = {}
          /\ MaxRaces \in Nat /\ MaxEnds \in Nat

VARIABLES
  autoRender,       \* AutomaticRenderingEnabled
  renderScheduled,  \* m_isRenderScheduled
  rafPending,       \* m_requestAnimationFrameCallback is set
  disposed,         \* NativeEngine's m_cancelSource is cancelled
  session,          \* m_session
  xrScheduled,      \* m_isFrameScheduled
  frame,            \* m_frame is set
  jsQueue,          \* what is dispatched to the JavaScript thread
  js,               \* the JavaScript code that runs: none, a callable, a callback
  todo,             \* the continuations its native call has yet to attach
  jsCall,           \* the native function the JavaScript thread is in the middle of
  renderCall,       \* the one a continuation on the rendering thread is in the middle of
  races,            \* history: ScheduleRender passed its test on both threads before
                    \*          either had set m_isRenderScheduled
  calls,            \* history: animation callbacks called since Start
  late,             \* history: a continuation was attached to a completed source
  xrFaults          \* history: the assertions about m_session and m_frame that failed

engineVars == <<renderScheduled, rafPending, disposed>>
xrVars     == <<session, xrScheduled, frame, xrFaults>>
jsVars     == <<jsQueue, js, todo>>
callVars   == <<jsCall, renderCall, races>>
histVars   == <<calls, late>>
vars == <<frameVars, task, handle, autoRender, engineVars, xrVars, jsVars, callVars, histVars>>

Init ==
  /\ GraphicsInit
  /\ autoRender \in BOOLEAN
  /\ renderScheduled = FALSE /\ rafPending = FALSE /\ disposed = FALSE
  /\ session = "none" /\ xrScheduled = FALSE /\ frame = FALSE /\ xrFaults = {}
  /\ jsQueue = <<>> /\ js = "idle" /\ todo = <<>>
  /\ jsCall = "none" /\ renderCall = "none" /\ races = 0
  /\ calls = 0 /\ late = FALSE

\* make_task: a task that is not in use.
IsFree(t)  == task[t] = "free"
NewTask(S) == CHOOSE t \in S : (\E u \in S : IsFree(u)) => IsFree(t)

\* The name of an assertion that does not hold.
Failing(name, holds) == IF holds THEN {} ELSE {name}

\* An assertion that fails aborts the program.
Alive == xrFaults = {}
----------------------------------------------------------------------------
\* Mutant of BeginRaf: m_isRenderScheduled is not reset.
BeginRafScheduled(t) ==
  /\ rafPending' = FALSE
  /\ UNCHANGED renderScheduled
  /\ IF rafPending
     THEN js' = t /\ task' = [task EXCEPT ![t] = "running"] /\ calls' = calls + 1
     ELSE task' = [task EXCEPT ![t] = "done"] /\ UNCHANGED <<js, calls>>

(* The lambda of GetRequestAnimationFrameTask, on the JavaScript thread:     *)
(* the callback is cleared, then called if there was one.                    *)
BeginRaf(t) ==
  /\ renderScheduled' = FALSE
  /\ rafPending' = FALSE
  /\ IF rafPending
     THEN js' = t /\ task' = [task EXCEPT ![t] = "running"] /\ calls' = calls + 1
     ELSE task' = [task EXCEPT ![t] = "done"] /\ UNCHANGED <<js, calls>>

(* The continuation that ScheduleRender attaches to the before source: the   *)
(* animation frame becomes render work, run at once with automatic rendering *)
(* and dispatched to the JavaScript thread without.                          *)
RafContinuation ==
  /\ IF disposed
     THEN UNCHANGED <<task, jsQueue, workTasks, renderScheduled, rafPending, js, calls>>
     ELSE LET t == NewTask(RafTasks) IN
            /\ IsFree(t)
            /\ IF autoRender
               THEN /\ BeginRaf(t)
                    /\ workTasks' = IF rafPending THEN workTasks ELSE workTasks \cup {t}
                    /\ UNCHANGED jsQueue
               ELSE /\ task' = [task EXCEPT ![t] = "queued"]
                    /\ jsQueue' = Append(jsQueue, t)
                    /\ workTasks' = workTasks \cup {t}
                    /\ UNCHANGED <<renderScheduled, rafPending, js, calls>>
  /\ UNCHANGED <<disposed, xrVars>>

\* Mutant of XrContinuation: no early out when there is no session.
XrContinuationAlways ==
  /\ xrScheduled' = FALSE
  /\ xrFaults' = xrFaults \cup Failing("BeginFrame: m_frame == nullptr", ~frame)
  /\ frame' = TRUE
  /\ UNCHANGED <<engineVars, session, task, workTasks, jsQueue, js, calls>>

(* The continuation that DoFrame attaches to the before source: it is in     *)
(* BeginFrame next, if there is a session.                                   *)
XrContinuation ==
  /\ xrScheduled' = FALSE
  /\ IF session # "active"
     THEN UNCHANGED <<frame, xrFaults>>
     ELSE /\ xrFaults' = xrFaults \cup Failing("BeginFrame: m_frame == nullptr", ~frame)
          /\ frame' = TRUE
  /\ UNCHANGED <<engineVars, session, task, workTasks, jsQueue, js, calls>>

(* BeginFrame returns, and the XR callback becomes render work.  EndFrame is *)
(* attached to the after source by the caller of this operator.              *)
XrWork ==
  /\ LET t == NewTask(XrTasks) IN
       /\ IsFree(t)
       /\ IF autoRender
          THEN /\ task' = [task EXCEPT ![t] = "running"]
               /\ js' = t
               /\ UNCHANGED <<jsQueue, workTasks>>
          ELSE /\ task' = [task EXCEPT ![t] = "queued"]
               /\ jsQueue' = Append(jsQueue, t)
               /\ workTasks' = workTasks \cup {t}
               /\ UNCHANGED js
  /\ UNCHANGED <<engineVars, xrVars, calls>>

\* NativeXr::EndFrame, the continuation attached to the after source.
EndFrame ==
  /\ xrFaults' = xrFaults
       \cup Failing("EndFrame: m_session != nullptr", session = "active")
       \cup Failing("EndFrame: m_frame != nullptr", frame)
  /\ frame' = FALSE
  /\ UNCHANGED <<session, xrScheduled, engineVars, task, workTasks, jsQueue, js, calls>>

(* ScheduleRender tests m_isRenderScheduled and goes on only if it is unset. *)
(* A thread that does so while the other is past its own test has raced it.  *)
CountRace(other) ==
  /\ races' = IF ~renderScheduled /\ other = "schedule" THEN races + 1 ELSE races
  /\ races' <= MaxRaces
----------------------------------------------------------------------------
\* The rendering thread may go on: it is not inside a callback or a native function.
RenderThreadFree == Alive /\ (autoRender => js = "idle") /\ renderCall = "none"

\* The embedding application renders a frame (without automatic rendering).
EmbedderStart ==
  /\ Alive
  /\ ~autoRender
  /\ Start
  /\ calls' = 0
  /\ UNCHANGED <<autoRender, engineVars, xrVars, jsVars, callVars, late>>

Render ==
  /\ RenderThreadFree
  /\ RenderStep
  /\ UNCHANGED <<autoRender, engineVars, xrVars, jsVars, callVars, histVars>>

\* complete() runs the continuations of the source, one after the other.
RunContinuation ==
  /\ RenderThreadFree
  /\ pc \in {"runBefore", "runAfter"}
  /\ firing # <<>>
  /\ firing' = Tail(firing)
  /\ LET c == Head(firing) IN
     \/ /\ c = "raf" /\ RafContinuation
        /\ UNCHANGED <<renderCall, races>>
     \/ /\ c = "xr" /\ XrContinuation
        /\ renderCall' = IF session = "active" THEN "beginFrame" ELSE "none"
        /\ UNCHANGED races
     \/ /\ c = "endFrame" /\ EndFrame
        /\ UNCHANGED <<renderCall, races>>
     \/ /\ c = "schedule"           \* DoFrame's call of ScheduleRender
        /\ renderCall' = IF renderScheduled THEN "none" ELSE "schedule"
        /\ CountRace(jsCall)
        /\ UNCHANGED <<engineVars, xrVars, task, workTasks, jsQueue, js, calls>>
  /\ UNCHANGED <<rendering, pc, onBefore, onAfter, awaited, workDone, handle, autoRender, todo,
                 jsCall, late>>

(* The rest of ScheduleRender on the rendering thread, which alone replaces  *)
(* the sources: its continuation goes to the current one.                    *)
RenderSet ==
  /\ Alive
  /\ renderCall = "schedule"
  /\ renderCall' = "none"
  /\ renderScheduled' = TRUE
  /\ onBefore' = Append(onBefore, "raf")
  /\ jsQueue' = IF autoRender THEN Append(jsQueue, "render") ELSE jsQueue
  /\ UNCHANGED <<rendering, pc, onAfter, firing, workTasks, awaited, workDone, task, handle,
                 autoRender, rafPending, disposed, xrVars, js, todo, jsCall, races, histVars>>

\* The rest of DoFrame's continuation on the rendering thread, after BeginFrame.
RenderXrWork ==
  /\ Alive
  /\ renderCall = "beginFrame"
  /\ renderCall' = "none"
  /\ XrWork
  /\ onAfter' = IF autoRender THEN onAfter ELSE Append(onAfter, "endFrame")
  /\ UNCHANGED <<rendering, pc, onBefore, firing, awaited, workDone, handle, autoRender, todo,
                 jsCall, races, late>>
----------------------------------------------------------------------------
\* The JavaScript thread is between two dispatched callables.
JsFree == Alive /\ js = "idle" /\ (autoRender => pc = "idle")

\* JavaScript code runs and its native calls have returned.
InJs == Alive /\ js # "idle" /\ jsCall = "none" /\ todo = <<>> /\ handle = NoHandle

\* A callable with application code in it.
AppCode ==
  /\ JsFree
  /\ js' = "app"
  /\ UNCHANGED <<frameVars, task, handle, autoRender, engineVars, xrVars, jsQueue, todo,
                 callVars, histVars>>

AppReturn ==
  /\ InJs
  /\ js = "app"
  /\ js' = "idle"
  /\ UNCHANGED <<frameVars, task, handle, autoRender, engineVars, xrVars, jsQueue, todo,
                 callVars, histVars>>

\* NativeEngine::RequestAnimationFrame: keep the callback, ScheduleRender.
RequestAnimationFrame ==
  /\ InJs
  /\ rafPending' = TRUE
  /\ jsCall' = IF renderScheduled THEN "none" ELSE "schedule"
  /\ CountRace(renderCall)
  /\ UNCHANGED <<frameVars, task, handle, autoRender, renderScheduled, disposed, xrVars, jsVars,
                 renderCall, histVars>>

(* XRSession::RequestAnimationFrame: DoFrame.  JavaScript has the XRSession  *)
(* from its creation on, and keeps it when the session is over.              *)
XrRequestAnimationFrame ==
  /\ InJs
  /\ session # "none"
  /\ ~xrScheduled
  /\ xrScheduled' = TRUE
  /\ todo' = <<"schedule", "xr">>
  /\ UNCHANGED <<frameVars, task, handle, autoRender, engineVars, session, frame,
                 xrFaults, jsQueue, js, callVars, histVars>>

\* BeginSession's continuation sets m_session.
SessionCreated ==
  /\ Alive
  /\ session = "none"
  /\ session' = "active"
  /\ UNCHANGED <<frameVars, task, handle, autoRender, engineVars, xrScheduled, frame,
                 xrFaults, jsVars, callVars, histVars>>

\* XRSession::End dispatches EndSession, however often it is called.
RequestEnd ==
  /\ InJs
  /\ session # "none"
  /\ Cardinality({i \in DOMAIN jsQueue : jsQueue[i] = "endSession"}) < MaxEnds
  /\ jsQueue' = Append(jsQueue, "endSession")
  /\ UNCHANGED <<frameVars, task, handle, autoRender, engineVars, xrVars, js, todo, callVars,
                 histVars>>

Dispose ==
  /\ InJs
  /\ ~disposed
  /\ disposed' = TRUE
  /\ UNCHANGED <<frameVars, task, handle, autoRender, renderScheduled, rafPending,
                 xrVars, jsVars, callVars, histVars>>

\* The rest of ScheduleRender in a native call: its continuation is attached next.
JsSet ==
  /\ Alive
  /\ jsCall = "schedule"
  /\ jsCall' = "none"
  /\ renderScheduled' = TRUE
  /\ todo' = <<"raf">> \o todo
  /\ UNCHANGED <<frameVars, task, handle, autoRender, rafPending, disposed, xrVars, jsQueue, js,
                 renderCall, races, histVars>>

\* A native call takes the task of the source it attaches to ...
JsGetTask ==
  /\ Alive
  /\ jsCall = "none"
  /\ todo # <<>>
  /\ handle = NoHandle
  /\ GetTask(Head(todo))
  /\ UNCHANGED <<frameVars, task, autoRender, engineVars, xrVars, jsVars, callVars, histVars>>

\* ... and attaches its continuation; ScheduleRender then dispatches the frame.
JsAttach ==
  /\ Alive
  /\ AttachLater
  /\ handle' = NoHandle
  /\ todo' = Tail(todo)
  /\ jsQueue' = IF handle.cont = "raf" /\ autoRender
                THEN Append(jsQueue, "render") ELSE jsQueue
  /\ UNCHANGED <<rendering, pc, workTasks, awaited, workDone, task, autoRender,
                 engineVars, xrVars, js, callVars, histVars>>

\* The source is complete already: the continuation runs here.
JsRunInline ==
  /\ Alive
  /\ handle.age = "completed"
  /\ handle' = NoHandle
  /\ late' = TRUE
  /\ todo' = Tail(todo)
  /\ LET c == handle.cont IN
     \/ /\ c = "raf" /\ RafContinuation
        /\ UNCHANGED <<jsCall, races>>
     \/ /\ c = "xr" /\ XrContinuation
        /\ jsCall' = IF session = "active" THEN "beginFrame" ELSE "none"
        /\ UNCHANGED races
     \/ /\ c = "endFrame" /\ EndFrame
        /\ UNCHANGED <<jsCall, races>>
     \/ /\ c = "schedule"
        /\ jsCall' = IF renderScheduled THEN "none" ELSE "schedule"
        /\ CountRace(renderCall)
        /\ UNCHANGED <<engineVars, xrVars, task, workTasks, jsQueue, js, calls>>
  /\ UNCHANGED <<rendering, pc, onBefore, onAfter, firing, awaited, workDone, autoRender,
                 renderCall>>

\* The rest of DoFrame's continuation in a native call, after BeginFrame.
JsXrWork ==
  /\ Alive
  /\ jsCall = "beginFrame"
  /\ jsCall' = "none"
  /\ XrWork
  /\ todo' = <<"endFrame">> \o todo
  /\ UNCHANGED <<rendering, pc, onBefore, onAfter, firing, awaited, workDone, handle, autoRender,
                 renderCall, races, late>>
----------------------------------------------------------------------------
Dispatched(x) == JsFree /\ jsQueue # <<>> /\ Head(jsQueue) = x /\ jsQueue' = Tail(jsQueue)

\* RenderCurrentFrame, dispatched by ScheduleRender with automatic rendering.
JsRender ==
  /\ Dispatched("render")
  /\ Start
  /\ calls' = 0
  /\ UNCHANGED <<autoRender, engineVars, xrVars, js, todo, callVars, late>>

\* The animation frame as render work; a cancelled task does not run its lambda.
JsRaf(t) ==
  /\ Dispatched(t)
  /\ IF disposed
     THEN /\ task' = [task EXCEPT ![t] = "failed"]
          /\ UNCHANGED <<renderScheduled, rafPending, js, calls>>
     ELSE BeginRaf(t)
  /\ UNCHANGED <<frameVars, handle, autoRender, disposed, xrVars, todo, callVars, late>>

\* The XR frame as render work: callback(*m_frame).
JsXr(t) ==
  /\ Dispatched(t)
  /\ js' = t
  /\ task' = [task EXCEPT ![t] = "running"]
  /\ xrFaults' = xrFaults \cup Failing("callback: *m_frame", frame)
  /\ UNCHANGED <<frameVars, handle, autoRender, engineVars, session, xrScheduled, frame,
                 todo, callVars, histVars>>

\* The lambda of XRSession::End: EndSession, then the listeners of "end".
JsEndSession ==
  /\ Dispatched("endSession")
  /\ xrFaults' = xrFaults \cup Failing("EndSession: m_session != nullptr", session = "active")
                         \cup Failing("EndSession: m_frame == nullptr", ~frame)
  /\ session' = "ended"
  /\ frame' = FALSE
  /\ js' = "app"
  /\ UNCHANGED <<frameVars, task, handle, autoRender, engineVars, xrScheduled, todo,
                 callVars, histVars>>

(* A callback returns and its task is done.  With automatic rendering only   *)
(* now AddRenderWorkTask gets the task, and the XR continuation goes on to   *)
(* attach EndFrame.  The lambda of the animation frame catches what its      *)
(* callback throws; the lambda of the XR frame does not, and its task fails. *)
EndCallback(t) ==
  /\ InJs
  /\ js = t
  /\ js' = "idle"
  /\ \/ task' = [task EXCEPT ![t] = "done"]
     \/ t \in XrTasks /\ task' = [task EXCEPT ![t] = "failed"]
  /\ workTasks' = IF autoRender THEN workTasks \cup {t} ELSE workTasks
  /\ onAfter' = IF autoRender /\ t \in XrTasks THEN Append(onAfter, "endFrame") ELSE onAfter
  /\ UNCHANGED <<rendering, pc, onBefore, firing, awaited, workDone, handle, autoRender,
                 engineVars, xrVars, jsQueue, todo, callVars, histVars>>
----------------------------------------------------------------------------
JsDispatched == \/ JsRender \/ JsEndSession
                \/ \E t \in RafTasks : JsRaf(t)
                \/ \E t \in XrTasks : JsXr(t)
JsNative     == JsSet \/ JsGetTask \/ JsAttach \/ JsRunInline \/ JsXrWork
Continuation == RunContinuation \/ RenderSet \/ RenderXrWork
JsReturn     == AppReturn \/ \E t \in Tasks : EndCallback(t)
Application  == \/ AppCode \/ RequestAnimationFrame \/ XrRequestAnimationFrame
                \/ SessionCreated \/ RequestEnd \/ Dispose

\* Finish goes on calling blocking_tick when a task of the frame has failed.
Hung == /\ pc = "wait"
        /\ \E t \in awaited : task[t] = "failed"
        /\ UNCHANGED vars

Aborted == ~Alive /\ UNCHANGED vars

Next == \/ EmbedderStart \/ Render \/ Continuation
        \/ JsDispatched \/ JsNative \/ JsReturn \/ Application
        \/ Hung \/ Aborted

Spec == Init /\ [][Next]_vars

(* The embedding application keeps rendering, threads are scheduled, and     *)
(* JavaScript code returns.  What is dispatched gets its turn however much   *)
(* other application code is dispatched: the queue is first in, first out.   *)
Fairness == /\ WF_vars(EmbedderStart) /\ WF_vars(Render) /\ WF_vars(Continuation)
            /\ SF_vars(JsDispatched) /\ WF_vars(JsNative) /\ SF_vars(JsReturn)

FairSpec == Spec /\ Fairness
----------------------------------------------------------------------------
TypeOK ==
  /\ GraphicsTypeOK
  /\ {autoRender, renderScheduled, rafPending, disposed, xrScheduled, frame, late}
       \subseteq BOOLEAN
  /\ session \in {"none", "active", "ended"}
  /\ jsQueue \in Seq(Tasks \cup {"render", "endSession"})
  /\ js \in Tasks \cup {"idle", "app"}
  /\ todo \in Seq(Conts)
  /\ {jsCall, renderCall} \subseteq {"none", "schedule", "beginFrame"}
  /\ calls \in Nat
  /\ races \in 0 .. MaxRaces

(* bgfx::frame() submits what the callbacks drew: no callback runs while     *)
(* Finish calls it, in either mode, nor while BeginFrame calls it with       *)
(* automatic rendering, unless a continuation came too late for its source   *)
(* (Graphics.cpp:41-95, NativeEngine.cpp:534-557).  Without automatic        *)
(* rendering nothing keeps the callbacks of a frame from running while       *)
(* BeginFrame calls bgfx::frame() (NativeXr.cpp:432).                        *)
PresentExcludesCallbacks ==
  ~late => /\ pc = "present" => js \notin Tasks
           /\ autoRender /\ renderCall = "beginFrame" => js \notin Tasks

(* An animation callback is called at most once per frame, also when it asks *)
(* for the next frame while this one is rendered, unless a continuation came *)
(* too late for its source or both threads passed the test of                *)
(* m_isRenderScheduled before either had set it (NativeEngine.cpp:510-594).  *)
(* With automatic rendering neither can happen.                              *)
OneCallbackPerFrame ==
  /\ calls <= 1 \/ late \/ races > 0
  /\ autoRender => ~late /\ races = 0

(* With automatic rendering every assertion about m_session and m_frame      *)
(* holds, whenever the session is created and ended, but for the one in      *)
(* EndSession that an application runs into that ends its session twice      *)
(* (NativeXr.cpp:236-471, 2114-2131).                                        *)
XrFrameProtocol == autoRender => xrFaults \subseteq {"EndSession: m_session != nullptr"}

(* "we are guaranteed to be on the render thread" (NativeXr.cpp:251): the    *)
(* JavaScript thread of an application that renders on a thread of its own   *)
(* never comes to run the XR frame's continuation itself.                    *)
XrOnRenderThread == ~autoRender => ~(handle.cont = "xr" /\ handle.age = "completed")

(* "assert(m_frame == nullptr)" (NativeXr.cpp:365): a session is ended       *)
(* between frames.                                                           *)
EndSessionBetweenFrames == "EndSession: m_frame == nullptr" \notin xrFaults

\* A task of the render work failed, or an assertion did.
Broken == ~Alive \/ \E t \in Tasks : task[t] = "failed"

(* A frame that was started is finished, unless a task of its work failed    *)
(* (Graphics.cpp:28-95).                                                     *)
FrameFinishes == rendering ~> (~rendering \/ Broken)

(* A requested animation frame is called: the handshake on                   *)
(* m_isRenderScheduled loses no request, also when the rendering thread runs *)
(* ScheduleRender between its test and its set (NativeEngine.cpp:534-557).   *)
RequestServed ==
  rafPending ~> (~rafPending \/ disposed \/ Broken)
=============================================================================
