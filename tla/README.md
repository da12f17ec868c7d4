# Verification of Babylon Native

Babylon Native runs Babylon.js, a JavaScript engine for 3D scenes, in native
applications. Native code owns the threads, the window, the device and the XR
session; JavaScript owns the scene. This directory holds TLA+ models of the parts
where the two meet on several threads, TLC configurations that check them on
small instances, and TLAPS proofs of what matters most about them.

    tlc -config WorkQueueSafety.cfg MCWorkQueue     model-check (same for the other runs)
    tlapm WorkQueueProofs.tla                       check the proofs

Paths below are relative to the root of the repository.

## 1. The system

A host (`Apps/*`) creates an `AppRuntime`, which starts the JavaScript thread and
publishes a `JsRuntime`. Every other component reaches JavaScript through
`JsRuntime::Dispatch` and is called by JavaScript through N-API objects.

    host thread ── Suspend/Resume/destroy ──> AppRuntime/WorkQueue ──> JavaScript thread
    host thread ── LoadScript/Eval ─────────> ScriptLoader ── Dispatch ──┘
    host thread ── PointerDown/Up/Move ─────> NativeInput ─── Dispatch ──┘
    rendering thread ── Start/Finish ───────> Graphics <── render work ── NativeEngine, NativeXr
    network threads ── answers ─────────────> ScriptLoader, XMLHttpRequest ── Dispatch ──┘

The rendering thread is the JavaScript thread itself with automatic rendering, and
a thread of the host's without it.

| Component | State | Operations | What is hard | What makes it correct |
|---|---|---|---|---|
| AppRuntime work queue (`Core/AppRuntime`) | the tail `m_task`, the dispatcher, `m_suspensionLock`, `m_cancelSource` | Append, Suspend, Resume, destructor, Run | appends from any thread, failure of a callable, destruction while suspended or asleep | one callable at a time, in order, at most once; a suspension suspends; destruction ends |
| JsRuntime (`Core/JsRuntime`) | the dispatch function and `m_mutex` | Dispatch | who may still dispatch when it is destroyed | what `DispatchContract` says |
| ScriptLoader (`Core/ScriptLoader`) | the tail `m_task` | LoadScript, Eval | requests that end in any order, on any thread; scripts that throw | evaluation in the order of the calls, each with its text |
| Graphics (`Core/Graphics`) | `m_rendering`, two completion sources, render work; the queue of screenshot callbacks | Start and Finish of a frame, AddRenderWorkTask, UpdateSize, screenshots | sources replaced and completed without a lock; work that fails; images matched with callbacks by order only | a started frame is finished, and presents what the callbacks drew; each callback gets its image |
| NativeEngine (`Plugins/NativeEngine`) | `m_isRenderScheduled`, the frame callback, textures, frame buffers, view ids | requestAnimationFrame, dispose, loadTexture, drawing | requests made while a frame is under way; view ids that are stale until the next bind; frames cut short; decodes that outlive their texture | every request is served, and once per frame unless threads race for the flag; what is drawn lands where it is meant to, in order |
| NativeXr (`Plugins/NativeXr`) | `m_session`, `m_frame`, `m_isFrameScheduled`, frame buffers, input sources | BeginSession, EndSession, DoFrame, BeginFrame, EndFrame | session ended by one thread, frames made by another | BeginFrame and EndFrame alternate, inside a session |
| NativeInput (`Plugins/NativeInput`) | the inputs of each device, weak tables of callbacks | PointerDown/Up/Move, pollInput, dispose | reports from another thread; callbacks in the middle of a handler | what JavaScript is told agrees with what the host reports |
| XMLHttpRequest (`Polyfills/XMLHttpRequest`), UrlLib (`Dependencies/UrlLib`) | ready state, listeners, the transfer | open, send, abort, the answer | abort against answer, failure and status by platform, retries, dispose, answers after destruction | one final state, told once, and true |
| Validation runner (`Apps/ValidationTests`) | the test, its retries and frames, `doExit`, `errorCode` | runTest, retry, evaluate, exit | lost answers, frames that throw, screenshots and exit on their way at once | no test is passed over as failed and returned as 0, but for three named cases; the runner ends |
| Window (`Polyfills/Window`) | nothing but the closures it dispatches | setTimeout, base64 | a timer waits by dispatching itself | timers are called, not too early, each once |
| the rest | see `PROJECT.json`, "components" | | | |

`PROJECT.json` also lists the hazards of this code, each at the line where it bites,
with the properties that cover it or the reason why none does.

## 2. The modules

### DispatchContract
What the components may rely on when they give a function to `Dispatch`: functions
run one at a time, in the order of the calls, each at most once, and one may be
discarded only when all before it are over. `WorkQueue` and `ScriptLoader` are both
shown to implement it, each with its own refinement mapping; `RenderLoop` and
`Input` stand on it by taking what is dispatched from a first-in-first-out queue.

### WorkQueue (WorkQueueProofs, MCWorkQueue)
`WorkQueue.h`, `WorkQueue.cpp` and the thread of `AppRuntime`.

* `AppendThen` and `AppendAssign` are the two halves of Append under
  `m_appendMutex`: make the callable a continuation of `m_task`, assign the
  continuation to `m_task`. The tail may complete between them.
* `Suspend` (with the AppendThen that follows it), `Resume`, `DestroyResume`,
  `DestroyCancel`, `DestroyWake` and `DestroyJoin` are the owner's calls, the last
  four in the order of the destructor.
* `JsCheck`, `JsBegin`, `JsSkip`, `JsIdle`, `JsWake`, `JsEnd`, `JsEndSuspension`,
  `JsClear`, `JsReset`, `JsDetach` are the loop of Run, with `blocking_tick` taken
  apart, and its end.
* `held` is the suspension whose mutex the owner has locked; the destructor resumes
  before anything else, so that it holds none from then on (`TypeOK`).
* `st[c]` is the state of the task of a callable, `pred[c]` the task it continues,
  `ticket[c]` (history) its place in the order of Append.

The tasks, dispatcher and cancellation are of the arcana library, which is a
submodule and not in the repository. The model keeps what this code uses of them:
a continuation goes to the dispatcher when its predecessor completes; it is skipped
and fails when the predecessor failed or the cancellation is requested; `clear`
drops what is queued. `std::mutex` and thread start and join are themselves.

A callable may append (through JavaScript), return or throw. Each callable is
appended at most once, so that its name is its identity.

### Graphics and RenderLoop (RenderLoopProofs)
`Graphics` is a frame of `Graphics::Impl` in its steps: `Start`, `SwapBefore`,
`CompleteBefore`, `EndStart`, `Finish`, `Collect`, `WorkComplete`, `Present`,
`SwapAfter`, `CompleteAfter`, `EndFinish`. `GetTask` and `AttachLater` are the two
halves of `GetBeforeRenderTask().then(...)`: between them the source may be swapped
out or completed (`handle.age`), since the code holds no lock over the two.

`RenderLoop` extends it with the two clients: `RequestAnimationFrame`,
`RafContinuation`, `BeginRaf`, `Dispose` of NativeEngine, and
`XrRequestAnimationFrame` (DoFrame), `XrContinuation` (BeginFrame), `JsXr`,
`EndFrame`, `SessionCreated`, `RequestEnd`, `JsEndSession` of NativeXr. Both modes
are in one model: `autoRender` is chosen at the start and never changes, as
`AutomaticRenderingEnabled` does. `xrFaults` collects the assertions of NativeXr.cpp
that fail, and a failed assertion stops the program.

Two native functions are taken apart, since without automatic rendering each of them
may run on the rendering thread while the JavaScript thread is in the other or in a
callback. ScheduleRender tests `m_isRenderScheduled` and sets it later, without a lock
(NativeEngine.cpp:536-538): `jsCall = "schedule"` or `renderCall = "schedule"` is the
time between, and `JsSet` and `RenderSet` are its end. `races` counts the times that one
thread passed the test while the other was past it. BeginFrame calls `bgfx::frame()`
itself (NativeXr.cpp:432): `"beginFrame"` is that call, and `JsXrWork` and `RenderXrWork`
are what the continuation does after it. `XRSession.end` and DoFrame ask only whether
JavaScript has an XRSession, so that a session may be ended twice and asked for frames
after its end.

### ScriptLoader (ScriptLoaderProofs)
`LoadScript`, `Eval`, `Answer` (the end of a request, on its own thread), and what
the JavaScript thread does with the callable: `JsEval`, `JsReturn`, `JsThrow`,
`JsSkip`. Continuations run where the last thing they wait for completes, which is
why every action that completes something ends in `Continue`. A request that fails
completes like one that succeeds: the continuation of `when_all` takes its argument
without looking at it, and an empty text is evaluated in its turn. A request is sent by
LoadScript itself, so that none is left unsent (`TypeOK`). `OtherThrow` is a
throw in a callable of another component, after which the work queue skips all.

### Input (InputProofs, InputHostProofs, MCInput)
The three calls of the host are queued with `Post`; a handler is the sequence of
its steps (`DownSteps`, `UpSteps`, `MoveSteps`), and each step an action:
`GetOrCreate` and `Resize` (GetOrCreateInputMap), `SetInput` (SetInputState),
`ReleaseDevice` (the loop of PointerUp and RemoveInputMap). A step that tells the
systems leaves `event` and `untold` behind, and the handler goes on when `Tell` has
been called for each of them; in between JavaScript may `Dispose` or throw
(`TellThrows`). `seen[s][p]` is what a client of the system concludes from its
callbacks; it is the list of devices of Babylon.js's DeviceSourceManager with the
buttons it was told of. `listed` are the systems whose client has a list of devices: the
first connected device gives it one, and `_removeDevice` throws for a client without one
(`CannotRemove`), as it does when the system was created while its only pointer was down;
`TellThrows` is then all that can happen. `host[p]` (history) is what the host has reported.

### FileRequest (FileRequestProofs)
How a loader of glTF files loads them and is disposed of: GLTFFileLoader over
`RequestFile` of Babylon.js over the XMLHttpRequest polyfill over UrlLib. A scene and the
engine keep and abort their requests by the same loop as the loader. One model holds the four implementations of UrlLib;
`platform` is chosen at the start and never changes.

* `RequestFile`: open and send; the loader remembers the request (`active`).
* `WindowsBegin`, `WindowsEnd`, `WindowsFail`, `AndroidBegin`, ..., `AppleFail` are the
  ends of a transfer on the threads of each platform, with the status each leaves
  behind. A task that fails is `Lose`: Send attaches no continuation for errors. On Unix
  `UnixEnd` completes whatever curl has finished, with a status for 200 (and 0 for local
  files) only; `UnixUnsent` is a request curl has no handle for, which never completes,
  and `UnixFail` the exception on curl's thread that ends the process.
* `Done` is the continuation of Send on the JavaScript thread with the listener of
  RequestFile (`Answer`): success, error, or a fresh request and a timer (`Again`), and
  `Retry` is that timer. It throws where `location` is read and nobody defines it.
* `Abort` of one request, `Dispose` of all; an abort throws after a retry because there
  is no `clearTimeout`, so that Dispose may end half-way. One that ends forgets all
  requests (`active`); the loader may request files after it, since nothing asks.
* `answer[r]` (history) is what became of the transfer, whatever was reported.

### FrameBuffers (FrameBuffersProofs)
`FrameBufferManager` of NativeEngine under the calls of Scene.render: which frame buffer
a view id stands for when bgfx comes to execute the frame. `SetUpView` is Bind and
SetViewPort (a new id for the frame buffer, with its clear flags), `Clear` and `Draw` use
the present id, `EndFrame` is Reset with the end of the frame, `Create` may come at any
time. The other actions are the calls of Scene.render, RenderTargetTexture.render and
_renderForCamera in their order (Scene is taken as third-party code: its actions are
external and say in which order it calls the engine), with what JavaScript believes next to what is native
(`current` and `cached`). `Catch` is an application that survives an exception at any
point of a frame, `Die` one that does not. `views` and `draws` are what bgfx has
collected of the frame; bgfx is external, and the model keeps two of its rules: views
are executed in the order of their ids, and the last frame buffer and flags set for a
view hold for all its draws.

### Validation (ValidationProofs)
The runner of the validation tests, from config.json to the exit code. JavaScript is in
one `phase` at a time (`ImageLoaded`, `SceneCreated`, `PlaygroundFailed`, `TimerFires`,
`SceneReady`, `Frame`, `FrameThrows`, `Compare`); `Done` is the callback of runTest, and
`Stick` stands for whatever never answers or throws where nothing catches it.
`verdict` (history) is what done was told of each test, `"retracted"` when it was told
of a failure and then of a success: the frame loop goes on after a frame that threw. `Evaluate`
and `ScreenShot` are the two ends of BgfxCallback: the queue of callbacks, the requests
bgfx has, and the images on their way to JavaScript. `ExitFlag` and `ExitCode` are the
two stores of TestUtils.exit, `HostStops`, `HostStopped`, `HostReturns` and `Close` the
loops of the Windows and the X11 host.

## 3. The runs

| Run | Instance | States | What it shows |
|---|---|---|---|
| WorkQueueSafety | 3 callables, 2 suspensions, 1 background thread | 262,705 | at most one task is scheduled (`OneScheduled`), suspensions hold and their mutex lives (`SuspensionHolds`, `SuspensionMutexAlive`), the queue implements the contract, destruction ends, nothing is forgotten |
| RenderLoop | 3 animation frame tasks, 2 XR tasks, 1 race, 1 session end on its way, both modes | 1,272,590 | no callback runs while Finish calls `bgfx::frame`, nor, with automatic rendering, while BeginFrame does; one callback per frame but for a race or a late continuation; the XR protocol with automatic rendering; frames finish, requests are served |
| ScriptLoader | 3 scripts, 2 sources | 80,476 | evaluation in order, with the text, nothing after a throw, everything in the end |
| Input | 2 pointers, 2 buttons, 2 positions, 2 systems, 1 waiting call | 5,013,537 | what systems are told makes sense, positions can be polled, all agree in the end |
| FileRequest | 4 platforms, 2 files, one of them local, 3 retries | 28,824 | a file is answered once and never after abort or dispose, with success only for content and error only without it (each with an exception named in the property), and is answered if the platform reports it at all |
| FrameBuffers | 2 cameras, 2 render targets, one of them a cube | 3,146,277 | draws land in the frame buffer they are meant for, in order, with the clear that was asked for; ids stay below the limit |
| Validation | 3 tests, 5 attempts, 3 frames, 2 hosts | 24,607 | screenshots find their callback and belong to its test; the process returns 0 only if the runner went through all tests and left none as failed, up to the three exceptions of `ExitTells`; the runner ends |
| NoTaskRace | 2 callables, 1 suspension, 1 thread | | violated, see findings |
| NeverSkipped | same | | violated |
| EndSessionBetweenFrames | as RenderLoop | | violated |
| XrOnRenderThread | as RenderLoop | | violated |
| BackgroundCleared | 2 cameras, 1 render target | | violated |

Why the bounds are enough. Every behaviour of the queue and of the loader is about a
task, its predecessor and its successor; three callables give a chain with a middle,
and the second suspension gives a Suspend while an earlier one is still in the chain
or held. The results that do not depend on fairness are proved for every number. In
RenderLoop a task object is reused as soon as its frame is over, and at most one
animation frame and one XR frame are on their way at a time with a second being asked
for, and a race for `m_isRenderScheduled` brings one animation frame more, so that three
and two of them never run out (`NewTask` would block, and the fairness properties would
fail). `MaxRaces` is 1: one race gives the two continuations, which then are on their way
like any other request; `MaxEnds` is 1 call of `XRSession.end` that waits its turn, with
as many after it as the application likes, and so a second EndSession. In Input the two buttons make the vector of a device grow
after its creation, the two positions differ in both coordinates so that a stale one
shows, two pointers and two systems interleave creation, removal and disposal, and
one waiting call next to the one being handled is the whole of the race between the
host and the handler, as handlers are serial. Input is checked modulo the symmetry of
pointers and of systems, which no definition tells apart; it has no liveness property.
The two runs of WorkQueue that look for a violation use symmetry of callables,
suspensions and threads in the same way. `DestroyJoin`, `Quiet`, `Hung` and `Aborted`
end in states that stutter explicitly, and deadlock is checked in the runs of these
modules.

In FileRequest requests share only `platform`, `location`, the process and the list of
the loader, so that two suffice for one to be in front of the other when dispose tears,
and for one to be made before a dispose and one after;
three retries are those of Babylon.js (RetryStrategy.ExponentialBackoff). In FrameBuffers
two cameras give a first and a last, two targets a switch from one to the other within a
camera, and a cube an exception in the middle. `MaxViews` is 20 and no more than needed:
with 19 TLC violates `ViewsInRange`. The bound is `MostIds` of FrameBuffersProofs: for T
targets, N of them no cubes, and C cameras, T + 4N + C(3N + 2) + 3, which is 19 here and
needs a cube of the last camera, so that TLC reaches exactly what is proved. bgfx has 256
views: with two cameras that is 24 plain targets. In Validation five attempts are `maxRetry` of the
runner, three frames give a first, a middle and a last, and three tests likewise. These
three systems really stop (every file is answered, nobody catches the exception, the
process has returned), so their runs say CHECK_DEADLOCK FALSE.

### Fairness
* `WorkQueue`: the JavaScript thread is scheduled and callables return; an Append
  that has begun ends; a Suspend goes on to its Append; a destructor that has begun
  goes on. These are steps of running threads that block only on what their guards
  say. Nobody has to call anything, Resume included: `EventuallySettled` has
  "suspensions are resumed again and again" as its premise.
* `RenderLoop`: the host goes on rendering (without it no frame is due), the
  rendering thread and native calls go on, JavaScript returns. `JsDispatched` is
  strongly fair: another callable of the application may always come first in the
  model, but the queue is first in, first out, so that each gets its turn. `JsReturn`
  is strongly fair because callbacks may call native functions first, finitely often.
* `ScriptLoader`: each request ends, well or badly, and the JavaScript thread runs.
* `FileRequest`: the network ends each transfer, and the JavaScript thread handles what
  is dispatched to it and its timers. Nobody has to request, abort or dispose.
  `RequestTold` claims no answer where the code gives none: on Windows and Android a
  transfer that fails is never reported, nor on Unix one that curl has no handle for.
* `Validation`: frames end, JavaScript's tasks and timers run, and the host gets the
  message or event that exit posts. A step of the host without one is not assumed (on
  X11 any event would do), and `Stick` is not fair but always possible, which is why
  `RunnerEnds` excepts `"stuck"`.
* `Input` and `FrameBuffers` have no fairness and claim no liveness.

### Findings
* `NoTaskRace`: after its loop Run assigns `m_task` without `m_appendMutex`
  (WorkQueue.cpp:48) while a background thread may be inside Append.
* `NeverSkipped`: one callable that throws makes every later one be skipped for
  ever, where Documentation/JsRuntime.md says that any function is executed.
* `EndSessionBetweenFrames`: without automatic rendering `XRSession.end` may run
  EndSession between BeginFrame and EndFrame; `assert(m_frame == nullptr)` fails.
* `XrOnRenderThread`: without automatic rendering the continuation of DoFrame can run
  on the JavaScript thread when the source completes between taking its task and
  attaching to it, contrary to the comment at NativeXr.cpp:251. The properties of
  RenderLoop that would suffer from such a late continuation except it by name (`late`).
* `BackgroundCleared`: NativeEngine::Clear sets the flags of the present view of the bound
  frame buffer, and Babylon.js clears the depth between two cameras before the second
  has taken a view of its own. The view of the first camera, the one that should clear
  the background, is left with the depth only. `ClearsAsAsked` therefore speaks of the
  last camera.

Met while modelling and excepted by name in the properties:

* On Unix status 0 stands for every failure, and RequestFile takes it for a success where
  the location is a file (`SuccessHasContent`). It also stands for the codes 201 to 299:
  the content is there, and after the last retry RequestFile calls onError
  (`ErrorMeansFailure`).
* Dispose of a loader one of whose files was tried again throws and leaves the files behind
  it alive, and remembered (`DisposedSilent`).
* Documentation/ContinuousIntegration.md:42 says that the test runner returns 0 for success
  and any other value for failure. It may return 0 after a failure was reported: when a
  frame threw and a later frame of the same test was validated, the exit(0) of the last
  test overwrites the -1, unless the host has stopped before (Win32, X11); and when an event
  wakes the host of X11 between the two stores of TestUtils.exit (`ExitTells`).
* Without automatic rendering an animation callback may draw while BeginFrame calls
  `bgfx::frame()` (`PresentExcludesCallbacks`), and two animation callbacks may be called in
  one frame after both threads have passed the test of `m_isRenderScheduled`
  (`OneCallbackPerFrame`). No request is lost by it (`RequestServed`).
* An application that calls `XRSession.end` twice fails an assertion of EndSession
  (`XrFrameProtocol`).
* A DeviceInputSystem created while a pointer is down makes the client throw when that
  pointer goes, and the work queue runs nothing any more (`EventsMakeSense`, `HostAgrees`).

## 4. The proofs

All proofs are for every value of the constants, under the modules' assumptions. Those of
WorkQueue and ScriptLoader are `ConstantsAssumption` (callables and suspensions are different things, None is none of
them, threads have different names) and `ScriptLoaderAssumption` (likewise). No
finiteness is assumed.

**WorkQueueProofs.** `TypeCorrect`, `OneScheduledHolds`, `SuspensionHoldsAlways`,
`SuspensionMutexStaysAlive` and `Implementation` (the queue implements
DispatchContract), all from the inductive invariant of `Invariance`:

* `TicketInv`: tickets number the appended callables, without gap or repetition;
* `LockInv`: the thread inside Append holds the mutex, with the last ticket;
* `TailInv`: `m_task` is the last task, or the one before it while Append is half done;
* `PredInv`: every task continues the one with the ticket before;
* `OrderInv`: a waiting task's predecessor is not complete, and whatever is past
  waiting has only complete tasks before it;
* `RanInv`: what ran did so after callables that all returned;
* `RunInv`, `CauseInv`, `HeldInv`: the JavaScript thread runs exactly `cur`; what was
  skipped or dropped has a cause; a held suspension has not run to its end.

None of the properties is inductive alone. `OneScheduled` needs `OrderInv`, which a
step of Append keeps only because `TailInv` says what the tail is, which needs `LockInv`
for the middle of Append; `PredInv` carries it from a task to all tasks before it. After
Run has reset `m_task` without the lock, `TailInv`, `PredInv` and `OrderInv` no longer
hold: they are stated for the time before (`InRun`), and the order of what has run,
which the contract is about, is kept in `RanInv`.

`NoneForgotten` is what `EventuallySettled` rests on besides scheduling: until the
dispatcher is cleared, a callable that waits has one before it that is queued or running.
Suppose not. Tickets have no gaps (`CountInv`) and what was put on the dispatcher is a
prefix of them (`PrefixInv`), so the first callable that was not has a predecessor that
was, and that is neither queued nor running; `DroppedInv` leaves only that it is
complete, which `OrderInv` excludes. `PrefixInv` is kept because `PredInv` makes the
callable that is released the next one.

**ScriptLoaderProofs.** `TypeCorrect`, `TextArrivedAlways`, `ThrowHaltsAlways` and
`Implementation`, from `TicketInv`, `ChainInv` (m_task is the last item and every item
continues the one before), `OrderInv` (what is dispatched has its text and only complete
items before it) and `OneInv` (one evaluation at a time). `StepProgress` says that an
item only moves forward, at once with everything that `Continue` releases;
`OrderInv` follows from it because a released item's predecessor is complete, and
everything before a complete item is. `NoneForgotten` is the same argument as for the
work queue: a chained item waits only while a request at or before it is pending, or an
item at or before it is dispatched or evaluating, unless something threw. `ReleasedInv`
says that `Continue` leaves no continuation behind that could run.

**FileRequestProofs.** `TypesHold`, `ContentHolds`, `ErrorHolds`, and the action
properties `AnsweredOnce` and `DisposedHolds`, under `RetriesAssumption`. The invariant
says what `status` and `answer` mean on each platform once a transfer is answered, that
who has been told is over, and that every request that is not aborted is in `active`
(`RememberedInv`), which is what makes a complete dispose reach all of them. `UnheardOnlyIfLost` lists, for
every platform, the ways in which a request ends and its client, who did not abort it, is
not told: broken on Windows, refused or broken on Android, no handle, or neither a status
nor a `location`, on Unix; with `RetriesAssumption` this holds through every retry. It needs
`CancelInv`: a transfer is cancelled only by abort.

**FrameBuffersProofs.** `TypesHold`, `DrawsLandHolds`, `OrderHolds`, `ClearsHold` and
`RangeHolds`, under `FrameBuffersAssumption`. The views of a frame have ids up to `nextId`,
draws ascend (`Ascending`), the views that targets are drawn to keep their clear
(`TargetsClear`); and, indexed by `pc`, at each stage of Scene.render it is known which
buffer is bound, whether its view was set up in this frame with its present clear
(`Fresh`), and whether what is drawn so far has at most its id (`Below`) or a smaller one
(`Clean`). The stale ids that Reset leaves behind are harmless because no stage that draws
is reached without a SetUpView since BeginFrame: that is the content of `StageInv`.
`RangeHolds` is for finitely many targets and `MostIds < MaxViews`. Its invariant,
`BudgetInv`, is an account of ids: at each stage what has been taken, the targets that
may yet be created and what the rest of the frame can take (`CustomRest`, `CameraRest`,
`TargetRest`, which count the plain targets still due) do not exceed `MostIds`. An
exception ends the frame and what it had left to take with it.

**ValidationProofs.** `TypesHold`, `CallbacksQueued`, `ShotsOfTheirTests` and
`ExitCodeTells`, under `ValidationAssumption`. `QueueInv` says where the one screenshot
of a test is (asked for, dispatched, or not yet) and that the queue of callbacks has
exactly that one; `EarlierPassed` that every test before the present one was validated
or skipped in the end, perhaps after a failure that it retracted; `ExitInv` relates
`exiting`, `errorCode` and `verdict`. `NeverWaitsForNothing` says of
each phase that waits for another party that what it waits for is coming: `QueueInv`
gives it for the screenshot, `FrameInv` for the render loop, and `OverInv` (a runner that
is over has called exit, and what is posted was flagged before) for the host.

**InputProofs, InputHostProofs.** `TypesHold`, `InputsStayInRange`, `PositionOfTheCall`,
`EventsAlwaysMakeSense`, `KnownDevicesPollable` and `HostAgreesHolds`, under `InputAssumption` and
`NothingAssumption` (Absent, Older and None are values of their own, buttons and
positions are naturals). `HandlerInv` lists the places of each of the three handlers by
what is left of it (`DownRest`, `UpRest`, `MoveRest`): how far the device has got there
and which event the systems may be hearing of. `PositionInv` says that only the device
whose first handler has not sized it yet lacks a position. `SeenInv` says that a live
system which is not still to be told believes what the device holds, or that the device
is older than itself (`Agree`), and one still to be told is as it was before the event
(`Before`); the event of a button is what lies between the two. Whatever JavaScript does
in the middle of a handler (`Tell`, `TellThrows`, `Dispose`) leaves `HandlerInv` alone
(`HandlerStays`).

`HostAgrees` speaks of a moment when no call waits, and is kept by no step before it. Its
invariant, `ReportInv`, says what the calls that wait will do, without folding them over
the devices: a button is down for the host exactly if the last waiting call about it is a
press, or no call is about it and it is down once the handler that runs is through
(`Future`); a device exists for the host exactly if the last waiting call about its
pointer is no release, or leaves a button down, or no call is about it and it stays when
the handler is through (`Stays`). A report changes the last call (`Appended`); the handler
that begins with a call decides what that call did (`Taken`); the steps of a handler
change neither `Future` nor `Stays` (`Kept`). `ButtonsInv` says that nothing but buttons
and the position is ever set, so that the loop of PointerUp finds a held button exactly
when there is one.

**RenderLoopProofs.** `TypesHold`, `PresentExcludes`, `OneCallback`, `XrProtocol`,
`RequestNotLost` and `WorkNotLost`, for any tasks and both modes of rendering, under
`RenderLoopAssumption` (the render work is NativeEngine's and NativeXr's, each has some, and
no task is named like something else that is dispatched). A request for a frame is a token: `Tokens(S)` says that a continuation of
S is in one place only, with the native call that will attach it, attached, or about to
run, and `RafInv` and `XrInv` that without its flag (`m_isRenderScheduled`,
`m_isFrameScheduled`) it is nowhere. The two halves of ScheduleRender make the time
between a place of its own (`jsCall`, `renderCall`), and `CallInv` says who can be there:
with automatic rendering never both threads, so that `races` stays 0. `RafInv` and
`CallsInv` are stated for the time before the first race. `CallsInv` then says that after the callback of a
frame no other request is on its way to be called in it. `WorkInv` relates the queue of
the JavaScript thread, the state of the tasks and the two sets the frame waits for, so
that at `present` no callback can be running; it also tells at which stages of the frame
a dispatched animation frame is found, which `CallsInv` needs. `FrameInv` says, with
automatic rendering, that `m_frame` is set exactly from BeginFrame to EndFrame (the
callback runs, or EndFrame is attached or about to run), and a session is being ended only
while it is active. `HandleInv` holds always and gives each continuation its source; the
others are stated for the time before a continuation came too late for its source (`late`).
`PresentExcludes` and `OneCallback` say what is left of them without automatic rendering,
with the race and the late continuation as their only exceptions.

The last two theorems are what `RequestServed` and `FrameFinishes` rest on besides
scheduling, and they look the other way: tokens do not get lost. `RequestKept` says that
with its flag set a request is somewhere (to be attached, attached, about to run or
dispatched), `FrameKept` that with automatic rendering a frame is dispatched, or about to
take the source, whenever an animation frame is attached, and that the JavaScript thread
stands still for the frame except in `runBefore`; `WorkKept` that all the frame waits for
has ended, runs or is in the queue. For an XR frame the theorem says where its continuation
is and no more: DoFrame attaches ScheduleRender to the after source, so the frame that
begins it is dispatched when another one ends.

Model-checked only: liveness (`DestructionEnds`, `EventuallySettled`, `FrameFinishes`,
`RequestServed`, `EventuallyEvaluated`, `RequestTold`, `RunnerEnds`), which this prover
does not do under fairness. For six of them the theorems `NoneForgotten` (twice),
`WorkNotLost`, `RequestNotLost`, `UnheardOnlyIfLost` and `NeverWaitsForNothing` prove the
part that is about states, for every value of the constants: whoever waits, waits for
something that has not yet happened and still can. That it then does happen, which is a
matter of scheduling, is what TLC checks, and so is all of `DestructionEnds`.

## 5. What is left out

* The construction of AppRuntime (Run dereferences `m_workQueue` while the constructor
  may still be assigning it) and the JavaScript engines behind `AppRuntimeV8.cpp` and
  the like.
* Of Graphics: initialisation and UpdateSize. Of NativeEngine: buffers, programs and
  states, which hand data on to bgfx, and textures, whose one question (is the texture
  still there when the image is decoded?) no guard of the code answers. Of NativeXr: frame
  buffers, input sources, hit tests, anchors and features, which copy what the XR system
  reports.
* In RenderLoop the race for `m_isRenderScheduled` is one of two threads at two steps;
  what a C++ compiler may make of a data race on it is not modelled. The callable of the
  work queue is taken in order but failures of unrelated callables are left to WorkQueue.
* In Input JavaScript creates a system only between handlers: whether `insert` may be
  called during `apply_to_all` is a matter of arcana's weak table. A collected system
  is the same as a disposed one.
* In FileRequest a request has the one listener of RequestFile; the life time of the
  runtime, URL schemes and the content are left out. The timer of setTimeout fires later
  and once; that a timer waits by dispatching itself, and may fire at once, is not
  modelled.
* In FrameBuffers: rig cameras, camera render targets, post processes, several scenes,
  deletion, sizes, XR; a scene that clears nothing at all. What a view keeps from earlier
  frames is forgotten at the end of the frame, which is the stricter choice.
* In Validation: tests that name a scene folder or a script, and tests that are skipped
  (config.json lists playgrounds only); the host of macOS, where exit does nothing.
* Shader compiler, N-API adapters, Android wrappers, console: sequential or adapters of
  libraries outside the repository. `Apps/BabylonScripts` is third-party: of its 170,000
  lines the models take the few that decide what is asked of the native components.

## 6. The order, and what could follow

The modules were written in this order: DispatchContract, WorkQueue and its proofs,
Graphics, RenderLoop, ScriptLoader and its proofs, Input, FileRequest, FrameBuffers and
Validation with theirs, and last the proofs of RenderLoop.

What would add most from here:

1. UpdateSize as an action of Graphics;
2. the start-up phase of AppRuntime before WorkQueue's Init, and requests that outlive
   the runtime;
3. DeleteFrameBuffer and textures that are deleted while they load.
