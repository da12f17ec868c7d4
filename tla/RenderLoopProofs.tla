--------------------------- MODULE RenderLoopProofs ---------------------------
(***************************************************************************)
(* Proofs about RenderLoop, for any tasks and in both modes of rendering.  *)
(* Everything that has to happen once is a token: a "raf" or "xr"          *)
(* continuation is in the hands of a native call, attached to the source,  *)
(* or about to run, and nowhere twice.  The invariant says where a token   *)
(* may be at each stage of the frame, and what work the frame waits for.   *)
(* Two threads that race for m_isRenderScheduled make two tokens of one    *)
(* request; what is said of the work, of the XR frames and of requests     *)
(* that must not get lost holds then as well.                              *)
(***************************************************************************)
EXTENDS RenderLoop, TLAPS

\* An element of S is in q, and only one.
Has(q, S)  == \E i \in DOMAIN q : q[i] \in S
Once(q, S) == \A i, j \in DOMAIN q : q[i] \in S /\ q[j] \in S => i = j

Raf    == {"raf"}
Xr     == {"xr"}
End    == {"endFrame"}

(* A native call holds the task of a source only for what it has to attach   *)
(* next, and only while JavaScript runs.                                     *)
HandleInv ==
  /\ todo # <<>> => js # "idle"
  /\ handle = NoHandle \/ (todo # <<>> /\ handle.cont = Head(todo) /\ handle.age # "none")
  /\ handle.age = "swapped" =>
       \/ handle.cont \in BeforeConts /\ pc = "completeBefore"
       \/ handle.cont \in AfterConts  /\ pc = "completeAfter"
  /\ autoRender => ~late /\ handle.age \notin {"swapped", "completed"}

(* A thread is in the middle of a native function only where it calls one:   *)
(* a native call of JavaScript, or a continuation of its source.             *)
CallInv ==
  /\ jsCall # "none" => js # "idle" /\ handle = NoHandle
  /\ jsCall # "none" => late \/ (jsCall = "schedule" /\ todo = <<>>)
  /\ renderCall = "schedule" => pc = "runAfter"
  /\ renderCall = "beginFrame" => pc = "runBefore"
  /\ autoRender => races = 0 /\ (renderCall # "none" => js = "idle")

\* Which continuations are about to run.
FiringInv ==
  /\ pc \in {"completeBefore", "runBefore"} => firing \in Seq(BeforeConts)
  /\ pc \in {"completeAfter", "runAfter"}   => firing \in Seq(AfterConts)
  /\ firing # <<>> => pc \in {"completeBefore", "runBefore", "completeAfter", "runAfter"}

\* The work of the frame: what is dispatched or runs is waited for.
WorkInv ==
  /\ workTasks # {} => pc \in {"runBefore", "started", "collect", "wait"}
  /\ awaited # {} => pc = "wait"
  /\ autoRender =>
       /\ ~Has(jsQueue, Tasks)
       /\ js \in Tasks => pc = "runBefore"
  /\ ~autoRender =>
       /\ \A t \in Tasks : task[t] \in {"queued", "running"} => t \in workTasks \cup awaited
       /\ \A t \in Tasks : Once(jsQueue, {t}) /\ (Has(jsQueue, {t}) => task[t] = "queued")
       /\ js \in Tasks => task[js] = "running"

\* A continuation of S is in one place at most, and there once: yet to be attached,
\* attached, or about to run.
Tokens(S) ==
  /\ Once(todo, S) /\ Once(onBefore, S) /\ Once(firing, S)
  /\ Has(todo, S) => ~Has(onBefore, S) /\ ~Has(firing, S)
  /\ Has(onBefore, S) => ~Has(firing, S)

\* ... or nowhere.
Spare(S) == ~Has(todo, S) /\ ~Has(onBefore, S) /\ ~Has(firing, S)

(* The request for an animation frame is in one place, and                   *)
(* m_isRenderScheduled set, or about to be by one thread.                    *)
RafInv ==
  /\ Tokens(Raf) /\ Once(jsQueue, RafTasks)
  /\ Has(jsQueue, RafTasks) => Spare(Raf)
  /\ ~renderScheduled => Spare(Raf) /\ ~Has(jsQueue, RafTasks)
  /\ jsCall = "schedule" => ~renderScheduled /\ renderCall # "schedule"
  /\ renderCall = "schedule" => ~renderScheduled

\* A callback has been called in this frame: no other is on its way to it.
CallsInv ==
  /\ calls <= 1
  /\ calls = 1 => /\ ~Has(firing, Raf) /\ ~Has(jsQueue, RafTasks)
                  /\ pc \notin {"swapBefore", "completeBefore"}

\* The request for an XR frame is in one place, and m_isFrameScheduled set.
XrInv == Tokens(Xr) /\ (~xrScheduled => Spare(Xr))

\* The XR frame between BeginFrame and EndFrame, with automatic rendering.
FrameOK ==
  /\ xrFaults \subseteq {"EndSession: m_session != nullptr"}
  /\ frame <=> \/ renderCall = "beginFrame" \/ js \in XrTasks
               \/ Has(onAfter, End) \/ Has(firing, End)
  /\ frame => session = "active" /\ ~Has(firing, Xr)
  /\ renderCall = "beginFrame" \/ js \in XrTasks => ~Has(onAfter, End) /\ ~Has(firing, End)
  /\ Has(onAfter, End) =>
       /\ pc \in {"runBefore", "started", "collect", "wait", "present", "swapAfter"}
       /\ ~Has(firing, End)
  /\ Once(onAfter, End) /\ Once(firing, End)
  /\ ~Has(todo, End)

FrameInv == autoRender => FrameOK

IInv == /\ TypeOK /\ HandleInv /\ CallInv /\ FiringInv
        /\ ~late => WorkInv /\ XrInv /\ FrameInv
        /\ ~late /\ races = 0 => RafInv /\ CallsInv
----------------------------------------------------------------------------
(* Sequences.                                                              *)

LEMMA EmptyFacts == ASSUME NEW S PROVE ~Has(<< >>, S) /\ Once(<< >>, S)
BY DEF Has, Once

LEMMA AppendFacts ==
  ASSUME NEW T, NEW q \in Seq(T), NEW x, NEW S
  PROVE  /\ Has(Append(q, x), S) <=> Has(q, S) \/ x \in S
         /\ Once(q, S) /\ (x \notin S \/ ~Has(q, S)) => Once(Append(q, x), S)
<1> DEFINE r == Append(q, x)
<1>1. /\ DOMAIN r = 1 .. Len(q) + 1 /\ DOMAIN q = 1 .. Len(q) /\ Len(q) \in Nat
      /\ r[Len(q) + 1] = x /\ \A i \in 1 .. Len(q) : r[i] = q[i]
  OBVIOUS
<1>2. Has(r, S) <=> Has(q, S) \/ x \in S
  <2>1. ASSUME Has(q, S) \/ x \in S PROVE Has(r, S)
    BY <1>1, <2>1 DEF Has
  <2>2. ASSUME Has(r, S), x \notin S PROVE Has(q, S)
    BY <1>1, <2>2 DEF Has
  <2> QED BY <2>1, <2>2
<1>3. ASSUME Once(q, S), x \notin S \/ ~Has(q, S) PROVE Once(r, S)
  <2> SUFFICES ASSUME NEW i \in DOMAIN r, NEW j \in DOMAIN r, r[i] \in S, r[j] \in S
               PROVE  i = j
    BY DEF Once
  <2>1. CASE i \in DOMAIN q /\ j \in DOMAIN q
    BY <1>1, <1>3, <2>1 DEF Once
  <2>2. CASE i \notin DOMAIN q \/ j \notin DOMAIN q
    BY <1>1, <1>3, <2>2 DEF Has
  <2> QED BY <2>1, <2>2
<1> QED BY <1>2, <1>3

\* A sequence that grows, if at all, by what is not in S.
LEMMA GrowFacts ==
  ASSUME NEW T, NEW q \in Seq(T), NEW x, NEW r, r = q \/ r = Append(q, x), NEW S, x \notin S
  PROVE  /\ Has(r, S) <=> Has(q, S)
         /\ Once(q, S) => Once(r, S)
<1>1. /\ Has(Append(q, x), S) <=> Has(q, S) \/ x \in S
      /\ Once(q, S) /\ (x \notin S \/ ~Has(q, S)) => Once(Append(q, x), S)
  BY AppendFacts
<1>2. CASE r = q
  BY <1>2
<1>3. CASE r = Append(q, x)
  BY <1>1, <1>3
<1> QED BY <1>2, <1>3

LEMMA TailFacts ==
  ASSUME NEW T, NEW q \in Seq(T), q # << >>, NEW S
  PROVE  /\ Head(q) \in T /\ Tail(q) \in Seq(T)
         /\ Head(q) \in S => Has(q, S)
         /\ Has(Tail(q), S) => Has(q, S)
         /\ Once(q, S) => Once(Tail(q), S)
         /\ Once(q, S) /\ Head(q) \in S => ~Has(Tail(q), S)
<1> DEFINE r == Tail(q)
<1>1. /\ Len(q) \in Nat /\ Len(q) > 0 /\ DOMAIN q = 1 .. Len(q) /\ DOMAIN r = 1 .. Len(q) - 1
      /\ Head(q) = q[1] /\ \A i \in DOMAIN r : r[i] = q[i + 1] /\ i + 1 \in DOMAIN q
      /\ 1 \in DOMAIN q /\ DOMAIN r \subseteq Nat \ {0}
      /\ Head(q) \in T /\ r \in Seq(T)
  OBVIOUS
<1>2. /\ Head(q) \in S => Has(q, S)
      /\ Has(r, S) => Has(q, S)
  BY <1>1 DEF Has
<1>3. ASSUME Once(q, S) PROVE Once(r, S)
  <2> SUFFICES ASSUME NEW i \in DOMAIN r, NEW j \in DOMAIN r, r[i] \in S, r[j] \in S
               PROVE  i = j
    BY DEF Once
  <2>1. i + 1 = j + 1
    BY <1>1, <1>3 DEF Once
  <2> QED BY <1>1, <2>1
<1>4. ASSUME Once(q, S), Head(q) \in S, Has(r, S) PROVE FALSE
  <2>1. PICK i \in DOMAIN r : r[i] \in S
    BY <1>4 DEF Has
  <2>2. i + 1 = 1
    BY <1>1, <1>4, <2>1 DEF Once
  <2> QED BY <1>1, <2>1, <2>2
<1> QED BY <1>1, <1>2, <1>3, <1>4

LEMMA ShortFacts ==
  ASSUME NEW x, NEW y, NEW S
  PROVE  /\ Has(<<x>>, S) <=> x \in S
         /\ Once(<<x>>, S)
         /\ Has(<<x, y>>, S) <=> x \in S \/ y \in S
         /\ x \notin S \/ y \notin S => Once(<<x, y>>, S)
<1>1. /\ DOMAIN <<x>> = {1} /\ <<x>>[1] = x
      /\ DOMAIN <<x, y>> = {1, 2} /\ <<x, y>>[1] = x /\ <<x, y>>[2] = y
  OBVIOUS
<1>2. Has(<<x>>, S) <=> x \in S
  BY <1>1 DEF Has
<1>3. Once(<<x>>, S)
  BY <1>1 DEF Once
<1>4. Has(<<x, y>>, S) <=> x \in S \/ y \in S
  BY <1>1 DEF Has
<1>5. x \notin S \/ y \notin S => Once(<<x, y>>, S)
  BY <1>1 DEF Once
<1> QED BY <1>2, <1>3, <1>4, <1>5

\* A sequence over one set has nothing of another.
LEMMA OtherFacts ==
  ASSUME NEW T, NEW q \in Seq(T), NEW S, T \cap S = {}
  PROVE  ~Has(q, S)
BY DEF Has

\* The continuations are four, two for each source.
LEMMA ContFacts ==
  /\ BeforeConts = {"raf", "xr"} /\ AfterConts = {"schedule", "endFrame"}
  /\ Conts = {"raf", "xr", "schedule", "endFrame"}
  /\ NoCont \notin Conts
BY RenderLoopAssumption DEF Conts

\* A task that make_task makes is one of its kind.
LEMMA NewTaskFacts ==
  /\ NewTask(RafTasks) \in RafTasks /\ NewTask(XrTasks) \in XrTasks
  /\ RafTasks \subseteq Tasks /\ XrTasks \subseteq Tasks
  /\ RafTasks \cap XrTasks = {}
  /\ Tasks \cap {"idle", "app", "render", "endSession"} = {}
<1>1. /\ RafTasks # {} /\ XrTasks # {} /\ Tasks = RafTasks \cup XrTasks
      /\ RafTasks \cap XrTasks = {} /\ Tasks \cap {"idle", "app", "render", "endSession"} = {}
  BY RenderLoopAssumption
<1>2. ASSUME NEW S, S # {} PROVE NewTask(S) \in S
  <2>1. \E t \in S : (\E u \in S : IsFree(u)) => IsFree(t)
    <3>1. CASE \E u \in S : IsFree(u)
      BY <3>1
    <3>2. CASE ~ \E u \in S : IsFree(u)
      BY <1>2, <3>2
    <3> QED BY <3>1, <3>2
  <2> QED BY <2>1 DEF NewTask
<1> QED BY <1>1, <1>2
----------------------------------------------------------------------------
(* The types.                                                              *)

LEMMA AgeType ==
  ASSUME TypeOK, NEW cs, NEW from, NEW to \in Ages, AgeHandle(cs, from, to)
  PROVE  handle' \in [cont : Conts \cup {NoCont}, age : Ages]
BY DEF TypeOK, GraphicsTypeOK, AgeHandle

LEMMA RenderTypes == ASSUME TypeOK, FiringInv, Render PROVE TypeOK'
<1> USE DEF TypeOK, GraphicsTypeOK
<1>1. UNCHANGED <<autoRender, engineVars, xrVars, jsVars, callVars, histVars>>
  BY DEF Render
<1>2. /\ UNCHANGED <<autoRender, renderScheduled, rafPending, disposed>>
      /\ UNCHANGED <<session, xrScheduled, frame, xrFaults, jsQueue, js, todo, calls, late>>
      /\ UNCHANGED <<jsCall, renderCall, races>>
  BY <1>1 DEF engineVars, xrVars, jsVars, callVars, histVars
<1>3. {"none", "current", "swapped", "completed"} = Ages
  BY DEF Ages
<1>4. onBefore \in Seq(Conts) /\ onAfter \in Seq(Conts) /\ << >> \in Seq(BeforeConts)
      /\ << >> \in Seq(AfterConts)
  BY ContFacts
<1>5. CASE SwapBefore
  <2>1. handle' \in [cont : Conts \cup {NoCont}, age : Ages]
    BY <1>3, <1>5, AgeType DEF SwapBefore
  <2> QED BY <1>2, <1>4, <1>5, <2>1 DEF SwapBefore
<1>6. CASE CompleteBefore
  <2>1. handle' \in [cont : Conts \cup {NoCont}, age : Ages]
    BY <1>3, <1>6, AgeType DEF CompleteBefore
  <2> QED BY <1>2, <1>6, <2>1 DEF CompleteBefore
<1>7. CASE EndStart
  BY <1>2, <1>7 DEF EndStart
<1>8. CASE Finish
  BY <1>2, <1>8 DEF Finish
<1>9. CASE Collect
  BY <1>2, <1>9 DEF Collect
<1>10. CASE WorkComplete
  BY <1>2, <1>10 DEF WorkComplete, TaskStates
<1>11. CASE Present
  BY <1>2, <1>11 DEF Present
<1>12. CASE SwapAfter
  <2>1. handle' \in [cont : Conts \cup {NoCont}, age : Ages]
    BY <1>3, <1>12, AgeType DEF SwapAfter
  <2> QED BY <1>2, <1>4, <1>12, <2>1 DEF SwapAfter
<1>13. CASE CompleteAfter
  <2>1. handle' \in [cont : Conts \cup {NoCont}, age : Ages]
    BY <1>3, <1>13, AgeType DEF CompleteAfter
  <2> QED BY <1>2, <1>13, <2>1 DEF CompleteAfter
<1>14. CASE EndFinish
  BY <1>2, <1>14 DEF EndFinish
<1> QED BY <1>5, <1>6, <1>7, <1>8, <1>9, <1>10, <1>11, <1>12, <1>13, <1>14
        DEF Render, RenderStep

\* The variables that a continuation may change.
ContTypeOK ==
  /\ workTasks \subseteq Tasks /\ task \in [Tasks -> TaskStates]
  /\ {renderScheduled, rafPending, disposed, xrScheduled, frame} \subseteq BOOLEAN
  /\ session \in {"none", "active", "ended"}
  /\ jsQueue \in Seq(Tasks \cup {"render", "endSession"})
  /\ js \in Tasks \cup {"idle", "app"}
  /\ calls \in Nat

LEMMA BeginRafTypes ==
  ASSUME ContTypeOK, NEW t \in RafTasks, BeginRaf(t)
  PROVE  /\ task' \in [Tasks -> TaskStates] /\ {renderScheduled', rafPending'} \subseteq BOOLEAN
         /\ js' \in Tasks \cup {"idle", "app"} /\ calls' \in Nat
<1>1. t \in Tasks /\ {"running", "done"} \subseteq TaskStates
  BY NewTaskFacts DEF TaskStates
<1>2. renderScheduled' = FALSE /\ rafPending' = FALSE
  BY DEF BeginRaf
<1>3. CASE rafPending
  <2>1. js' = t /\ task' = [task EXCEPT ![t] = "running"] /\ calls' = calls + 1
    BY <1>3 DEF BeginRaf
  <2>2. task' \in [Tasks -> TaskStates] /\ calls' \in Nat
    BY <1>1, <2>1 DEF ContTypeOK
  <2> QED BY <1>1, <1>2, <2>1, <2>2
<1>4. CASE ~rafPending
  BY <1>1, <1>2, <1>4 DEF BeginRaf, ContTypeOK
<1> QED BY <1>3, <1>4

LEMMA RafTypes == ASSUME ContTypeOK, RafContinuation PROVE ContTypeOK'
<1> DEFINE t == NewTask(RafTasks)
<1>1. t \in RafTasks /\ RafTasks \subseteq Tasks
  BY NewTaskFacts
<1>2. UNCHANGED <<disposed, session, xrScheduled, frame>>
  BY DEF RafContinuation, xrVars
<1>3. CASE disposed
  BY <1>2, <1>3 DEF RafContinuation, ContTypeOK
<1>4. CASE ~disposed /\ autoRender
  <2>1. BeginRaf(t) /\ workTasks' \subseteq Tasks /\ jsQueue' = jsQueue
    BY <1>1, <1>4 DEF RafContinuation, ContTypeOK
  <2> QED BY <1>1, <1>2, <2>1, BeginRafTypes DEF ContTypeOK
<1>5. CASE ~disposed /\ ~autoRender
  <2>1. /\ task' = [task EXCEPT ![t] = "queued"] /\ jsQueue' = Append(jsQueue, t)
        /\ workTasks' = workTasks \cup {t}
        /\ UNCHANGED <<renderScheduled, rafPending, js, calls>>
    BY <1>5 DEF RafContinuation
  <2> QED BY <1>1, <1>2, <2>1 DEF ContTypeOK, TaskStates
<1> QED BY <1>3, <1>4, <1>5

LEMMA XrTypes == ASSUME ContTypeOK, XrContinuation PROVE ContTypeOK'
<1>1. /\ UNCHANGED <<renderScheduled, rafPending, disposed, session, calls>> /\ xrScheduled' = FALSE
      /\ UNCHANGED <<task, workTasks, jsQueue, js>>
  BY DEF XrContinuation, engineVars
<1>2. frame' \in {frame, TRUE}
  BY DEF XrContinuation
<1> QED BY <1>1, <1>2 DEF ContTypeOK

LEMMA XrWorkTypes == ASSUME ContTypeOK, XrWork PROVE ContTypeOK'
<1> DEFINE t == NewTask(XrTasks)
<1>1. t \in XrTasks /\ XrTasks \subseteq Tasks
  BY NewTaskFacts
<1>2. UNCHANGED <<renderScheduled, rafPending, disposed, session, calls, xrScheduled, frame>>
  BY DEF XrWork, engineVars, xrVars
<1>3. CASE autoRender
  BY <1>1, <1>2, <1>3 DEF XrWork, ContTypeOK, TaskStates
<1>4. CASE ~autoRender
  <2>1. /\ task' = [task EXCEPT ![t] = "queued"] /\ jsQueue' = Append(jsQueue, t)
        /\ workTasks' = workTasks \cup {t} /\ js' = js
    BY <1>4 DEF XrWork
  <2>2. task' \in [Tasks -> TaskStates]
    BY <1>1, <2>1 DEF ContTypeOK, TaskStates
  <2>3. jsQueue' \in Seq(Tasks \cup {"render", "endSession"}) /\ workTasks' \subseteq Tasks
    BY <1>1, <2>1 DEF ContTypeOK
  <2> QED BY <1>2, <2>1, <2>2, <2>3 DEF ContTypeOK
<1> QED BY <1>3, <1>4

LEMMA EndTypes == ASSUME ContTypeOK, EndFrame PROVE ContTypeOK'
BY DEF EndFrame, ContTypeOK, engineVars

\* The functions that a thread may be in the middle of.
Natives == {"none", "schedule", "beginFrame"}

LEMMA RaceTypes ==
  ASSUME races \in 0 .. MaxRaces, NEW other, CountRace(other)
  PROVE  races' \in 0 .. MaxRaces
BY RenderLoopAssumption DEF CountRace

LEMMA RunTypes == ASSUME TypeOK, RunContinuation PROVE TypeOK'
<1>1. /\ ContTypeOK /\ firing \in Seq(Conts)
      /\ {jsCall, renderCall} \subseteq Natives /\ races \in 0 .. MaxRaces
  BY DEF TypeOK, GraphicsTypeOK, ContTypeOK, Natives
<1>2. /\ firing' \in Seq(Conts)
      /\ UNCHANGED <<rendering, pc, onBefore, onAfter, awaited, workDone, handle, autoRender,
                     todo, jsCall, late>>
  BY <1>1 DEF RunContinuation
<1>3. ContTypeOK' /\ renderCall' \in Natives /\ races' \in 0 .. MaxRaces
  <2>1. CASE RafContinuation /\ UNCHANGED <<renderCall, races>>
    BY <1>1, <2>1, RafTypes
  <2>2. CASE /\ XrContinuation /\ UNCHANGED races
             /\ renderCall' = IF session = "active" THEN "beginFrame" ELSE "none"
    BY <1>1, <2>2, XrTypes DEF Natives
  <2>3. CASE EndFrame /\ UNCHANGED <<renderCall, races>>
    BY <1>1, <2>3, EndTypes
  <2>4. CASE /\ renderCall' = (IF renderScheduled THEN "none" ELSE "schedule")
             /\ CountRace(jsCall)
             /\ UNCHANGED <<engineVars, xrVars, task, workTasks, jsQueue, js, calls>>
    BY <1>1, <1>2, <2>4, RaceTypes DEF ContTypeOK, xrVars, engineVars, Natives
  <2> QED BY <2>1, <2>2, <2>3, <2>4 DEF RunContinuation
<1> QED BY <1>1, <1>2, <1>3 DEF TypeOK, GraphicsTypeOK, ContTypeOK, Natives

LEMMA RestTypes == ASSUME TypeOK, RenderSet \/ RenderXrWork PROVE TypeOK'
<1>1. /\ ContTypeOK /\ onBefore \in Seq(BeforeConts) /\ onAfter \in Seq(AfterConts)
      /\ jsQueue \in Seq(Tasks \cup {"render", "endSession"})
  BY DEF TypeOK, GraphicsTypeOK, ContTypeOK
<1>2. /\ Append(onBefore, "raf") \in Seq(BeforeConts)
      /\ Append(onAfter, "endFrame") \in Seq(AfterConts)
      /\ Append(jsQueue, "render") \in Seq(Tasks \cup {"render", "endSession"})
  BY <1>1, ContFacts
<1>3. CASE RenderSet
  <2>1. /\ renderCall' = "none" /\ renderScheduled' = TRUE /\ onBefore' = Append(onBefore, "raf")
        /\ jsQueue' = IF autoRender THEN Append(jsQueue, "render") ELSE jsQueue
        /\ UNCHANGED <<rendering, pc, onAfter, firing, workTasks, awaited, workDone, task, handle,
                       autoRender, rafPending, disposed, xrVars, js, todo, jsCall, races, histVars>>
    BY <1>3 DEF RenderSet
  <2> QED BY <1>1, <1>2, <2>1 DEF TypeOK, GraphicsTypeOK, xrVars, histVars
<1>4. CASE RenderXrWork
  <2>1. /\ renderCall' = "none" /\ onAfter' \in Seq(AfterConts)
        /\ UNCHANGED <<rendering, pc, onBefore, firing, awaited, workDone, handle, autoRender, todo,
                       jsCall, races, late>>
    BY <1>1, <1>2, <1>4 DEF RenderXrWork
  <2>2. ContTypeOK'
    BY <1>1, <1>4, XrWorkTypes DEF RenderXrWork
  <2> QED BY <2>1, <2>2 DEF TypeOK, GraphicsTypeOK, ContTypeOK
<1> QED BY <1>3, <1>4

LEMMA InlineTypes == ASSUME TypeOK, HandleInv, JsRunInline PROVE TypeOK'
<1>1. /\ ContTypeOK /\ todo \in Seq(Conts) /\ handle.age = "completed"
      /\ {jsCall, renderCall} \subseteq Natives /\ races \in 0 .. MaxRaces
  BY DEF TypeOK, GraphicsTypeOK, ContTypeOK, JsRunInline, Natives
<1>2. todo # << >> /\ Tail(todo) \in Seq(Conts)
  BY <1>1 DEF HandleInv, NoHandle
<1>3. /\ handle' = NoHandle /\ late' = TRUE /\ todo' = Tail(todo)
      /\ UNCHANGED <<rendering, pc, onBefore, onAfter, firing, awaited, workDone, autoRender,
                     renderCall>>
  BY DEF JsRunInline
<1>4. NoHandle \in [cont : Conts \cup {NoCont}, age : Ages]
  BY DEF NoHandle, Ages
<1>5. ContTypeOK' /\ jsCall' \in Natives /\ races' \in 0 .. MaxRaces
  <2>1. CASE RafContinuation /\ UNCHANGED <<jsCall, races>>
    BY <1>1, <2>1, RafTypes
  <2>2. CASE /\ XrContinuation /\ UNCHANGED races
             /\ jsCall' = IF session = "active" THEN "beginFrame" ELSE "none"
    BY <1>1, <2>2, XrTypes DEF Natives
  <2>3. CASE EndFrame /\ UNCHANGED <<jsCall, races>>
    BY <1>1, <2>3, EndTypes
  <2>4. CASE /\ jsCall' = (IF renderScheduled THEN "none" ELSE "schedule")
             /\ CountRace(renderCall)
             /\ UNCHANGED <<engineVars, xrVars, task, workTasks, jsQueue, js, calls>>
    BY <1>1, <2>4, RaceTypes DEF ContTypeOK, xrVars, engineVars, Natives
  <2> QED BY <2>1, <2>2, <2>3, <2>4 DEF JsRunInline
<1> QED BY <1>1, <1>2, <1>3, <1>4, <1>5 DEF TypeOK, GraphicsTypeOK, ContTypeOK, Natives

LEMMA JsRestTypes == ASSUME TypeOK, JsSet \/ JsXrWork PROVE TypeOK'
<1>1. /\ ContTypeOK /\ todo \in Seq(Conts)
  BY DEF TypeOK, GraphicsTypeOK, ContTypeOK
<1>2. <<"raf">> \o todo \in Seq(Conts) /\ <<"endFrame">> \o todo \in Seq(Conts)
  BY <1>1, ContFacts
<1>3. CASE JsSet
  BY <1>2, <1>3 DEF JsSet, TypeOK, GraphicsTypeOK, frameVars, xrVars, histVars
<1>4. CASE JsXrWork
  <2>1. /\ jsCall' = "none" /\ todo' \in Seq(Conts)
        /\ UNCHANGED <<rendering, pc, onBefore, onAfter, firing, awaited, workDone, handle,
                       autoRender, renderCall, races, late>>
    BY <1>2, <1>4 DEF JsXrWork
  <2>2. ContTypeOK'
    BY <1>1, <1>4, XrWorkTypes DEF JsXrWork
  <2> QED BY <2>1, <2>2 DEF TypeOK, GraphicsTypeOK, ContTypeOK
<1> QED BY <1>3, <1>4

LEMMA DispatchTypes == ASSUME TypeOK, JsDispatched PROVE TypeOK'
<1>1. ContTypeOK
  BY DEF TypeOK, GraphicsTypeOK, ContTypeOK
<1>2. jsQueue' \in Seq(Tasks \cup {"render", "endSession"})
  <2>1. jsQueue # << >> /\ jsQueue' = Tail(jsQueue)
    BY DEF JsDispatched, JsRender, JsEndSession, JsRaf, JsXr, Dispatched
  <2> QED BY <1>1, <2>1 DEF ContTypeOK
<1>3. CASE JsRender
  BY <1>2, <1>3 DEF JsRender, Start, TypeOK, GraphicsTypeOK, engineVars, xrVars, callVars
<1>4. CASE JsEndSession
  BY <1>2, <1>4 DEF JsEndSession, TypeOK, GraphicsTypeOK, engineVars, frameVars, callVars,
                     histVars
<1>5. ASSUME NEW t \in RafTasks, JsRaf(t) PROVE TypeOK'
  <2>1. UNCHANGED <<frameVars, handle, autoRender, disposed, xrVars, todo, callVars, late>>
    BY <1>5 DEF JsRaf
  <2>2. /\ task' \in [Tasks -> TaskStates] /\ {renderScheduled', rafPending'} \subseteq BOOLEAN
        /\ js' \in Tasks \cup {"idle", "app"} /\ calls' \in Nat
    <3>1. CASE disposed
      BY <1>1, <1>5, <3>1 DEF JsRaf, ContTypeOK, TaskStates
    <3>2. CASE ~disposed
      BY <1>1, <1>5, <3>2, BeginRafTypes DEF JsRaf
    <3> QED BY <3>1, <3>2
  <2> QED BY <1>2, <2>1, <2>2 DEF TypeOK, GraphicsTypeOK, frameVars, xrVars, callVars
<1>6. ASSUME NEW t \in XrTasks, JsXr(t) PROVE TypeOK'
  <2>1. /\ t \in Tasks /\ js' = t /\ task' = [task EXCEPT ![t] = "running"]
        /\ UNCHANGED <<frameVars, handle, autoRender, engineVars, session, xrScheduled, frame,
                       todo, callVars, histVars>>
    BY <1>6, NewTaskFacts DEF JsXr
  <2>2. task' \in [Tasks -> TaskStates]
    BY <1>1, <2>1 DEF ContTypeOK, TaskStates
  <2> QED BY <1>2, <2>1, <2>2 DEF TypeOK, GraphicsTypeOK, frameVars, engineVars, callVars, histVars
<1> QED BY <1>3, <1>4, <1>5, <1>6 DEF JsDispatched

LEMMA OtherTypes ==
  ASSUME TypeOK, HandleInv,
         EmbedderStart \/ JsGetTask \/ JsAttach \/ JsReturn \/ Application \/ UNCHANGED vars
  PROVE  TypeOK'
<1> USE DEF TypeOK, GraphicsTypeOK
<1>1. CASE EmbedderStart
  BY <1>1 DEF EmbedderStart, Start, engineVars, xrVars, jsVars, callVars
<1>2. CASE JsGetTask
  <2>1. handle' \in [cont : Conts \cup {NoCont}, age : Ages]
    BY <1>2 DEF JsGetTask, GetTask, Ages
  <2> QED BY <1>2, <2>1 DEF JsGetTask, frameVars, engineVars, xrVars, jsVars, callVars, histVars
<1>3. CASE JsAttach
  <2>1. /\ handle' = NoHandle /\ todo' = Tail(todo) /\ todo # << >> /\ handle.cont = Head(todo)
        /\ jsQueue' = IF handle.cont = "raf" /\ autoRender
                      THEN Append(jsQueue, "render") ELSE jsQueue
        /\ UNCHANGED <<rendering, pc, workTasks, awaited, workDone, task, autoRender,
                       engineVars, xrVars, js, callVars, histVars>>
    BY <1>3 DEF JsAttach, AttachLater, HandleInv, NoHandle
  <2>2. handle.cont \in BeforeConts \cup AfterConts
    BY <2>1 DEF Conts
  <2>3. /\ firing' \in Seq(Conts) /\ onBefore' \in Seq(BeforeConts) /\ onAfter' \in Seq(AfterConts)
    <3>1. \/ firing' = Append(firing, handle.cont) /\ UNCHANGED <<onBefore, onAfter>>
          \/ /\ handle.cont \in BeforeConts
             /\ onBefore' = Append(onBefore, handle.cont) /\ UNCHANGED <<firing, onAfter>>
          \/ /\ handle.cont \in AfterConts
             /\ onAfter' = Append(onAfter, handle.cont) /\ UNCHANGED <<firing, onBefore>>
      BY <1>3, <2>2 DEF JsAttach, AttachLater
    <3>2. handle.cont \in Conts
      BY <2>2 DEF Conts
    <3>3. CASE firing' = Append(firing, handle.cont) /\ UNCHANGED <<onBefore, onAfter>>
      BY <3>2, <3>3
    <3>4. CASE /\ handle.cont \in BeforeConts
               /\ onBefore' = Append(onBefore, handle.cont) /\ UNCHANGED <<firing, onAfter>>
      BY <3>4
    <3>5. CASE /\ handle.cont \in AfterConts
               /\ onAfter' = Append(onAfter, handle.cont) /\ UNCHANGED <<firing, onBefore>>
      BY <3>5
    <3> QED BY <3>1, <3>3, <3>4, <3>5
  <2>4. NoHandle \in [cont : Conts \cup {NoCont}, age : Ages]
    BY DEF NoHandle, Ages
  <2> QED BY <2>1, <2>3, <2>4 DEF engineVars, xrVars, callVars, histVars
<1>4. CASE JsReturn
  <2>1. CASE AppReturn
    BY <2>1 DEF AppReturn, frameVars, engineVars, xrVars, callVars, histVars
  <2>2. ASSUME NEW t \in Tasks, EndCallback(t) PROVE TypeOK'
    <3>1. /\ task' \in [Tasks -> TaskStates] /\ workTasks' \subseteq Tasks
      BY <2>2 DEF EndCallback, TaskStates
    <3>2. onAfter' \in Seq(AfterConts)
      BY <2>2, ContFacts DEF EndCallback
    <3>3. /\ js' = "idle"
          /\ UNCHANGED <<rendering, pc, onBefore, firing, awaited, workDone, handle, autoRender,
                         engineVars, xrVars, jsQueue, todo, callVars, histVars>>
      BY <2>2 DEF EndCallback
    <3> QED BY <3>1, <3>2, <3>3 DEF engineVars, xrVars, callVars, histVars
  <2> QED BY <1>4, <2>1, <2>2 DEF JsReturn
<1>5. CASE Application
  <2>1. <<"schedule", "xr">> \in Seq(Conts)
    BY ContFacts
  <2>2. CASE AppCode
    BY <2>2 DEF AppCode, frameVars, engineVars, xrVars, callVars, histVars
  <2>3. CASE RequestAnimationFrame
    <3>1. races' \in 0 .. MaxRaces
      BY <2>3, RaceTypes DEF RequestAnimationFrame
    <3> QED BY <2>3, <3>1 DEF RequestAnimationFrame, frameVars, xrVars, jsVars, histVars
  <2>4. CASE XrRequestAnimationFrame
    BY <2>1, <2>4 DEF XrRequestAnimationFrame, frameVars, engineVars, callVars, histVars
  <2>5. CASE SessionCreated
    BY <2>5 DEF SessionCreated, frameVars, engineVars, jsVars, callVars, histVars
  <2>6. CASE RequestEnd
    BY <2>6 DEF RequestEnd, frameVars, engineVars, xrVars, callVars, histVars
  <2>7. CASE Dispose
    BY <2>7 DEF Dispose, frameVars, xrVars, jsVars, callVars, histVars
  <2> QED BY <1>5, <2>2, <2>3, <2>4, <2>5, <2>6, <2>7 DEF Application
<1>6. CASE UNCHANGED vars
  BY <1>6 DEF vars, frameVars, engineVars, xrVars, jsVars, callVars, histVars
<1> QED BY <1>1, <1>2, <1>3, <1>4, <1>5, <1>6
----------------------------------------------------------------------------
(* The native calls and what is about to run.                              *)

LEMMA NoHandleFacts == NoHandle.age = "none" /\ NoHandle.cont = NoCont
BY DEF NoHandle

LEMMA AgeFacts ==
  ASSUME HandleInv, NEW cs, NEW from \in {"current", "swapped"}, NEW to \in {"swapped", "completed"},
         AgeHandle(cs, from, to), autoRender => handle = NoHandle,
         handle \in [cont : Conts \cup {NoCont}, age : Ages]
  PROVE  /\ handle'.cont = handle.cont
         /\ handle = NoHandle => handle' = NoHandle
         /\ handle # NoHandle => handle'.age # "none"
         /\ handle'.age = IF handle.cont \in cs /\ handle.age = from THEN to ELSE handle.age
BY NoHandleFacts DEF AgeHandle, HandleInv

LEMMA RenderHandle == ASSUME TypeOK, HandleInv, Render PROVE HandleInv'
<1>1. UNCHANGED <<autoRender, js, todo, late>>
  BY DEF Render, jsVars, histVars
<1>2. autoRender => handle = NoHandle
  BY DEF Render, RenderThreadFree, HandleInv
<1>3. handle \in [cont : Conts \cup {NoCont}, age : Ages] /\ BeforeConts \cap AfterConts = {}
  BY ContFacts DEF TypeOK, GraphicsTypeOK
<1>4. CASE SwapBefore \/ CompleteBefore \/ SwapAfter \/ CompleteAfter
  <2>1. CASE SwapBefore
    <3>1. /\ handle'.cont = handle.cont
          /\ handle = NoHandle => handle' = NoHandle
          /\ handle # NoHandle => handle'.age # "none"
          /\ handle'.age = IF handle.cont \in BeforeConts /\ handle.age = "current"
                           THEN "swapped" ELSE handle.age
      BY <1>2, <1>3, <2>1, AgeFacts DEF SwapBefore
    <3> QED BY <1>1, <1>2, <2>1, <3>1, NoHandleFacts DEF HandleInv, SwapBefore
  <2>2. CASE CompleteBefore
    <3>1. /\ handle'.cont = handle.cont
          /\ handle = NoHandle => handle' = NoHandle
          /\ handle # NoHandle => handle'.age # "none"
          /\ handle'.age = IF handle.cont \in BeforeConts /\ handle.age = "swapped"
                           THEN "completed" ELSE handle.age
      BY <1>2, <1>3, <2>2, AgeFacts DEF CompleteBefore
    <3> QED BY <1>1, <1>2, <1>3, <2>2, <3>1, NoHandleFacts DEF HandleInv, CompleteBefore
  <2>3. CASE SwapAfter
    <3>1. /\ handle'.cont = handle.cont
          /\ handle = NoHandle => handle' = NoHandle
          /\ handle # NoHandle => handle'.age # "none"
          /\ handle'.age = IF handle.cont \in AfterConts /\ handle.age = "current"
                           THEN "swapped" ELSE handle.age
      BY <1>2, <1>3, <2>3, AgeFacts DEF SwapAfter
    <3> QED BY <1>1, <1>2, <2>3, <3>1, NoHandleFacts DEF HandleInv, SwapAfter
  <2>4. CASE CompleteAfter
    <3>1. /\ handle'.cont = handle.cont
          /\ handle = NoHandle => handle' = NoHandle
          /\ handle # NoHandle => handle'.age # "none"
          /\ handle'.age = IF handle.cont \in AfterConts /\ handle.age = "swapped"
                           THEN "completed" ELSE handle.age
      BY <1>2, <1>3, <2>4, AgeFacts DEF CompleteAfter
    <3> QED BY <1>1, <1>2, <1>3, <2>4, <3>1, NoHandleFacts DEF HandleInv, CompleteAfter
  <2> QED BY <1>4, <2>1, <2>2, <2>3, <2>4
<1>5. CASE EndStart \/ Finish \/ Collect \/ WorkComplete \/ Present \/ EndFinish
  <2>1. handle' = handle /\ pc \notin {"completeBefore", "completeAfter"}
    BY <1>5 DEF EndStart, Finish, Collect, WorkComplete, Present, EndFinish
  <2> QED BY <1>1, <2>1 DEF HandleInv
<1> QED BY <1>4, <1>5 DEF Render, RenderStep

LEMMA RenderFiring == ASSUME TypeOK, FiringInv, Render PROVE FiringInv'
<1>1. /\ onBefore \in Seq(BeforeConts) /\ onAfter \in Seq(AfterConts)
      /\ << >> \in Seq(BeforeConts) /\ << >> \in Seq(AfterConts)
  BY DEF TypeOK, GraphicsTypeOK
<1>2. CASE SwapBefore
  BY <1>1, <1>2 DEF SwapBefore, FiringInv
<1>3. CASE SwapAfter
  BY <1>1, <1>3 DEF SwapAfter, FiringInv
<1>4. CASE CompleteBefore
  BY <1>4 DEF CompleteBefore, FiringInv
<1>5. CASE CompleteAfter
  BY <1>5 DEF CompleteAfter, FiringInv
<1>6. CASE EndStart
  BY <1>6 DEF EndStart, FiringInv
<1>7. CASE Finish \/ Collect \/ WorkComplete \/ Present
  BY <1>7 DEF Finish, Collect, WorkComplete, Present, FiringInv
<1>8. CASE EndFinish
  BY <1>8 DEF EndFinish, FiringInv
<1> QED BY <1>2, <1>3, <1>4, <1>5, <1>6, <1>7, <1>8 DEF Render, RenderStep

\* A continuation that runs changes the running code only with automatic rendering.
LEMMA RunJs ==
  ASSUME RafContinuation \/ XrContinuation \/ XrWork \/ EndFrame
  PROVE  js' = js \/ (autoRender /\ js' \in Tasks)
BY NewTaskFacts DEF RafContinuation, BeginRaf, XrContinuation, XrWork, EndFrame

LEMMA HandleStep == ASSUME TypeOK, HandleInv, CallInv, [Next]_vars PROVE HandleInv'
<1>1. CASE Render
  BY <1>1, RenderHandle
<1>2. CASE EmbedderStart
  BY <1>2 DEF EmbedderStart, Start, jsVars, HandleInv
<1>3. CASE RunContinuation
  <2>1. UNCHANGED <<todo, handle, pc, autoRender, late>>
    BY <1>3 DEF RunContinuation
  <2>2. js' = js \/ js' \in Tasks
    BY <1>3, RunJs DEF RunContinuation
  <2> QED BY <2>1, <2>2, NewTaskFacts DEF HandleInv
<1>4. CASE JsDispatched
  <2>1. /\ js = "idle" /\ UNCHANGED <<todo, handle, autoRender, late>>
    BY <1>4 DEF JsDispatched, JsRender, JsEndSession, JsRaf, JsXr, Dispatched, JsFree, Start,
                histVars
  <2>2. todo = << >> /\ handle = NoHandle
    BY <2>1 DEF HandleInv
  <2> QED BY <2>1, <2>2, NoHandleFacts DEF HandleInv
<1>5. CASE JsGetTask
  <2>1. /\ todo # << >> /\ handle' = [cont |-> Head(todo), age |-> "current"]
        /\ UNCHANGED <<todo, js, autoRender, late>>
    BY <1>5 DEF JsGetTask, GetTask, jsVars, histVars
  <2> QED BY <2>1 DEF HandleInv
<1>6. CASE JsAttach
  <2>1. handle' = NoHandle /\ UNCHANGED <<js, autoRender, late>>
    BY <1>6 DEF JsAttach, histVars
  <2>2. todo # << >>
    BY <1>6, NoHandleFacts DEF JsAttach, AttachLater, HandleInv
  <2> QED BY <2>1, <2>2, NoHandleFacts DEF HandleInv
<1>7. CASE JsRunInline
  <2>1. handle' = NoHandle /\ autoRender' = autoRender /\ handle.age = "completed"
    BY <1>7 DEF JsRunInline
  <2>2. todo # << >> /\ ~autoRender /\ js # "idle"
    BY <2>1, NoHandleFacts DEF HandleInv
  <2>3. js' = js
    BY <1>7, <2>2, RunJs DEF JsRunInline
  <2> QED BY <2>1, <2>2, <2>3, NoHandleFacts DEF HandleInv
<1>8. CASE JsReturn
  <2>1. todo = << >> /\ handle = NoHandle /\ UNCHANGED <<todo, handle, autoRender, late>>
    BY <1>8 DEF JsReturn, AppReturn, EndCallback, InJs, histVars
  <2> QED BY <2>1, NoHandleFacts DEF HandleInv
<1>9. CASE Application
  <2>1. CASE AppCode
    BY <2>1 DEF AppCode, frameVars, histVars, HandleInv
  <2>2. CASE RequestAnimationFrame \/ XrRequestAnimationFrame
    <3>1. js # "idle" /\ handle = NoHandle /\ UNCHANGED <<handle, js, autoRender, late>>
      BY <2>2 DEF RequestAnimationFrame, XrRequestAnimationFrame, InJs, jsVars, histVars
    <3>2. todo' = todo \/ todo' # << >>
      BY <2>2 DEF RequestAnimationFrame, XrRequestAnimationFrame, jsVars
    <3> QED BY <3>1, <3>2, NoHandleFacts DEF HandleInv
  <2>3. CASE SessionCreated \/ RequestEnd \/ Dispose
    <3>1. UNCHANGED <<pc, todo, handle, js, autoRender, late>>
      BY <2>3 DEF SessionCreated, RequestEnd, Dispose, frameVars, jsVars, histVars
    <3> QED BY <3>1 DEF HandleInv
  <2> QED BY <1>9, <2>1, <2>2, <2>3 DEF Application
<1>10. CASE RenderSet \/ RenderXrWork
  <2>1. UNCHANGED <<todo, handle, pc, autoRender, late>>
    BY <1>10 DEF RenderSet, RenderXrWork, histVars
  <2>2. js' = js \/ js' \in Tasks
    BY <1>10, RunJs DEF RenderSet, RenderXrWork
  <2> QED BY <2>1, <2>2, NewTaskFacts DEF HandleInv
<1>11. CASE JsSet \/ JsXrWork
  <2>1. /\ jsCall # "none" /\ UNCHANGED <<handle, pc, autoRender, late>>
        /\ js' = js \/ js' \in Tasks
    BY <1>11, RunJs DEF JsSet, JsXrWork, frameVars, histVars
  <2>2. handle = NoHandle /\ js # "idle" /\ js' # "idle"
    BY <2>1, NewTaskFacts DEF CallInv
  <2> QED BY <2>1, <2>2, NoHandleFacts DEF HandleInv
<1>12. CASE UNCHANGED vars
  BY <1>12 DEF vars, frameVars, jsVars, histVars, HandleInv
<1> QED BY <1>1, <1>2, <1>3, <1>4, <1>5, <1>6, <1>7, <1>8, <1>9, <1>10, <1>11, <1>12
        DEF Next, Continuation, JsNative, Hung, Aborted

\* ScheduleRender is gone through by one thread at a time with automatic rendering.
LEMMA CallStep == ASSUME TypeOK, HandleInv, CallInv, FiringInv, [Next]_vars PROVE CallInv'
<1>1. CASE Render
  <2>1. UNCHANGED <<autoRender, js, todo, late, jsCall, renderCall, races>> /\ renderCall = "none"
    BY <1>1 DEF Render, RenderThreadFree, jsVars, callVars, histVars
  <2>2. handle = NoHandle => handle' = NoHandle
    BY <1>1 DEF Render, RenderStep, SwapBefore, CompleteBefore, EndStart, Finish, Collect,
                WorkComplete, Present, SwapAfter, CompleteAfter, EndFinish, AgeHandle, NoHandle
  <2> QED BY <2>1, <2>2 DEF CallInv
<1>2. CASE EmbedderStart
  BY <1>2 DEF EmbedderStart, Start, jsVars, callVars, CallInv
<1>3. CASE RunContinuation
  <2>1. /\ UNCHANGED <<todo, handle, pc, autoRender, late, jsCall>> /\ pc \in {"runBefore", "runAfter"}
        /\ firing # << >> /\ renderCall = "none" /\ (autoRender => js = "idle")
    BY <1>3 DEF RunContinuation, RenderThreadFree
  <2>2. js' = js \/ (autoRender /\ js' \in Tasks)
    BY <1>3, RunJs DEF RunContinuation
  <2>3. CASE Head(firing) = "schedule"
    <3>1. /\ js' = js /\ renderCall' \in {"none", "schedule"}
          /\ races' = races \/ jsCall = "schedule"
      BY <1>3, <2>3 DEF RunContinuation, CountRace
    <3>2. pc = "runAfter"
      <4>1. CASE pc = "runBefore"
        <5>1. Head(firing) \in BeforeConts
          BY <2>1, <4>1 DEF FiringInv
        <5> QED BY <2>3, <5>1, ContFacts
      <4> QED BY <2>1, <4>1
    <3>3. autoRender => jsCall = "none"
      BY <2>1 DEF CallInv, TypeOK
    <3> QED BY <2>1, <3>1, <3>2, <3>3 DEF CallInv
  <2>4. CASE Head(firing) = "xr"
    <3>1. /\ js' = js /\ renderCall' \in {"none", "beginFrame"} /\ races' = races
      BY <1>3, <2>4 DEF RunContinuation, XrContinuation
    <3>2. pc = "runBefore"
      <4>1. CASE pc = "runAfter"
        <5>1. Head(firing) \in AfterConts
          BY <2>1, <4>1 DEF FiringInv
        <5> QED BY <2>4, <5>1, ContFacts
      <4> QED BY <2>1, <4>1
    <3> QED BY <2>1, <3>1, <3>2 DEF CallInv
  <2>5. CASE Head(firing) \notin {"schedule", "xr"}
    <3>1. UNCHANGED <<renderCall, races>>
      BY <1>3, <2>5 DEF RunContinuation
    <3> QED BY <2>1, <2>2, <3>1, NewTaskFacts DEF CallInv
  <2> QED BY <2>3, <2>4, <2>5
<1>4. CASE RenderSet \/ RenderXrWork
  <2>1. /\ UNCHANGED <<todo, handle, pc, autoRender, late, jsCall, races>> /\ renderCall' = "none"
    BY <1>4 DEF RenderSet, RenderXrWork, histVars
  <2>2. js' = js \/ js' \in Tasks
    BY <1>4, RunJs DEF RenderSet, RenderXrWork
  <2> QED BY <2>1, <2>2, NewTaskFacts DEF CallInv
<1>5. CASE JsDispatched
  <2>1. /\ js = "idle" /\ UNCHANGED <<todo, handle, autoRender, late, jsCall, renderCall, races>>
        /\ UNCHANGED pc \/ pc = "idle"
        /\ autoRender => pc = "idle"
    BY <1>5 DEF JsDispatched, JsRender, JsEndSession, JsRaf, JsXr, Dispatched, JsFree, Start,
                frameVars, callVars, histVars
  <2>2. jsCall = "none" /\ (autoRender => renderCall = "none")
    BY <2>1 DEF CallInv, TypeOK
  <2>3. pc = "idle" => renderCall = "none"
    BY DEF CallInv, TypeOK
  <2> QED BY <2>1, <2>2, <2>3 DEF CallInv
<1>6. CASE JsGetTask
  <2>1. /\ jsCall = "none" /\ UNCHANGED <<pc, js, todo, autoRender, late, jsCall, renderCall, races>>
    BY <1>6 DEF JsGetTask, frameVars, jsVars, callVars, histVars
  <2> QED BY <2>1 DEF CallInv
<1>7. CASE JsAttach
  <2>1. /\ UNCHANGED <<pc, js, autoRender, late, jsCall, renderCall, races>>
        /\ handle # NoHandle
    BY <1>7, NoHandleFacts DEF JsAttach, AttachLater, callVars, histVars
  <2>2. jsCall = "none"
    BY <2>1 DEF CallInv
  <2> QED BY <2>1, <2>2 DEF CallInv
<1>8. CASE JsRunInline
  <2>1. /\ handle' = NoHandle /\ late' = TRUE /\ UNCHANGED <<pc, autoRender, renderCall>>
        /\ handle.age = "completed"
    BY <1>8 DEF JsRunInline
  <2>2. ~autoRender /\ js # "idle"
    BY <2>1, NoHandleFacts DEF HandleInv
  <2>3. js' = js
    BY <1>8, <2>2, RunJs DEF JsRunInline
  <2> QED BY <2>1, <2>2, <2>3 DEF CallInv
<1>9. CASE JsSet \/ JsXrWork
  <2>1. /\ jsCall # "none" /\ jsCall' = "none"
        /\ UNCHANGED <<handle, pc, autoRender, late, renderCall, races>>
    BY <1>9 DEF JsSet, JsXrWork, frameVars, histVars
  <2>2. autoRender => js' = js
    <3>1. CASE JsSet
      BY <3>1 DEF JsSet
    <3>2. CASE JsXrWork
      <4>1. late
        BY <3>2 DEF JsXrWork, CallInv
      <4> QED BY <4>1 DEF HandleInv
    <3> QED BY <1>9, <3>1, <3>2
  <2> QED BY <2>1, <2>2 DEF CallInv
<1>10. CASE JsReturn
  <2>1. /\ jsCall = "none" /\ js' = "idle" /\ js # "idle"
        /\ UNCHANGED <<handle, pc, todo, autoRender, late, jsCall, renderCall, races>>
    BY <1>10, NewTaskFacts DEF JsReturn, AppReturn, EndCallback, InJs, frameVars, callVars, histVars
  <2> QED BY <2>1 DEF CallInv
<1>11. CASE Application
  <2>1. CASE AppCode
    <3>1. /\ js = "idle" /\ (autoRender => pc = "idle")
          /\ UNCHANGED <<handle, pc, todo, autoRender, late, jsCall, renderCall, races>>
      BY <2>1 DEF AppCode, JsFree, frameVars, callVars, histVars
    <3>2. jsCall = "none" /\ (autoRender => renderCall = "none")
      BY <3>1 DEF CallInv, TypeOK
    <3> QED BY <3>1, <3>2 DEF CallInv
  <2>2. CASE RequestAnimationFrame
    <3>1. /\ js # "idle" /\ handle = NoHandle /\ todo = << >> /\ jsCall' \in {"none", "schedule"}
          /\ races' = races \/ renderCall = "schedule"
          /\ UNCHANGED <<handle, pc, todo, js, autoRender, late, renderCall>>
      BY <2>2 DEF RequestAnimationFrame, CountRace, InJs, frameVars, jsVars, histVars
    <3> QED BY <3>1 DEF CallInv
  <2>3. CASE XrRequestAnimationFrame
    <3>1. /\ jsCall = "none"
          /\ UNCHANGED <<handle, pc, js, autoRender, late, jsCall, renderCall, races>>
      BY <2>3 DEF XrRequestAnimationFrame, InJs, frameVars, callVars, histVars
    <3> QED BY <3>1 DEF CallInv
  <2>4. CASE SessionCreated \/ RequestEnd \/ Dispose
    <3>1. UNCHANGED <<handle, pc, todo, js, autoRender, late, jsCall, renderCall, races>>
      BY <2>4 DEF SessionCreated, RequestEnd, Dispose, frameVars, jsVars, callVars, histVars
    <3> QED BY <3>1 DEF CallInv
  <2> QED BY <1>11, <2>1, <2>2, <2>3, <2>4 DEF Application
<1>12. CASE UNCHANGED vars
  BY <1>12 DEF vars, frameVars, jsVars, callVars, histVars, CallInv
<1> QED BY <1>1, <1>2, <1>3, <1>4, <1>5, <1>6, <1>7, <1>8, <1>9, <1>10, <1>11, <1>12
        DEF Next, Continuation, JsNative, Hung, Aborted

LEMMA FiringStep == ASSUME TypeOK, HandleInv, FiringInv, [Next]_vars PROVE FiringInv'
<1>1. CASE Render
  BY <1>1, RenderFiring
<1>2. CASE EmbedderStart
  BY <1>2 DEF EmbedderStart, Start, FiringInv
<1>3. CASE RunContinuation
  <2>1. /\ pc \in {"runBefore", "runAfter"} /\ pc' = pc
        /\ firing # << >> /\ firing' = Tail(firing)
    BY <1>3 DEF RunContinuation
  <2> QED BY <2>1 DEF FiringInv
<1>4. CASE JsAttach
  <2>1. CASE handle.age = "swapped"
    <3>1. firing' = Append(firing, handle.cont) /\ pc' = pc
      BY <1>4, <2>1 DEF JsAttach, AttachLater
    <3>2. \/ handle.cont \in BeforeConts /\ pc = "completeBefore"
          \/ handle.cont \in AfterConts  /\ pc = "completeAfter"
      BY <2>1 DEF HandleInv
    <3> QED BY <3>1, <3>2 DEF FiringInv
  <2>2. CASE handle.age # "swapped"
    <3>1. firing' = firing /\ pc' = pc
      BY <1>4, <2>2 DEF JsAttach, AttachLater
    <3> QED BY <3>1 DEF FiringInv
  <2> QED BY <2>1, <2>2
<1>5. CASE JsDispatched
  <2>1. CASE JsRender
    BY <2>1 DEF JsRender, Start, FiringInv
  <2>2. CASE ~JsRender
    BY <1>5, <2>2 DEF JsDispatched, JsEndSession, JsRaf, JsXr, frameVars, FiringInv
  <2> QED BY <2>1, <2>2
<1>6. CASE RenderSet \/ RenderXrWork \/ (JsNative /\ ~JsAttach) \/ JsReturn \/ Application
             \/ UNCHANGED vars
  <2>1. pc' = pc /\ firing' = firing
    BY <1>6 DEF RenderSet, RenderXrWork, JsNative, JsSet, JsGetTask, JsRunInline, JsXrWork, JsReturn,
                AppReturn, EndCallback, Application, AppCode, RequestAnimationFrame,
                XrRequestAnimationFrame, SessionCreated, RequestEnd, Dispose, vars, frameVars
  <2> QED BY <2>1 DEF FiringInv
<1> QED BY <1>1, <1>2, <1>3, <1>4, <1>5, <1>6 DEF Next, Continuation, JsNative, Hung, Aborted
----------------------------------------------------------------------------
(* The work of the frame.                                                  *)

LEMMA RenderWork == ASSUME TypeOK, WorkInv, Render PROVE WorkInv'
<1>1. UNCHANGED <<autoRender, js, jsQueue>> /\ (autoRender => js = "idle")
  BY DEF Render, RenderThreadFree, jsVars
<1>2. "idle" \notin Tasks
  BY NewTaskFacts
<1>3. CASE WorkComplete
  <2>1. /\ pc = "wait" /\ pc' = "collect" /\ awaited' = {} /\ workTasks' = workTasks
        /\ \A t \in awaited : task[t] = "done"
        /\ task' = [t \in Tasks |-> IF t \in awaited THEN "free" ELSE task[t]]
    BY <1>3 DEF WorkComplete
  <2>2. \A t \in Tasks : /\ task'[t] \in {"queued", "running"} => task'[t] = task[t] /\ t \notin awaited
                         /\ task[t] \in {"queued", "running"} => task'[t] = task[t]
    BY <2>1
  <2> QED BY <1>1, <1>2, <2>1, <2>2 DEF WorkInv
<1>4. CASE Collect
  BY <1>1, <1>2, <1>4 DEF Collect, WorkInv
<1>5. CASE EndStart \/ Finish
  BY <1>1, <1>2, <1>5 DEF EndStart, Finish, WorkInv
<1>6. CASE SwapBefore \/ CompleteBefore \/ Present \/ SwapAfter \/ CompleteAfter \/ EndFinish
  <2>1. /\ pc \notin {"runBefore", "started", "collect", "wait"}
        /\ UNCHANGED <<workTasks, awaited, task>>
    BY <1>6 DEF SwapBefore, CompleteBefore, Present, SwapAfter, CompleteAfter, EndFinish
  <2> QED BY <1>1, <1>2, <2>1 DEF WorkInv
<1> QED BY <1>3, <1>4, <1>5, <1>6 DEF Render, RenderStep

\* What it takes for a new piece of work to be well looked after.
LEMMA NewWork ==
  ASSUME TypeOK, WorkInv, ~autoRender, NEW t \in Tasks, IsFree(t), pc = "runBefore",
         task' = [task EXCEPT ![t] = "queued"], jsQueue' = Append(jsQueue, t),
         workTasks' = workTasks \cup {t}, UNCHANGED <<js, pc, awaited, autoRender>>
  PROVE  WorkInv'
<1>1. jsQueue \in Seq(Tasks \cup {"render", "endSession"}) /\ task \in [Tasks -> TaskStates]
  BY DEF TypeOK, GraphicsTypeOK
<1>2. task[t] = "free" /\ ~Has(jsQueue, {t})
  BY DEF IsFree, WorkInv
<1>3. \A u \in Tasks : /\ Has(jsQueue', {u}) <=> Has(jsQueue, {u}) \/ u = t
                       /\ Once(jsQueue', {u})
  <2> TAKE u \in Tasks
  <2>1. Has(jsQueue', {u}) <=> Has(jsQueue, {u}) \/ t \in {u}
    BY <1>1, AppendFacts
  <2>2. Once(jsQueue, {u})
    BY DEF WorkInv
  <2>3. Once(jsQueue, {u}) /\ (t \notin {u} \/ ~Has(jsQueue, {u})) => Once(jsQueue', {u})
    BY <1>1, AppendFacts
  <2>4. t \notin {u} \/ ~Has(jsQueue, {u})
    BY <1>2
  <2> QED BY <2>1, <2>2, <2>3, <2>4
<1>4. \A u \in Tasks : task'[u] = IF u = t THEN "queued" ELSE task[u]
  BY <1>1
<1> QED BY <1>2, <1>3, <1>4 DEF WorkInv

\* The queue may get longer by what is no work.
LEMMA OtherDispatch ==
  ASSUME TypeOK, NEW x \in {"render", "endSession"}, jsQueue' = Append(jsQueue, x)
  PROVE  /\ \A t \in Tasks : (Has(jsQueue', {t}) <=> Has(jsQueue, {t}))
                             /\ (Once(jsQueue, {t}) => Once(jsQueue', {t}))
         /\ \A S \in SUBSET Tasks : (Has(jsQueue', S) <=> Has(jsQueue, S))
                                    /\ (Once(jsQueue, S) => Once(jsQueue', S))
<1>1. jsQueue \in Seq(Tasks \cup {"render", "endSession"})
  BY DEF TypeOK
<1>2. ASSUME NEW S \in SUBSET Tasks
      PROVE  (Has(jsQueue', S) <=> Has(jsQueue, S)) /\ (Once(jsQueue, S) => Once(jsQueue', S))
  <2>1. x \notin S
    BY NewTaskFacts
  <2> QED BY <1>1, <2>1, AppendFacts
<1>3. \A t \in Tasks : {t} \in SUBSET Tasks
  OBVIOUS
<1> QED BY <1>2, <1>3

\* What is taken from the queue is no longer in it.
LEMMA TakeFacts ==
  ASSUME TypeOK, NEW x, Dispatched(x)
  PROVE  /\ js = "idle" /\ (autoRender => pc = "idle") /\ Alive
         /\ \A S : /\ x \in S => Has(jsQueue, S)
                   /\ Has(jsQueue', S) => Has(jsQueue, S)
                   /\ Once(jsQueue, S) => Once(jsQueue', S)
                   /\ Once(jsQueue, S) /\ x \in S => ~Has(jsQueue', S)
<1>1. /\ jsQueue \in Seq(Tasks \cup {"render", "endSession"}) /\ jsQueue # << >>
      /\ Head(jsQueue) = x /\ jsQueue' = Tail(jsQueue)
  BY DEF TypeOK, Dispatched
<1>2. ASSUME NEW S
      PROVE  /\ x \in S => Has(jsQueue, S)
             /\ Has(jsQueue', S) => Has(jsQueue, S)
             /\ Once(jsQueue, S) => Once(jsQueue', S)
             /\ Once(jsQueue, S) /\ x \in S => ~Has(jsQueue', S)
  BY <1>1, TailFacts
<1> QED BY <1>2 DEF Dispatched, JsFree

\* The work that begins is the one that was dispatched.
LEMMA BeginWork ==
  ASSUME TypeOK, WorkInv, NEW t \in Tasks, Dispatched(t), NEW state \in {"running", "done", "failed"},
         task' = [task EXCEPT ![t] = state], js' = IF state = "running" THEN t ELSE js,
         UNCHANGED <<workTasks, pc, awaited, autoRender>>
  PROVE  WorkInv'
<1>1. /\ js = "idle" /\ (autoRender => pc = "idle")
      /\ \A S : /\ t \in S => Has(jsQueue, S)
                /\ Has(jsQueue', S) => Has(jsQueue, S)
                /\ Once(jsQueue, S) => Once(jsQueue', S)
                /\ Once(jsQueue, S) /\ t \in S => ~Has(jsQueue', S)
  BY TakeFacts
<1>2. task \in [Tasks -> TaskStates] /\ "idle" \notin Tasks
  BY NewTaskFacts DEF TypeOK, GraphicsTypeOK
<1>3. ~autoRender
  <2>1. Has(jsQueue, Tasks)
    BY <1>1
  <2> QED BY <2>1 DEF WorkInv
<1>4. \A u \in Tasks : task'[u] = IF u = t THEN state ELSE task[u]
  BY <1>2
<1>5. ASSUME NEW u \in Tasks
      PROVE  Once(jsQueue', {u}) /\ (Has(jsQueue', {u}) => task'[u] = "queued")
  <2>1. Once(jsQueue, {u}) /\ (Has(jsQueue, {u}) => task[u] = "queued")
    BY <1>3 DEF WorkInv
  <2>2. Once(jsQueue', {u}) /\ (Has(jsQueue', {u}) => Has(jsQueue, {u}) /\ u # t)
    BY <1>1, <2>1
  <2> QED BY <1>4, <2>1, <2>2
<1>6. task[t] = "queued" /\ t \in workTasks \cup awaited
  <2>1. Has(jsQueue, {t})
    BY <1>1
  <2> QED BY <1>3, <2>1 DEF WorkInv
<1> QED BY <1>1, <1>2, <1>3, <1>4, <1>5, <1>6 DEF WorkInv

\* A continuation that runs before the frame.
LEMMA RunWork ==
  ASSUME TypeOK, FiringInv, WorkInv, RunContinuation, RenderThreadFree
  PROVE  WorkInv'
<1>1. /\ UNCHANGED <<pc, awaited, autoRender>> /\ firing # << >>
      /\ pc \in {"runBefore", "runAfter"} /\ (autoRender => js = "idle")
  BY DEF RunContinuation, RenderThreadFree
<1>2. Head(firing) \in {"raf", "xr"} => pc = "runBefore"
  <2>1. CASE pc = "runAfter"
    <3>1. firing \in Seq(AfterConts)
      BY <2>1 DEF FiringInv
    <3>2. Head(firing) \in AfterConts
      BY <1>1, <3>1
    <3> QED BY <3>2, ContFacts
  <2> QED BY <1>1, <2>1
<1>3. task \in [Tasks -> TaskStates] /\ "idle" \notin Tasks
  BY NewTaskFacts DEF TypeOK, GraphicsTypeOK
\* The task of a continuation in each mode.
<1>4. ASSUME NEW t \in Tasks, IsFree(t), pc = "runBefore", autoRender, NEW state \in TaskStates,
             task' = [task EXCEPT ![t] = state], js' \in {js, t}, jsQueue' = jsQueue
      PROVE  WorkInv'
  BY <1>1, <1>3, <1>4 DEF WorkInv
<1>5. CASE Head(firing) = "raf" /\ RafContinuation
  <2> DEFINE t == NewTask(RafTasks)
  <2>1. t \in Tasks
    BY NewTaskFacts
  <2>2. CASE disposed
    <3>1. UNCHANGED <<task, jsQueue, workTasks, js>>
      BY <1>5, <2>2 DEF RafContinuation
    <3> QED BY <1>1, <3>1 DEF WorkInv
  <2>3. CASE ~disposed /\ autoRender
    <3>1. /\ IsFree(t) /\ jsQueue' = jsQueue /\ js' \in {js, t}
          /\ \/ task' = [task EXCEPT ![t] = "running"]
             \/ task' = [task EXCEPT ![t] = "done"]
      BY <1>5, <2>3 DEF RafContinuation, BeginRaf
    <3>2. {"running", "done"} \subseteq TaskStates
      BY DEF TaskStates
    <3> QED BY <1>2, <1>4, <1>5, <2>1, <2>3, <3>1, <3>2
  <2>4. CASE ~disposed /\ ~autoRender
    <3>1. /\ IsFree(t) /\ task' = [task EXCEPT ![t] = "queued"] /\ jsQueue' = Append(jsQueue, t)
          /\ workTasks' = workTasks \cup {t} /\ js' = js
      BY <1>5, <2>4 DEF RafContinuation
    <3> QED BY <1>1, <1>2, <1>5, <2>1, <2>4, <3>1, NewWork
  <2> QED BY <2>2, <2>3, <2>4
<1>6. CASE Head(firing) # "raf"
  <2>1. UNCHANGED <<task, jsQueue, workTasks, js>>
    BY <1>6 DEF RunContinuation, XrContinuation, EndFrame
  <2> QED BY <1>1, <2>1 DEF WorkInv
<1> QED BY <1>5, <1>6 DEF RunContinuation

\* The XR frame becomes render work.
LEMMA XrWorkWork ==
  ASSUME TypeOK, CallInv, WorkInv, RenderXrWork
  PROVE  WorkInv'
<1> DEFINE t == NewTask(XrTasks)
<1>1. /\ UNCHANGED <<pc, awaited, autoRender>> /\ XrWork /\ t \in Tasks /\ IsFree(t)
      /\ pc = "runBefore" /\ (autoRender => js = "idle")
  BY NewTaskFacts DEF RenderXrWork, XrWork, CallInv
<1>2. CASE autoRender
  <2>1. task' = [task EXCEPT ![t] = "running"] /\ js' = t /\ UNCHANGED <<jsQueue, workTasks>>
    BY <1>1, <1>2 DEF XrWork
  <2> QED BY <1>1, <1>2, <2>1 DEF WorkInv
<1>3. CASE ~autoRender
  <2>1. /\ task' = [task EXCEPT ![t] = "queued"] /\ jsQueue' = Append(jsQueue, t)
        /\ workTasks' = workTasks \cup {t} /\ js' = js
    BY <1>1, <1>3 DEF XrWork
  <2> QED BY <1>1, <1>3, <2>1, NewWork
<1> QED BY <1>2, <1>3

LEMMA WorkStep ==
  ASSUME TypeOK, HandleInv, CallInv, FiringInv, WorkInv, [Next]_vars, ~late'
  PROVE  WorkInv'
<1>1. CASE Render
  BY <1>1, RenderWork
<1>2. CASE RunContinuation
  BY <1>2, RunWork DEF RunContinuation
<1>3. CASE EmbedderStart
  <2>1. /\ pc = "idle" /\ UNCHANGED <<autoRender, js, jsQueue, workTasks, awaited, task>>
        /\ ~autoRender
    BY <1>3 DEF EmbedderStart, Start, jsVars
  <2> QED BY <2>1 DEF WorkInv
<1>4. CASE JsRender
  <2>1. /\ Dispatched("render") /\ pc = "idle"
        /\ UNCHANGED <<autoRender, js, workTasks, awaited, task>>
    BY <1>4 DEF JsRender, Start
  <2>2. /\ js = "idle"
        /\ \A S : /\ Has(jsQueue', S) => Has(jsQueue, S)
                  /\ Once(jsQueue, S) => Once(jsQueue', S)
    BY <2>1, TakeFacts
  <2> QED BY <2>1, <2>2, NewTaskFacts DEF WorkInv
<1>5. CASE JsEndSession
  <2>1. /\ Dispatched("endSession") /\ js' = "app"
        /\ UNCHANGED <<autoRender, pc, workTasks, awaited, task>>
    BY <1>5 DEF JsEndSession, frameVars
  <2>2. \A S : /\ Has(jsQueue', S) => Has(jsQueue, S)
               /\ Once(jsQueue, S) => Once(jsQueue', S)
    BY <2>1, TakeFacts
  <2> QED BY <2>1, <2>2, NewTaskFacts DEF WorkInv
<1>6. ASSUME NEW t \in RafTasks, JsRaf(t) PROVE WorkInv'
  <2>1. t \in Tasks /\ Dispatched(t) /\ UNCHANGED <<workTasks, pc, awaited, autoRender>>
    BY <1>6, NewTaskFacts DEF JsRaf, frameVars
  <2>2. \E state \in {"running", "done", "failed"} :
           task' = [task EXCEPT ![t] = state] /\ js' = IF state = "running" THEN t ELSE js
    BY <1>6 DEF JsRaf, BeginRaf
  <2> QED BY <2>1, <2>2, BeginWork
<1>7. ASSUME NEW t \in XrTasks, JsXr(t) PROVE WorkInv'
  <2>1. /\ t \in Tasks /\ Dispatched(t) /\ UNCHANGED <<workTasks, pc, awaited, autoRender>>
        /\ task' = [task EXCEPT ![t] = "running"] /\ js' = t
    BY <1>7, NewTaskFacts DEF JsXr, frameVars
  <2> QED BY <2>1, BeginWork
<1>8. CASE JsAttach \/ RenderSet
  <2>1. UNCHANGED <<pc, workTasks, awaited, task, autoRender, js>>
    BY <1>8 DEF JsAttach, RenderSet
  <2>2. jsQueue' = jsQueue \/ jsQueue' = Append(jsQueue, "render")
    BY <1>8 DEF JsAttach, RenderSet
  <2>3. CASE jsQueue' = jsQueue
    BY <2>1, <2>3 DEF WorkInv
  <2>4. CASE jsQueue' = Append(jsQueue, "render")
    <3>1. /\ \A t \in Tasks : (Has(jsQueue', {t}) <=> Has(jsQueue, {t}))
                              /\ (Once(jsQueue, {t}) => Once(jsQueue', {t}))
          /\ Has(jsQueue', Tasks) <=> Has(jsQueue, Tasks)
      BY <2>4, OtherDispatch
    <3> QED BY <2>1, <3>1 DEF WorkInv
  <2> QED BY <2>2, <2>3, <2>4
<1>9. CASE JsRunInline
  BY <1>9 DEF JsRunInline
<1>10. ASSUME NEW t \in Tasks, EndCallback(t) PROVE WorkInv'
  <2>1. /\ js = t /\ js' = "idle" /\ UNCHANGED <<pc, awaited, autoRender, jsQueue>>
        /\ task' = [task EXCEPT ![t] = "done"] \/ task' = [task EXCEPT ![t] = "failed"]
        /\ workTasks' = IF autoRender THEN workTasks \cup {t} ELSE workTasks
    BY <1>10 DEF EndCallback
  <2>2. \A u \in Tasks : IF u = t THEN task'[u] \in {"done", "failed"} ELSE task'[u] = task[u]
    BY <2>1 DEF TypeOK, GraphicsTypeOK
  <2>3. ~autoRender => ~Has(jsQueue, {t})
    BY <2>1 DEF WorkInv
  <2>4. "idle" \notin Tasks
    BY NewTaskFacts
  <2> QED BY <2>1, <2>2, <2>3, <2>4 DEF WorkInv
<1>11. CASE RequestEnd
  <2>1. UNCHANGED <<pc, workTasks, awaited, task, autoRender, js>>
    BY <1>11 DEF RequestEnd, frameVars
  <2>2. /\ \A t \in Tasks : (Has(jsQueue', {t}) <=> Has(jsQueue, {t}))
                            /\ (Once(jsQueue, {t}) => Once(jsQueue', {t}))
        /\ Has(jsQueue', Tasks) <=> Has(jsQueue, Tasks)
    BY <1>11, OtherDispatch DEF RequestEnd
  <2> QED BY <2>1, <2>2 DEF WorkInv
<1>12. CASE JsSet \/ JsGetTask \/ AppReturn \/ UNCHANGED vars \/ (Application /\ ~RequestEnd)
  <2>1. /\ UNCHANGED <<pc, workTasks, awaited, task, autoRender, jsQueue>>
        /\ js' \in {js, "idle", "app"}
    BY <1>12 DEF JsSet, JsGetTask, AppReturn, Application, AppCode, RequestAnimationFrame,
                 XrRequestAnimationFrame, SessionCreated, Dispose, vars, frameVars, jsVars
  <2> QED BY <2>1, NewTaskFacts DEF WorkInv
<1>13. CASE RenderXrWork
  BY <1>13, XrWorkWork
<1>14. CASE JsXrWork
  BY <1>14 DEF JsXrWork, CallInv
<1> QED BY <1>1, <1>2, <1>3, <1>4, <1>5, <1>6, <1>7, <1>8, <1>9, <1>10, <1>11, <1>12, <1>13, <1>14
        DEF Next, Continuation, JsDispatched, JsNative, JsReturn, Hung, Aborted
----------------------------------------------------------------------------
(* The requests.                                                           *)

\* Facts about the sequences that hold continuations.
Shifts ==
  /\ \A S : ~Has(<< >>, S) /\ Once(<< >>, S)
  /\ \A S \in {Raf, Xr} : ~Has(onAfter, S) /\ Once(onAfter, S)
  /\ onBefore \in Seq(Conts) /\ firing \in Seq(Conts) /\ todo \in Seq(Conts)

LEMMA ShiftFacts == TypeOK => Shifts
<1> SUFFICES ASSUME TypeOK PROVE Shifts
  OBVIOUS
<1>1. \A S : ~Has(<< >>, S) /\ Once(<< >>, S)
  BY EmptyFacts
<1>2. ASSUME NEW S \in {Raf, Xr} PROVE ~Has(onAfter, S) /\ Once(onAfter, S)
  <2>1. onAfter \in Seq(AfterConts) /\ AfterConts \cap S = {}
    BY ContFacts DEF TypeOK, GraphicsTypeOK, Raf, Xr
  <2>2. ~Has(onAfter, S)
    BY <2>1, OtherFacts
  <2> QED BY <2>2 DEF Has, Once
<1>3. onBefore \in Seq(Conts) /\ firing \in Seq(Conts) /\ todo \in Seq(Conts)
  BY DEF TypeOK, GraphicsTypeOK, Conts
<1> QED BY <1>1, <1>2, <1>3 DEF Shifts

LEMMA RenderTokens ==
  ASSUME TypeOK, FiringInv, Render, NEW S \in {Raf, Xr}, Tokens(S)
  PROVE  /\ Tokens(S)' /\ (Spare(S) => Spare(S)')
         /\ ~SwapBefore => (Has(firing', S) => Has(firing, S))
<1>1. todo' = todo /\ Shifts
  BY ShiftFacts DEF Render, jsVars
<1>2. CASE SwapBefore
  <2>1. firing = << >> /\ firing' = onBefore /\ onBefore' = << >>
    BY <1>2 DEF SwapBefore, FiringInv
  <2> QED BY <1>1, <1>2, <2>1 DEF Shifts, Tokens, Spare
<1>3. CASE SwapAfter
  <2>1. firing' = onAfter /\ onBefore' = onBefore
    BY <1>3 DEF SwapAfter
  <2> QED BY <1>1, <2>1 DEF Shifts, Tokens, Spare
<1>4. CASE ~SwapBefore /\ ~SwapAfter
  <2>1. firing' = firing /\ onBefore' = onBefore
    BY <1>4 DEF Render, RenderStep, CompleteBefore, EndStart, Finish, Collect, WorkComplete,
                Present, CompleteAfter, EndFinish
  <2> QED BY <1>1, <2>1 DEF Tokens, Spare
<1> QED BY <1>2, <1>3, <1>4

LEMMA AttachTokens ==
  ASSUME TypeOK, HandleInv, JsAttach, NEW S \in {Raf, Xr}, Tokens(S)
  PROVE  /\ Tokens(S)' /\ (Spare(S) => Spare(S)')
         /\ Has(firing', S) => Has(firing, S) \/ pc = "completeBefore"
<1> DEFINE c == handle.cont
<1>1. todo # << >> /\ c = Head(todo) /\ todo' = Tail(todo) /\ Shifts
  BY ShiftFacts, NoHandleFacts DEF JsAttach, AttachLater, HandleInv
<1>2. /\ c \in S => Has(todo, S)
      /\ Has(todo', S) => Has(todo, S)
      /\ Once(todo, S) => Once(todo', S)
      /\ Once(todo, S) /\ c \in S => ~Has(todo', S)
  BY <1>1, TailFacts DEF Shifts
<1>3. c \in BeforeConts \cup AfterConts /\ c \in Conts
  BY <1>1 DEF Shifts, Conts
<1>4. S \cap AfterConts = {}
  BY ContFacts DEF Raf, Xr
<1>5. CASE firing' = Append(firing, c) /\ UNCHANGED onBefore /\ handle.age = "swapped"
  <2>1. /\ Has(firing', S) <=> Has(firing, S) \/ c \in S
        /\ Once(firing, S) /\ (c \notin S \/ ~Has(firing, S)) => Once(firing', S)
    BY <1>1, <1>5, AppendFacts DEF Shifts
  <2>2. c \in S => pc = "completeBefore"
    BY <1>4, <1>5 DEF HandleInv
  <2> QED BY <1>2, <1>5, <2>1, <2>2 DEF Tokens, Spare
<1>6. CASE onBefore' = Append(onBefore, c) /\ UNCHANGED firing
  <2>1. /\ Has(onBefore', S) <=> Has(onBefore, S) \/ c \in S
        /\ Once(onBefore, S) /\ (c \notin S \/ ~Has(onBefore, S)) => Once(onBefore', S)
    BY <1>1, <1>6, AppendFacts DEF Shifts
  <2> QED BY <1>2, <1>6, <2>1 DEF Tokens, Spare
<1>7. CASE c \in AfterConts /\ UNCHANGED <<firing, onBefore>>
  BY <1>2, <1>4, <1>7 DEF Tokens, Spare
<1> QED BY <1>3, <1>5, <1>6, <1>7 DEF JsAttach, AttachLater

LEMMA RunTokens ==
  ASSUME TypeOK, RunContinuation, NEW S \in {Raf, Xr}, Tokens(S)
  PROVE  /\ Tokens(S)' /\ (Spare(S) => Spare(S)')
         /\ Has(firing', S) => Has(firing, S)
         /\ Head(firing) \in S => Has(firing, S) /\ Spare(S)'
<1>1. /\ firing # << >> /\ firing' = Tail(firing) /\ Shifts
      /\ UNCHANGED <<todo, onBefore>>
  BY ShiftFacts DEF RunContinuation
<1>2. /\ Head(firing) \in S => Has(firing, S)
      /\ Has(firing', S) => Has(firing, S)
      /\ Once(firing, S) => Once(firing', S)
      /\ Once(firing, S) /\ Head(firing) \in S => ~Has(firing', S)
  BY <1>1, TailFacts DEF Shifts
<1> QED BY <1>1, <1>2 DEF Tokens, Spare

\* ScheduleRender on the rendering thread attaches its continuation.
LEMMA SetTokens ==
  ASSUME TypeOK, RenderSet, NEW S \in {Raf, Xr}, Tokens(S), S = Raf => Spare(S)
  PROVE  Tokens(S)' /\ (S = Xr /\ Spare(S) => Spare(S)')
<1>1. UNCHANGED <<todo, firing>> /\ Shifts /\ onBefore' = Append(onBefore, "raf")
  BY ShiftFacts DEF RenderSet
<1>2. /\ Has(onBefore', S) <=> Has(onBefore, S) \/ "raf" \in S
      /\ Once(onBefore, S) /\ ("raf" \notin S \/ ~Has(onBefore, S)) => Once(onBefore', S)
  BY <1>1, AppendFacts DEF Shifts
<1>3. ("raf" \in S <=> S = Raf) /\ Raf # Xr
  BY DEF Raf, Xr
<1> QED BY <1>1, <1>2, <1>3 DEF Tokens, Spare

\* JavaScript asks for a frame, and nothing else was being attached.
LEMMA RequestTokens ==
  ASSUME TypeOK, todo = << >>, UNCHANGED <<onBefore, firing>>, NEW S \in {Raf, Xr}, Tokens(S),
         \/ todo' = << >>
         \/ todo' = <<"raf">> /\ (S = Raf => Spare(S))
         \/ todo' = <<"schedule", "xr">> /\ (S = Xr => Spare(S))
  PROVE  /\ Tokens(S)'
         /\ Spare(S) /\ todo' = <<"raf">> /\ S = Xr => Spare(S)'
         /\ Spare(S) /\ todo' = <<"schedule", "xr">> /\ S = Raf => Spare(S)'
         /\ Spare(S) /\ todo' = << >> => Spare(S)'
<1>1. Shifts /\ ("raf" \in S <=> S = Raf) /\ ("xr" \in S <=> S = Xr) /\ "schedule" \notin S /\ Raf # Xr
  BY ShiftFacts DEF Raf, Xr
<1>2. /\ Has(<<"raf">>, S) <=> "raf" \in S
      /\ Once(<<"raf">>, S)
      /\ Has(<<"schedule", "xr">>, S) <=> "schedule" \in S \/ "xr" \in S
      /\ "schedule" \notin S \/ "xr" \notin S => Once(<<"schedule", "xr">>, S)
  BY ShortFacts
<1>3. CASE todo' = << >>
  BY <1>1, <1>3 DEF Shifts, Tokens, Spare
<1>4. CASE todo' = <<"raf">> /\ (S = Raf => Spare(S))
  <2>1. todo' # << >> /\ todo' # <<"schedule", "xr">>
    BY <1>4
  <2> QED BY <1>1, <1>2, <1>4, <2>1 DEF Shifts, Tokens, Spare
<1>5. CASE todo' = <<"schedule", "xr">> /\ (S = Xr => Spare(S))
  <2>1. todo' # << >> /\ todo' # <<"raf">>
    BY <1>5
  <2> QED BY <1>1, <1>2, <1>5, <2>1 DEF Shifts, Tokens, Spare
<1> QED BY <1>3, <1>4, <1>5
----------------------------------------------------------------------------
(* The animation frame.                                                    *)

LEMMA RafSets == Raf \in {Raf, Xr} /\ RafTasks \in SUBSET Tasks /\ RafTasks \subseteq Tasks
BY NewTaskFacts

\* Nothing moved but what is dispatched, and that got no new animation frame.
LEMMA RafStill ==
  ASSUME RafInv, UNCHANGED <<todo, onBefore, firing, renderScheduled>>,
         Has(jsQueue', RafTasks) => Has(jsQueue, RafTasks),
         Once(jsQueue, RafTasks) => Once(jsQueue', RafTasks),
         jsCall' = "schedule" => jsCall = "schedule",
         renderCall' = "schedule" => renderCall = "schedule"
  PROVE  RafInv'
BY DEF RafInv, Tokens, Spare

\* A continuation takes its turn on the rendering thread.
LEMMA RunRaf ==
  ASSUME TypeOK, RafInv, CallsInv, RunContinuation, races = 0, races' = 0
  PROVE  RafInv' /\ CallsInv'
<1>1. /\ UNCHANGED <<pc, todo, jsCall>> /\ pc \in {"runBefore", "runAfter"} /\ calls \in Nat
      /\ Tokens(Raf) /\ renderCall = "none"
      /\ jsQueue \in Seq(Tasks \cup {"render", "endSession"})
  BY DEF RunContinuation, RenderThreadFree, TypeOK, RafInv
<1>2. /\ Tokens(Raf)' /\ (Spare(Raf) => Spare(Raf)')
      /\ Has(firing', Raf) => Has(firing, Raf)
      /\ Head(firing) \in Raf => Has(firing, Raf) /\ Spare(Raf)'
  BY <1>1, RunTokens, RafSets
<1>3. CASE Head(firing) = "schedule"
  <2>1. /\ UNCHANGED <<renderScheduled, jsQueue, calls>>
        /\ renderCall' = "schedule" => ~renderScheduled /\ jsCall # "schedule"
    BY <1>3 DEF RunContinuation, CountRace, engineVars
  <2> QED BY <1>1, <1>2, <2>1 DEF RafInv, CallsInv
<1>4. CASE Head(firing) = "raf" /\ RafContinuation
  <2> DEFINE t == NewTask(RafTasks)
  <2>1. /\ Has(firing, Raf) /\ Spare(Raf)' /\ renderScheduled /\ ~Has(jsQueue, RafTasks)
        /\ ~Has(firing', Raf) /\ calls = 0 /\ jsCall # "schedule"
    BY <1>1, <1>2, <1>4 DEF Raf, RafInv, CallsInv, Spare
  <2>2. renderCall' = "none"
    BY <1>1, <1>4 DEF RunContinuation
  <2>3. CASE disposed \/ autoRender
    <3>1. jsQueue' = jsQueue /\ calls' \in {0, 1}
      <4>1. CASE disposed
        BY <1>4, <2>1, <4>1 DEF RafContinuation
      <4>2. CASE ~disposed /\ autoRender
        <5>1. jsQueue' = jsQueue /\ BeginRaf(t)
          BY <1>4, <4>2 DEF RafContinuation
        <5>2. calls' = calls \/ calls' = calls + 1
          BY <5>1 DEF BeginRaf
        <5> QED BY <2>1, <5>1, <5>2
      <4> QED BY <2>3, <4>1, <4>2
    <3> QED BY <1>1, <1>2, <2>1, <2>2, <3>1 DEF RafInv, CallsInv
  <2>4. CASE ~disposed /\ ~autoRender
    <3>1. jsQueue' = Append(jsQueue, t) /\ UNCHANGED <<renderScheduled, calls>> /\ t \in Tasks
      BY <1>4, <2>4, NewTaskFacts DEF RafContinuation
    <3>2. Once(jsQueue', RafTasks)
      BY <1>1, <2>1, <3>1, AppendFacts DEF RafInv
    <3> QED BY <1>1, <1>2, <2>1, <2>2, <3>1, <3>2 DEF RafInv, CallsInv
  <2> QED BY <2>3, <2>4
<1>5. CASE Head(firing) \in {"xr", "endFrame"}
  <2>1. UNCHANGED <<renderScheduled, calls, jsQueue>> /\ renderCall' # "schedule"
    BY <1>1, <1>5 DEF RunContinuation, XrContinuation, EndFrame, engineVars
  <2> QED BY <1>1, <1>2, <2>1 DEF RafInv, CallsInv
<1> QED BY <1>3, <1>4, <1>5 DEF RunContinuation

\* m_isRenderScheduled is set, by the one thread that found it unset.
LEMMA SetRaf ==
  ASSUME TypeOK, CallInv, RafInv, CallsInv, ~late, JsSet \/ RenderSet
  PROVE  RafInv' /\ CallsInv'
<1>1. /\ UNCHANGED <<pc, firing, calls>> /\ renderScheduled' = TRUE
      /\ ~renderScheduled /\ Spare(Raf) /\ Tokens(Raf) /\ ~Has(jsQueue, RafTasks)
  BY DEF JsSet, RenderSet, frameVars, histVars, RafInv
<1>2. CASE JsSet
  <2>1. /\ todo = << >> /\ todo' = <<"raf">> \o todo /\ UNCHANGED <<onBefore, jsQueue>>
        /\ jsCall' = "none" /\ renderCall' # "schedule"
    BY <1>2 DEF JsSet, frameVars, CallInv, RafInv
  <2>2. todo' = <<"raf">>
    BY <2>1
  <2>3. Tokens(Raf)'
    BY <1>1, <2>1, <2>2, RequestTokens, RafSets
  <2> QED BY <1>1, <2>1, <2>3 DEF RafInv, CallsInv
<1>3. CASE RenderSet
  <2>1. renderCall' = "none" /\ jsCall' # "schedule"
    BY <1>3 DEF RenderSet, RafInv
  <2>2. jsQueue' = jsQueue \/ jsQueue' = Append(jsQueue, "render")
    BY <1>3 DEF RenderSet
  <2>3. /\ Has(jsQueue', RafTasks) <=> Has(jsQueue, RafTasks)
        /\ Once(jsQueue, RafTasks) => Once(jsQueue', RafTasks)
    BY <2>2, OtherDispatch, RafSets
  <2>4. Tokens(Raf)'
    BY <1>1, <1>3, SetTokens, RafSets
  <2> QED BY <1>1, <2>1, <2>3, <2>4 DEF RafInv, CallsInv
<1> QED BY <1>2, <1>3

\* The animation frame is taken from the queue of the JavaScript thread.
LEMMA JsRafStep ==
  ASSUME TypeOK, WorkInv, RafInv, CallsInv, NEW t \in RafTasks, JsRaf(t)
  PROVE  RafInv' /\ CallsInv'
<1>1. /\ UNCHANGED <<pc, todo, onBefore, firing, jsCall, renderCall>> /\ Dispatched(t) /\ calls \in Nat
      /\ renderScheduled' \in {FALSE, renderScheduled} /\ calls' \in {calls, calls + 1}
  BY DEF JsRaf, BeginRaf, frameVars, callVars, TypeOK, histVars
<1>2. \A S : /\ t \in S => Has(jsQueue, S)
             /\ Once(jsQueue, S) => Once(jsQueue', S)
             /\ Once(jsQueue, S) /\ t \in S => ~Has(jsQueue', S)
  BY <1>1, TakeFacts
<1>3. /\ Has(jsQueue, RafTasks) /\ Has(jsQueue, {t}) /\ Has(jsQueue, Tasks)
      /\ ~Has(jsQueue', RafTasks) /\ Once(jsQueue', RafTasks)
  BY <1>2, RafSets DEF RafInv
<1>4. Spare(Raf) /\ Tokens(Raf)
  BY <1>3 DEF RafInv
<1>5. Spare(Raf)' /\ Tokens(Raf)'
  BY <1>1, <1>4 DEF Spare, Tokens
<1>6. calls = 0
  BY <1>1, <1>3 DEF CallsInv
<1>7. pc \notin {"swapBefore", "completeBefore"}
  <2>1. ~autoRender /\ t \in workTasks \cup awaited
    BY <1>3, RafSets DEF WorkInv
  <2> QED BY <2>1 DEF WorkInv
<1> QED BY <1>1, <1>3, <1>5, <1>6, <1>7 DEF RafInv, CallsInv, Spare

LEMMA RafStep ==
  ASSUME TypeOK, HandleInv, CallInv, FiringInv, WorkInv, RafInv, CallsInv, [Next]_vars,
         ~late, ~late', races = 0, races' = 0
  PROVE  RafInv' /\ CallsInv'
<1>0. calls \in Nat
  BY DEF TypeOK
<1>1. CASE Render
  <2>1. UNCHANGED <<todo, jsQueue, renderScheduled, calls, jsCall, renderCall>>
    BY <1>1 DEF Render, engineVars, jsVars, callVars, histVars
  <2>2. /\ Tokens(Raf)' /\ (Spare(Raf) => Spare(Raf)')
        /\ ~SwapBefore => (Has(firing', Raf) => Has(firing, Raf))
    BY <1>1, RenderTokens, RafSets DEF RafInv
  <2>3. RafInv'
    BY <2>1, <2>2 DEF RafInv
  <2>4. /\ SwapBefore => pc = "swapBefore"
        /\ ~SwapBefore => pc' \notin {"swapBefore", "completeBefore"}
    BY <1>1 DEF Render, RenderStep, SwapBefore, CompleteBefore, EndStart, Finish, Collect,
                WorkComplete, Present, SwapAfter, CompleteAfter, EndFinish
  <2> QED BY <2>1, <2>2, <2>3, <2>4 DEF CallsInv
<1>2. CASE RunContinuation
  BY <1>2, RunRaf
<1>3. CASE EmbedderStart
  <2>1. /\ UNCHANGED <<todo, onBefore, firing, renderScheduled, jsQueue, jsCall, renderCall>>
        /\ calls' = 0
    BY <1>3 DEF EmbedderStart, Start, engineVars, jsVars, callVars
  <2> QED BY <2>1, RafStill DEF CallsInv
<1>4. CASE JsRender
  <2>1. /\ Dispatched("render") /\ calls' = 0
        /\ UNCHANGED <<todo, onBefore, firing, renderScheduled, jsCall, renderCall>>
    BY <1>4 DEF JsRender, Start, engineVars, callVars
  <2>2. \A S : /\ Has(jsQueue', S) => Has(jsQueue, S)
               /\ Once(jsQueue, S) => Once(jsQueue', S)
    BY <2>1, TakeFacts
  <2> QED BY <2>1, <2>2, RafStill DEF CallsInv
<1>5. CASE JsEndSession \/ \E t \in XrTasks : JsXr(t)
  <2>1. /\ \E x : Dispatched(x)
        /\ UNCHANGED <<todo, onBefore, firing, renderScheduled, calls, pc, jsCall, renderCall>>
    BY <1>5 DEF JsEndSession, JsXr, frameVars, engineVars, callVars, histVars
  <2>2. \A S : /\ Has(jsQueue', S) => Has(jsQueue, S)
               /\ Once(jsQueue, S) => Once(jsQueue', S)
    BY <2>1, TakeFacts
  <2> QED BY <2>1, <2>2, RafStill DEF CallsInv
<1>6. ASSUME NEW t \in RafTasks, JsRaf(t) PROVE RafInv' /\ CallsInv'
  BY <1>6, JsRafStep
<1>7. CASE JsAttach
  <2>1. UNCHANGED <<renderScheduled, calls, pc, jsCall, renderCall>>
    BY <1>7 DEF JsAttach, engineVars, callVars, histVars
  <2>2. /\ Tokens(Raf)' /\ (Spare(Raf) => Spare(Raf)')
        /\ Has(firing', Raf) => Has(firing, Raf) \/ pc = "completeBefore"
    BY <1>7, AttachTokens, RafSets DEF RafInv
  <2>3. jsQueue' = jsQueue \/ jsQueue' = Append(jsQueue, "render")
    BY <1>7 DEF JsAttach
  <2>4. /\ Has(jsQueue', RafTasks) <=> Has(jsQueue, RafTasks)
        /\ Once(jsQueue, RafTasks) => Once(jsQueue', RafTasks)
    BY <2>3, OtherDispatch, RafSets
  <2> QED BY <2>1, <2>2, <2>4 DEF RafInv, CallsInv
<1>8. CASE RequestEnd
  <2>1. UNCHANGED <<todo, onBefore, firing, renderScheduled, calls, pc, jsCall, renderCall>>
    BY <1>8 DEF RequestEnd, frameVars, engineVars, callVars, histVars
  <2>2. /\ Has(jsQueue', RafTasks) <=> Has(jsQueue, RafTasks)
        /\ Once(jsQueue, RafTasks) => Once(jsQueue', RafTasks)
    BY <1>8, OtherDispatch, RafSets DEF RequestEnd
  <2> QED BY <2>1, <2>2, RafStill DEF CallsInv
<1>9. CASE RequestAnimationFrame
  <2>1. UNCHANGED <<todo, onBefore, firing, renderScheduled, jsQueue, calls, pc, renderCall>>
    BY <1>9 DEF RequestAnimationFrame, frameVars, jsVars, histVars
  <2>2. jsCall' = "schedule" => ~renderScheduled /\ renderCall # "schedule"
    BY <1>9 DEF RequestAnimationFrame, CountRace
  <2>3. Tokens(Raf)' /\ (Spare(Raf) => Spare(Raf)')
    BY <2>1 DEF RafInv, Tokens, Spare
  <2> QED BY <2>1, <2>2, <2>3 DEF RafInv, CallsInv
<1>10. CASE XrRequestAnimationFrame
  <2>1. /\ todo = << >> /\ todo' = <<"schedule", "xr">>
        /\ UNCHANGED <<onBefore, firing, jsQueue, calls, pc, renderScheduled, jsCall, renderCall>>
    BY <1>10 DEF XrRequestAnimationFrame, InJs, frameVars, engineVars, callVars, histVars
  <2>2. Raf # Xr
    BY DEF Raf, Xr
  <2>3. /\ Tokens(Raf)'
        /\ Spare(Raf) => Spare(Raf)'
    BY <2>1, <2>2, RequestTokens, RafSets DEF RafInv
  <2> QED BY <2>1, <2>3 DEF RafInv, CallsInv
<1>11. CASE \/ JsGetTask \/ JsReturn \/ AppCode \/ SessionCreated \/ Dispose \/ UNCHANGED vars
  <2>1. UNCHANGED <<todo, onBefore, firing, renderScheduled, jsQueue, calls, pc, jsCall, renderCall>>
    BY <1>11 DEF JsGetTask, JsReturn, AppReturn, EndCallback, AppCode, SessionCreated, Dispose,
                 vars, frameVars, engineVars, jsVars, callVars, histVars
  <2> QED BY <2>1, RafStill DEF CallsInv
<1>12. CASE JsRunInline \/ JsXrWork
  BY <1>12 DEF JsRunInline, JsXrWork, CallInv
<1>13. CASE JsSet \/ RenderSet
  BY <1>13, SetRaf
<1>14. CASE RenderXrWork
  <2> DEFINE t == NewTask(XrTasks)
  <2>1. /\ UNCHANGED <<todo, onBefore, firing, renderScheduled, calls, pc, jsCall>>
        /\ renderCall' = "none" /\ (jsQueue' = jsQueue \/ jsQueue' = Append(jsQueue, t))
    BY <1>14 DEF RenderXrWork, XrWork, engineVars
  <2>2. t \notin RafTasks /\ jsQueue \in Seq(Tasks \cup {"render", "endSession"})
    BY NewTaskFacts DEF TypeOK
  <2>3. /\ Has(jsQueue', RafTasks) <=> Has(jsQueue, RafTasks)
        /\ Once(jsQueue, RafTasks) => Once(jsQueue', RafTasks)
    BY <2>1, <2>2, GrowFacts
  <2> QED BY <2>1, <2>3, RafStill DEF CallsInv
<1> QED BY <1>1, <1>2, <1>3, <1>4, <1>5, <1>6, <1>7, <1>8, <1>9, <1>10, <1>11, <1>12, <1>13, <1>14
        DEF Next, Continuation, JsDispatched, JsNative, Application, Hung, Aborted
----------------------------------------------------------------------------
(* The XR frame.                                                           *)

LEMMA XrStep ==
  ASSUME TypeOK, HandleInv, CallInv, FiringInv, XrInv, [Next]_vars, ~late, ~late'
  PROVE  XrInv'
<1>0. Xr \in {Raf, Xr} /\ Tokens(Xr) /\ Raf # Xr
  BY DEF XrInv, Raf, Xr
<1>1. CASE Render
  <2>1. Tokens(Xr)' /\ (Spare(Xr) => Spare(Xr)')
    BY <1>0, <1>1, RenderTokens
  <2>2. xrScheduled' = xrScheduled
    BY <1>1 DEF Render, xrVars
  <2> QED BY <2>1, <2>2 DEF XrInv
<1>2. CASE RunContinuation
  <2>1. /\ Tokens(Xr)' /\ (Spare(Xr) => Spare(Xr)')
        /\ Head(firing) \in Xr => Spare(Xr)'
    BY <1>0, <1>2, RunTokens
  <2>2. xrScheduled' = xrScheduled \/ Head(firing) = "xr"
    BY <1>2 DEF RunContinuation, RafContinuation, EndFrame, xrVars
  <2> QED BY <2>1, <2>2 DEF XrInv, Xr
<1>3. CASE JsAttach
  <2>1. Tokens(Xr)' /\ (Spare(Xr) => Spare(Xr)')
    BY <1>0, <1>3, AttachTokens
  <2>2. xrScheduled' = xrScheduled
    BY <1>3 DEF JsAttach, xrVars
  <2> QED BY <2>1, <2>2 DEF XrInv
<1>4. CASE JsSet
  <2>1. /\ todo = << >> /\ todo' = <<"raf">> \o todo
        /\ UNCHANGED <<onBefore, firing, xrScheduled>>
    BY <1>4 DEF JsSet, CallInv, frameVars, xrVars
  <2>2. todo' = <<"raf">>
    BY <2>1
  <2>3. /\ Tokens(Xr)'
        /\ Spare(Xr) => Spare(Xr)'
    BY <1>0, <2>1, <2>2, RequestTokens
  <2> QED BY <2>1, <2>3 DEF XrInv
<1>5. CASE XrRequestAnimationFrame
  <2>1. /\ todo = << >> /\ UNCHANGED <<onBefore, firing>> /\ Spare(Xr)
        /\ todo' = <<"schedule", "xr">> /\ xrScheduled' = TRUE
    BY <1>5 DEF XrRequestAnimationFrame, InJs, frameVars, XrInv
  <2>2. Tokens(Xr)'
    BY <1>0, <2>1, RequestTokens
  <2> QED BY <2>1, <2>2 DEF XrInv
<1>6. CASE JsRunInline \/ JsXrWork
  BY <1>6 DEF JsRunInline, JsXrWork, CallInv
<1>7. CASE \/ EmbedderStart \/ JsDispatched \/ JsGetTask \/ JsReturn \/ RenderXrWork
           \/ UNCHANGED vars
  <2>1. UNCHANGED <<todo, onBefore, firing, xrScheduled>>
    BY <1>7 DEF RenderXrWork, XrWork, EmbedderStart, JsDispatched, JsRender, Start, JsRaf, JsXr, JsEndSession,
                JsGetTask, JsReturn, AppReturn, EndCallback, vars, frameVars, xrVars, jsVars
  <2> QED BY <2>1 DEF XrInv, Tokens, Spare
<1>8. CASE AppCode \/ RequestAnimationFrame \/ SessionCreated \/ RequestEnd \/ Dispose
  <2>1. UNCHANGED <<todo, onBefore, firing, xrScheduled>>
    BY <1>8 DEF AppCode, RequestAnimationFrame, SessionCreated, RequestEnd, Dispose, vars, frameVars, xrVars, jsVars
  <2> QED BY <2>1 DEF XrInv, Tokens, Spare
<1>9. CASE RenderSet
  <2>1. Tokens(Xr)' /\ (Spare(Xr) => Spare(Xr)')
    BY <1>0, <1>9, SetTokens
  <2>2. xrScheduled' = xrScheduled
    BY <1>9 DEF RenderSet, xrVars
  <2> QED BY <2>1, <2>2 DEF XrInv
<1> QED BY <1>1, <1>2, <1>3, <1>4, <1>5, <1>6, <1>7, <1>8, <1>9
        DEF Next, Continuation, JsNative, Application, Hung, Aborted

\* The rest of a sequence has what its head is not.
LEMMA KeepFacts ==
  ASSUME NEW T, NEW q \in Seq(T), q # << >>, NEW S, Head(q) \notin S, Has(q, S)
  PROVE  Has(Tail(q), S)
<1> DEFINE r == Tail(q)
<1>1. PICK i \in DOMAIN q : q[i] \in S
  BY DEF Has
<1>2. /\ Len(q) \in Nat /\ DOMAIN q = 1 .. Len(q) /\ DOMAIN r = 1 .. Len(q) - 1
      /\ Head(q) = q[1] /\ \A j \in DOMAIN r : r[j] = q[j + 1]
  OBVIOUS
<1>3. i # 1
  BY <1>1, <1>2
<1>4. i - 1 \in DOMAIN r /\ r[i - 1] = q[i]
  BY <1>1, <1>2, <1>3
<1> QED BY <1>1, <1>4 DEF Has

\* What runs before and after the frame, and what JavaScript is doing.
LEMMA FrameFacts ==
  ASSUME TypeOK, FiringInv
  PROVE  /\ ~Has(onBefore, End) /\ ~Has(onAfter, Xr)
         /\ ~Has(<< >>, End) /\ Once(<< >>, End) /\ ~Has(<< >>, Xr)
         /\ Once(onBefore, End)
         /\ "idle" \notin XrTasks /\ "app" \notin XrTasks /\ RafTasks \cap XrTasks = {}
         /\ RafTasks \subseteq Tasks /\ XrTasks \subseteq Tasks
         /\ pc \in {"idle", "swapBefore", "swapAfter"} => firing = << >>
         /\ pc \in {"idle", "swapBefore", "completeBefore", "runBefore"} => ~Has(firing, End)
<1>1. ~Has(onBefore, End)
  <2>1. onBefore \in Seq(BeforeConts) /\ BeforeConts \cap End = {}
    BY ContFacts DEF TypeOK, GraphicsTypeOK, End
  <2> QED BY <2>1, OtherFacts
<1>2. ~Has(onAfter, Xr)
  <2>1. onAfter \in Seq(AfterConts) /\ AfterConts \cap Xr = {}
    BY ContFacts DEF TypeOK, GraphicsTypeOK, Xr
  <2> QED BY <2>1, OtherFacts
<1>3. ~Has(<< >>, End) /\ Once(<< >>, End) /\ ~Has(<< >>, Xr)
  BY EmptyFacts
<1>4. Once(onBefore, End)
  BY <1>1 DEF Once, Has
<1>5. /\ "idle" \notin XrTasks /\ "app" \notin XrTasks /\ RafTasks \cap XrTasks = {}
      /\ RafTasks \subseteq Tasks /\ XrTasks \subseteq Tasks
  BY NewTaskFacts
<1>6. pc \in {"idle", "swapBefore", "swapAfter"} => firing = << >>
  BY DEF FiringInv
<1>7. ASSUME pc \in {"completeBefore", "runBefore"} PROVE ~Has(firing, End)
  <2>1. firing \in Seq(BeforeConts) /\ BeforeConts \cap End = {}
    BY <1>7, ContFacts DEF FiringInv, End
  <2> QED BY <2>1, OtherFacts
<1> QED BY <1>1, <1>2, <1>3, <1>4, <1>5, <1>6, <1>7

LEMMA FrameRender ==
  ASSUME TypeOK, FiringInv, FrameOK, autoRender, Render PROVE FrameOK'
<1>1. /\ js = "idle" /\ renderCall = "none"
      /\ UNCHANGED <<todo, js, renderCall, session, frame, xrFaults>>
  BY DEF Render, RenderThreadFree, jsVars, callVars, xrVars
<1>2. CASE SwapBefore
  <2>1. pc = "swapBefore" /\ firing' = onBefore /\ onAfter' = onAfter /\ pc' = "completeBefore"
    BY <1>2 DEF SwapBefore
  <2>2. ~frame /\ ~Has(onAfter, End) /\ ~Has(firing', End) /\ Once(firing', End)
    BY <1>1, <2>1, FrameFacts DEF FrameOK
  <2> QED BY <1>1, <2>1, <2>2, FrameFacts DEF FrameOK
<1>3. CASE SwapAfter
  <2>1. pc = "swapAfter" /\ firing' = onAfter /\ onAfter' = << >> /\ pc' = "completeAfter"
    BY <1>3 DEF SwapAfter
  <2> QED BY <1>1, <2>1, FrameFacts DEF FrameOK
<1>4. CASE ~SwapBefore /\ ~SwapAfter
  <2>1. UNCHANGED <<firing, onAfter>>
    BY <1>4 DEF Render, RenderStep, CompleteBefore, EndStart, Finish, Collect, WorkComplete,
                Present, CompleteAfter, EndFinish
  <2>2. \/ pc \notin {"runBefore", "started", "collect", "wait", "present", "swapAfter"}
        \/ pc' \in {"runBefore", "started", "collect", "wait", "present", "swapAfter"}
    BY <1>4 DEF Render, RenderStep, CompleteBefore, EndStart, Finish, Collect, WorkComplete,
                Present, CompleteAfter, EndFinish
  <2> QED BY <1>1, <2>1, <2>2 DEF FrameOK
<1> QED BY <1>2, <1>3, <1>4

LEMMA FrameRun ==
  ASSUME TypeOK, FiringInv, XrInv, FrameOK, autoRender, RunContinuation PROVE FrameOK'
<1>1. /\ js = "idle" /\ renderCall = "none" /\ pc' = pc /\ UNCHANGED <<todo, onAfter>>
      /\ firing # << >> /\ firing' = Tail(firing) /\ firing \in Seq(Conts)
  BY DEF RunContinuation, RenderThreadFree, TypeOK, GraphicsTypeOK
<1>2. /\ \A S : /\ Head(firing) \in S => Has(firing, S)
                /\ Has(firing', S) => Has(firing, S)
                /\ Once(firing, S) => Once(firing', S)
                /\ Once(firing, S) /\ Head(firing) \in S => ~Has(firing', S)
                /\ Head(firing) \notin S => (Has(firing', S) <=> Has(firing, S))
  BY <1>1, TailFacts, KeepFacts
<1>3. CASE Head(firing) = "raf" /\ RafContinuation
  <2>1. js' \notin XrTasks /\ UNCHANGED <<renderCall, frame, session, xrFaults>>
    <3>1. UNCHANGED <<renderCall, frame, session, xrFaults>>
      BY <1>3, <1>1 DEF RunContinuation, RafContinuation, xrVars
    <3>2. CASE disposed
      BY <1>1, <1>3, <3>1, <3>2, FrameFacts DEF RafContinuation
    <3>3. CASE ~disposed
      <4>1. js' = js \/ js' \in RafTasks
        BY <1>3, <3>3, NewTaskFacts DEF RafContinuation, BeginRaf
      <4> QED BY <1>1, <3>1, <4>1, FrameFacts
    <3> QED BY <3>2, <3>3
  <2>2. Head(firing) \notin End
    BY <1>3 DEF End
  <2> QED BY <1>1, <1>2, <2>1, <2>2, FrameFacts DEF FrameOK
<1>4. CASE Head(firing) = "xr" /\ XrContinuation
  <2>1. Head(firing) \in Xr /\ Head(firing) \notin End /\ Once(firing, Xr)
    BY <1>4 DEF Xr, End, XrInv, Tokens
  <2>2. Has(firing, Xr) /\ ~Has(firing', Xr) /\ ~frame
    BY <1>2, <2>1 DEF FrameOK
  <2>3. /\ UNCHANGED <<js, session>>
        /\ renderCall' = IF session = "active" THEN "beginFrame" ELSE "none"
    BY <1>4 DEF RunContinuation, XrContinuation
  <2>4. CASE session # "active"
    <3>1. UNCHANGED <<frame, xrFaults>>
      BY <1>4, <2>4 DEF XrContinuation
    <3> QED BY <1>1, <1>2, <2>1, <2>2, <2>3, <2>4, <3>1 DEF FrameOK
  <2>5. CASE session = "active"
    <3>1. /\ frame' = TRUE /\ renderCall' = "beginFrame"
          /\ xrFaults' = xrFaults \cup Failing("BeginFrame: m_frame == nullptr", ~frame)
      BY <1>4, <2>3, <2>5 DEF XrContinuation
    <3>2. xrFaults' = xrFaults
      BY <2>2, <3>1 DEF Failing
    <3>3. ~Has(onAfter, End) /\ ~Has(firing', End)
      BY <1>2, <2>1, <2>2 DEF FrameOK
    <3> QED BY <1>1, <1>2, <2>2, <2>3, <2>5, <3>1, <3>2, <3>3 DEF FrameOK
  <2> QED BY <2>4, <2>5
<1>5. CASE Head(firing) = "endFrame" /\ EndFrame
  <2>1. Head(firing) \in End
    BY <1>5 DEF End
  <2>2. Has(firing, End) /\ ~Has(firing', End) /\ frame /\ session = "active" /\ ~Has(onAfter, End)
    BY <1>2, <2>1 DEF FrameOK
  <2>3. UNCHANGED <<session, js, renderCall>>
    BY <1>5 DEF RunContinuation, EndFrame
  <2>4. /\ frame' = FALSE
        /\ xrFaults' = xrFaults \cup Failing("EndFrame: m_session != nullptr", session = "active")
                                \cup Failing("EndFrame: m_frame != nullptr", frame)
    BY <1>5 DEF EndFrame
  <2>5. xrFaults' = xrFaults
    BY <2>2, <2>4 DEF Failing
  <2> QED BY <1>1, <1>2, <2>2, <2>3, <2>4, <2>5, FrameFacts DEF FrameOK
<1>6. CASE Head(firing) \notin {"raf", "xr", "endFrame"}
  <2>1. UNCHANGED <<session, js, frame, xrFaults>> /\ renderCall' # "beginFrame"
    BY <1>6 DEF RunContinuation, xrVars
  <2>2. Head(firing) \notin End
    BY <1>6 DEF End
  <2> QED BY <1>1, <1>2, <2>1, <2>2 DEF FrameOK
<1> QED BY <1>3, <1>4, <1>5, <1>6 DEF RunContinuation

\* The continuations of the rendering thread end what they began.
LEMMA FrameRest ==
  ASSUME TypeOK, FiringInv, CallInv, FrameOK, autoRender, RenderSet \/ RenderXrWork
  PROVE  FrameOK'
<1>1. UNCHANGED <<pc, todo, onAfter, firing, session, frame, xrFaults>> /\ renderCall' = "none"
  BY DEF RenderSet, RenderXrWork, XrWork, xrVars
<1>2. CASE RenderSet
  <2>1. js' = js /\ renderCall = "schedule"
    BY <1>2 DEF RenderSet
  <2> QED BY <1>1, <2>1 DEF FrameOK
<1>3. CASE RenderXrWork
  <2>1. js' \in XrTasks /\ renderCall = "beginFrame"
    BY <1>3, NewTaskFacts DEF RenderXrWork, XrWork
  <2> QED BY <1>1, <2>1 DEF FrameOK
<1> QED BY <1>2, <1>3

\* What JavaScript takes from its queue.
LEMMA FrameDispatch ==
  ASSUME TypeOK, FiringInv, CallInv, WorkInv, FrameOK, autoRender, JsDispatched PROVE FrameOK'
<1>1. CASE JsRender
  <2>1. pc = "idle" /\ UNCHANGED <<onAfter, firing, js, todo, renderCall, frame, session, xrFaults>>
    BY <1>1 DEF JsRender, Start, callVars, xrVars
  <2> QED BY <2>1 DEF FrameOK
<1>2. CASE JsEndSession
  <2>1. /\ Dispatched("endSession") /\ UNCHANGED <<pc, onAfter, firing, todo, renderCall>>
        /\ js' = "app" /\ session' = "ended" /\ frame' = FALSE
        /\ xrFaults' = xrFaults \cup Failing("EndSession: m_session != nullptr", session = "active")
                                \cup Failing("EndSession: m_frame == nullptr", ~frame)
    BY <1>2 DEF JsEndSession, frameVars, callVars
  <2>2. pc = "idle" /\ js = "idle" /\ firing = << >>
    BY <2>1, TakeFacts, FrameFacts
  <2>3. renderCall # "beginFrame" /\ ~Has(onAfter, End) /\ ~Has(firing, End)
    BY <2>2, FrameFacts DEF CallInv, FrameOK
  <2>4. ~frame
    BY <2>2, <2>3, FrameFacts DEF FrameOK
  <2>5. xrFaults' \subseteq {"EndSession: m_session != nullptr"}
    BY <2>1, <2>4 DEF Failing, FrameOK
  <2> QED BY <2>1, <2>3, <2>5, FrameFacts DEF FrameOK
<1>3. ASSUME NEW t \in Tasks, Dispatched(t) PROVE FALSE
  <2>1. Has(jsQueue, Tasks)
    BY <1>3, TakeFacts
  <2> QED BY <2>1 DEF WorkInv
<1> QED BY <1>1, <1>2, <1>3, FrameFacts DEF JsDispatched, JsRaf, JsXr

LEMMA FrameAttach ==
  ASSUME TypeOK, HandleInv, FrameOK, autoRender, JsAttach PROVE FrameOK'
<1> DEFINE c == handle.cont
<1>1. /\ todo # << >> /\ c = Head(todo) /\ todo' = Tail(todo) /\ todo \in Seq(Conts)
      /\ onAfter \in Seq(AfterConts)
      /\ handle.age = "current" /\ UNCHANGED <<pc, js, renderCall, frame, session, xrFaults>>
  BY NoHandleFacts DEF JsAttach, AttachLater, HandleInv, TypeOK, GraphicsTypeOK, callVars, xrVars
<1>2. c \notin End /\ ~Has(todo', End) /\ c \in Conts
  <2>1. c \in End => Has(todo, End)
    BY <1>1, TailFacts
  <2>2. Has(todo', End) => Has(todo, End)
    BY <1>1, TailFacts
  <2>3. c \in Conts
    BY <1>1
  <2> QED BY <2>1, <2>2, <2>3 DEF FrameOK
<1>3. /\ Has(onAfter', End) <=> Has(onAfter, End)
      /\ Once(onAfter, End) => Once(onAfter', End)
      /\ firing' = firing
  <2>1. firing' = firing /\ (onAfter' = onAfter \/ onAfter' = Append(onAfter, c))
    BY <1>1, <1>2, ContFacts DEF JsAttach, AttachLater
  <2> QED BY <1>1, <1>2, <2>1, GrowFacts
<1> QED BY <1>1, <1>2, <1>3 DEF FrameOK

LEMMA FrameReturn ==
  ASSUME TypeOK, FiringInv, CallInv, WorkInv, FrameOK, autoRender, NEW t \in Tasks, EndCallback(t)
  PROVE  FrameOK'
<1>1. /\ js = t /\ js' = "idle" /\ js # "idle"
      /\ UNCHANGED <<pc, firing, todo, renderCall, frame, session, xrFaults>>
      /\ onAfter' = IF t \in XrTasks THEN Append(onAfter, "endFrame") ELSE onAfter
      /\ pc = "runBefore" /\ onAfter \in Seq(AfterConts) /\ "endFrame" \in End
  BY DEF EndCallback, InJs, callVars, xrVars, WorkInv, TypeOK, GraphicsTypeOK, End
<1>2. CASE t \in XrTasks
  <2>1. frame /\ ~Has(onAfter, End) /\ ~Has(firing, End) /\ renderCall = "none"
    BY <1>1, <1>2 DEF FrameOK, CallInv
  <2>2. Has(onAfter', End) /\ Once(onAfter', End)
    BY <1>1, <1>2, <2>1, AppendFacts DEF FrameOK
  <2> QED BY <1>1, <2>1, <2>2, FrameFacts DEF FrameOK
<1>3. CASE t \notin XrTasks
  BY <1>1, <1>3, FrameFacts DEF FrameOK
<1> QED BY <1>2, <1>3

LEMMA FrameStep ==
  ASSUME TypeOK, HandleInv, CallInv, FiringInv, WorkInv, XrInv, FrameInv, [Next]_vars, ~late'
  PROVE  FrameInv'
<1>1. autoRender' = autoRender
  BY DEF Next, EmbedderStart, Render, Continuation, RunContinuation, RenderSet, RenderXrWork,
         JsDispatched, JsRender, JsRaf, JsXr, JsEndSession, JsNative, JsSet, JsGetTask, JsAttach,
         JsRunInline, JsXrWork, JsReturn, AppReturn, EndCallback, Application, AppCode,
         RequestAnimationFrame, XrRequestAnimationFrame, SessionCreated, RequestEnd, Dispose,
         Hung, Aborted, vars
<1> SUFFICES ASSUME autoRender, FrameOK PROVE FrameOK'
  BY <1>1 DEF FrameInv
<1>2. CASE Render
  BY <1>2, FrameRender
<1>3. CASE RunContinuation
  BY <1>3, FrameRun
<1>4. CASE EmbedderStart
  BY <1>4 DEF EmbedderStart
<1>5. CASE JsDispatched
  BY <1>5, FrameDispatch
<1>6. CASE JsAttach
  BY <1>6, FrameAttach
<1>7. CASE JsRunInline \/ JsXrWork
  BY <1>7 DEF JsRunInline, JsXrWork, CallInv
<1>8. ASSUME NEW t \in Tasks, EndCallback(t) PROVE FrameOK'
  BY <1>8, FrameReturn
<1>9. CASE JsSet \/ XrRequestAnimationFrame
  <2>1. UNCHANGED <<onAfter, firing, pc, js, renderCall, frame, session, xrFaults>>
    BY <1>9 DEF JsSet, XrRequestAnimationFrame, frameVars, callVars, xrVars
  <2>2. todo' = <<"raf">> \/ todo' = <<"schedule", "xr">>
    <3>1. CASE JsSet
      <4>1. todo = << >> /\ todo' = <<"raf">> \o todo
        BY <3>1 DEF JsSet, histVars, CallInv
      <4>2. todo' = <<"raf">>
        BY <4>1
      <4> QED BY <4>2
    <3>2. CASE XrRequestAnimationFrame
      BY <3>2 DEF XrRequestAnimationFrame
    <3> QED BY <1>9, <3>1, <3>2
  <2>3. ~Has(<<"raf">>, End) /\ ~Has(<<"schedule", "xr">>, End)
    BY ShortFacts DEF End
  <2> QED BY <2>1, <2>2, <2>3 DEF FrameOK
<1>10. CASE RenderSet \/ RenderXrWork
  BY <1>10, FrameRest
<1>11. CASE SessionCreated
  <2>1. /\ UNCHANGED <<onAfter, firing, pc, js, todo, renderCall, frame, xrFaults>>
        /\ session' = "active"
    BY <1>11 DEF SessionCreated, frameVars, jsVars, callVars
  <2> QED BY <2>1 DEF FrameOK
<1>12. CASE AppCode \/ AppReturn
  <2>1. /\ UNCHANGED <<onAfter, firing, pc, todo, renderCall, frame, session, xrFaults>>
        /\ {js, js'} \subseteq {"idle", "app"}
    BY <1>12 DEF AppCode, AppReturn, JsFree, frameVars, callVars, xrVars
  <2> QED BY <2>1, FrameFacts DEF FrameOK
<1>13. CASE RequestAnimationFrame \/ JsGetTask \/ RequestEnd \/ Dispose \/ UNCHANGED vars
  <2>1. UNCHANGED <<onAfter, firing, pc, js, todo, renderCall, frame, session, xrFaults>>
    BY <1>13 DEF RequestAnimationFrame, JsGetTask, RequestEnd, Dispose, vars, frameVars, xrVars,
                 jsVars, callVars
  <2> QED BY <2>1 DEF FrameOK
<1> QED BY <1>2, <1>3, <1>4, <1>5, <1>6, <1>7, <1>8, <1>9, <1>10, <1>11, <1>12, <1>13
        DEF Next, Continuation, JsNative, JsReturn, Application, Hung, Aborted
----------------------------------------------------------------------------
(* Every behaviour.                                                        *)

LEMMA InitIInv == Init => IInv
<1> SUFFICES ASSUME Init PROVE IInv
  OBVIOUS
<1> USE DEF Init, GraphicsInit
<1>1. TypeOK
  <2>1. /\ NoHandle \in [cont : Conts \cup {NoCont}, age : Ages]
        /\ task \in [Tasks -> TaskStates]
    BY DEF NoHandle, Ages, TaskStates
  <2>2. GraphicsTypeOK
    <3>1. /\ rendering \in BOOLEAN /\ pc = "idle" /\ workDone \in BOOLEAN
          /\ workTasks \subseteq Tasks /\ awaited \subseteq Tasks
      OBVIOUS
    <3>2. onBefore \in Seq(BeforeConts) /\ onAfter \in Seq(AfterConts) /\ firing \in Seq(Conts)
      OBVIOUS
    <3> HIDE DEF Init, GraphicsInit
    <3>3. handle = NoHandle
      BY DEF Init, GraphicsInit
    <3> QED BY <2>1, <3>1, <3>2, <3>3 DEF GraphicsTypeOK
  <2>3. {autoRender, renderScheduled, rafPending, disposed, xrScheduled, frame, late} \subseteq BOOLEAN
    OBVIOUS
  <2>4. /\ jsQueue \in Seq(Tasks \cup {"render", "endSession"}) /\ todo \in Seq(Conts)
        /\ js \in Tasks \cup {"idle", "app"} /\ session \in {"none", "active", "ended"}
        /\ calls \in Nat /\ races \in 0 .. MaxRaces
        /\ {jsCall, renderCall} \subseteq {"none", "schedule", "beginFrame"}
    BY RenderLoopAssumption
  <2> QED BY <2>2, <2>3, <2>4 DEF TypeOK
<1>2. /\ \A S : ~Has(<< >>, S) /\ Once(<< >>, S)
      /\ "idle" \notin Tasks /\ XrTasks \subseteq Tasks
  BY EmptyFacts, NewTaskFacts
<1>3. HandleInv /\ CallInv /\ FiringInv
  BY NoHandleFacts DEF HandleInv, CallInv, FiringInv
<1>4. WorkInv
  BY <1>2 DEF WorkInv
<1>5. RafInv /\ CallsInv /\ XrInv
  BY <1>2 DEF RafInv, CallsInv, XrInv, Tokens, Spare
<1>6. FrameInv
  BY <1>2 DEF FrameInv, FrameOK
<1> QED BY <1>1, <1>3, <1>4, <1>5, <1>6 DEF IInv

\* What the history variables have counted stays counted.
LEMMA HistoryGrows ==
  ASSUME [Next]_vars, races \in Nat
  PROVE  (late => late') /\ (races' = 0 => races = 0)
<1>1. late' = late \/ late' = TRUE
  BY DEF Next, EmbedderStart, Render, Continuation, RunContinuation, RenderSet, RenderXrWork,
         JsDispatched, JsRender, JsRaf, JsXr, JsEndSession, JsNative, JsSet, JsGetTask, JsAttach,
         JsRunInline, JsXrWork, JsReturn, AppReturn, EndCallback, Application, AppCode,
         RequestAnimationFrame, XrRequestAnimationFrame, SessionCreated, RequestEnd, Dispose,
         Hung, Aborted, vars, histVars
<1>2. races' = races \/ races' = races + 1
  BY DEF Next, EmbedderStart, Render, Continuation, RunContinuation, RenderSet, RenderXrWork,
         JsDispatched, JsRender, JsRaf, JsXr, JsEndSession, JsNative, JsSet, JsGetTask, JsAttach,
         JsRunInline, JsXrWork, JsReturn, AppReturn, EndCallback, Application, AppCode,
         RequestAnimationFrame, XrRequestAnimationFrame, SessionCreated, RequestEnd, Dispose,
         Hung, Aborted, CountRace,
         callVars, vars
<1> QED BY <1>1, <1>2

LEMMA NextIInv == IInv /\ [Next]_vars => IInv'
<1> SUFFICES ASSUME IInv, [Next]_vars PROVE IInv'
  OBVIOUS
<1>1. TypeOK /\ HandleInv /\ CallInv /\ FiringInv
  BY DEF IInv
<1>2. TypeOK'
  BY <1>1, RenderTypes, RunTypes, RestTypes, InlineTypes, JsRestTypes, DispatchTypes, OtherTypes
     DEF Next, Continuation, JsNative, Hung, Aborted
<1>3. HandleInv' /\ CallInv' /\ FiringInv'
  BY <1>1, HandleStep, CallStep, FiringStep
<1>4. races \in Nat
  BY <1>1, RenderLoopAssumption DEF TypeOK
<1>5. (late => late') /\ (races' = 0 => races = 0)
  BY <1>4, HistoryGrows
<1>6. ASSUME ~late' PROVE (WorkInv /\ XrInv /\ FrameInv)'
  <2>1. WorkInv /\ XrInv /\ FrameInv /\ ~late
    BY <1>5, <1>6 DEF IInv
  <2> QED BY <1>1, <1>6, <2>1, WorkStep, XrStep, FrameStep
<1>7. ASSUME ~late', races' = 0 PROVE (RafInv /\ CallsInv)'
  <2>1. WorkInv /\ RafInv /\ CallsInv /\ ~late /\ races = 0
    BY <1>5, <1>7 DEF IInv
  <2> QED BY <1>1, <1>7, <2>1, RafStep
<1> QED BY <1>2, <1>3, <1>6, <1>7 DEF IInv

(* The invariant of the frames holds in every reachable state, for any tasks *)
(* and in both modes of rendering; what it says of the one request for an    *)
(* animation frame, until two threads race for m_isRenderScheduled           *)
(* (Graphics.cpp:28-95, NativeEngine.cpp:507-594, NativeXr.cpp:236-471).     *)
THEOREM Invariant == Spec => []IInv
BY InitIInv, NextIInv, PTL DEF Spec

\* The variables keep their types.
THEOREM TypesHold == Spec => []TypeOK
<1>1. IInv => TypeOK
  BY DEF IInv
<1> QED BY <1>1, Invariant, PTL

(* Finish never calls bgfx::frame() while a callback runs, in either mode:   *)
(* what is dispatched or runs is in the work of the frame, and the frame     *)
(* waits until there is no work (Graphics.cpp:41-95).  BeginFrame calls it   *)
(* with no callback running when rendering is automatic, since the thread is *)
(* the same (NativeXr.cpp:432).                                              *)
THEOREM PresentExcludes == Spec => []PresentExcludesCallbacks
<1>1. IInv => PresentExcludesCallbacks
  <2> SUFFICES ASSUME IInv, ~late, js \in Tasks,
                      \/ pc = "present"
                      \/ autoRender /\ renderCall = "beginFrame"
               PROVE  FALSE
    BY DEF PresentExcludesCallbacks
  <2>1. WorkInv /\ CallInv /\ js # "idle"
    BY NewTaskFacts DEF IInv
  <2> QED BY <2>1 DEF WorkInv, CallInv
<1> QED BY <1>1, Invariant, PTL

(* One animation callback per frame, as long as no two threads race for      *)
(* m_isRenderScheduled, which with automatic rendering they cannot: the      *)
(* request is in one place, and a new one waits for the next frame's source  *)
(* (NativeEngine.cpp:510-594).                                               *)
THEOREM OneCallback == Spec => []OneCallbackPerFrame
<1>1. IInv => OneCallbackPerFrame
  <2> SUFFICES ASSUME IInv PROVE OneCallbackPerFrame
    OBVIOUS
  <2>1. races \in Nat
    BY RenderLoopAssumption DEF IInv, TypeOK
  <2>2. autoRender => ~late /\ races = 0
    BY DEF IInv, HandleInv, CallInv
  <2>3. ~late /\ races = 0 => calls <= 1
    BY DEF IInv, CallsInv
  <2> QED BY <2>1, <2>2, <2>3 DEF OneCallbackPerFrame
<1> QED BY <1>1, Invariant, PTL

(* The assertions about m_session and m_frame hold with automatic rendering, *)
(* but for that of a session that is ended twice: an XR frame ends in the    *)
(* frame it began in, and a session ends between frames                      *)
(* (NativeXr.cpp:236-471, 2114-2131).                                        *)
THEOREM XrProtocol == Spec => []XrFrameProtocol
<1>1. IInv => XrFrameProtocol
  BY DEF IInv, HandleInv, FrameInv, FrameOK, XrFrameProtocol
<1> QED BY <1>1, Invariant, PTL
----------------------------------------------------------------------------
(* Nothing that is asked for is lost: the part of RequestServed and of       *)
(* FrameFinishes that does not depend on scheduling.                         *)

\* A request has its continuation or its work somewhere on its way.
RequestKept ==
  /\ rafPending => renderScheduled \/ jsCall = "schedule"
  /\ renderScheduled /\ ~disposed => ~Spare(Raf) \/ Has(jsQueue, RafTasks)
  /\ xrScheduled => ~Spare(Xr)

\* With automatic rendering the frame that will serve it is dispatched.
FrameKept ==
  autoRender =>
    /\ Has(onBefore, Raf) => Has(jsQueue, {"render"}) \/ pc = "swapBefore"
    /\ pc \notin {"idle", "runBefore"} => js = "idle"

\* Work that a frame waits for ends, or is where it will be taken up.
InHand(t) == \/ task[t] \in {"done", "failed"}
             \/ task[t] = "queued" /\ Has(jsQueue, {t})
             \/ task[t] = "running" /\ js = t

WorkKept == /\ pc = "wait" => workTasks = {}
            /\ \A t \in workTasks \cup awaited : InHand(t)

KeptInv == ~late => RequestKept /\ FrameKept /\ WorkKept

\* What is not at the head of a sequence stays in it.
LEMMA TailKeeps ==
  ASSUME NEW T, NEW q \in Seq(T), q # << >>, NEW S, Has(q, S), Head(q) \notin S
  PROVE  Has(Tail(q), S)
<1>1. PICK i \in 1 .. Len(q) : q[i] \in S
  BY DEF Has
<1>2. i # 1 /\ Len(q) \in Nat
  BY <1>1
<1>3. i - 1 \in 1 .. Len(q) - 1 /\ Tail(q)[i - 1] = q[i] /\ DOMAIN Tail(q) = 1 .. Len(q) - 1
  BY <1>1, <1>2
<1> QED BY <1>1, <1>3 DEF Has

\* A sequence that grows, if at all, keeps what it has.
LEMMA GrowKeeps ==
  ASSUME NEW T, NEW q \in Seq(T), NEW x, NEW r, r = q \/ r = Append(q, x), NEW S, Has(q, S)
  PROVE  Has(r, S)
BY AppendFacts

\* What is taken from the queue of the JavaScript thread leaves the rest.
LEMMA TakeKeeps ==
  ASSUME TypeOK, NEW x, Dispatched(x), NEW S, x \notin S, Has(jsQueue, S)
  PROVE  Has(jsQueue', S)
<1>1. /\ jsQueue \in Seq(Tasks \cup {"render", "endSession"}) /\ jsQueue # << >>
      /\ Head(jsQueue) = x /\ jsQueue' = Tail(jsQueue)
  BY DEF TypeOK, Dispatched
<1> QED BY <1>1, TailKeeps

\* Continuations are moved, not dropped.
LEMMA RenderKeeps ==
  ASSUME TypeOK, FiringInv, Render, NEW S \in {Raf, Xr}, ~Spare(S)
  PROVE  ~Spare(S)'
<1>1. todo' = todo
  BY DEF Render, jsVars
<1>2. CASE SwapBefore
  <2>1. firing = << >> /\ firing' = onBefore
    BY <1>2 DEF SwapBefore, FiringInv
  <2> QED BY <1>1, <2>1, EmptyFacts DEF Spare
<1>3. CASE SwapAfter
  <2>1. firing = << >> /\ onBefore' = onBefore
    BY <1>3 DEF SwapAfter, FiringInv
  <2> QED BY <1>1, <2>1, EmptyFacts DEF Spare
<1>4. CASE ~SwapBefore /\ ~SwapAfter
  <2>1. firing' = firing /\ onBefore' = onBefore
    BY <1>4 DEF Render, RenderStep, CompleteBefore, EndStart, Finish, Collect, WorkComplete,
                Present, CompleteAfter, EndFinish
  <2> QED BY <1>1, <2>1 DEF Spare
<1> QED BY <1>2, <1>3, <1>4

LEMMA AttachKeeps ==
  ASSUME TypeOK, HandleInv, JsAttach, NEW S \in {Raf, Xr}, ~Spare(S)
  PROVE  ~Spare(S)'
<1> DEFINE c == handle.cont
<1>1. todo # << >> /\ c = Head(todo) /\ todo' = Tail(todo) /\ Shifts
  BY ShiftFacts, NoHandleFacts DEF JsAttach, AttachLater, HandleInv
<1>2. S \subseteq BeforeConts
  BY ContFacts DEF Raf, Xr
<1>3. \/ firing' = Append(firing, c) /\ onBefore' = onBefore
      \/ onBefore' = Append(onBefore, c) /\ firing' = firing
      \/ c \notin S /\ UNCHANGED <<firing, onBefore>>
  BY <1>2 DEF JsAttach, AttachLater
<1>4. /\ Has(Append(firing, c), S) <=> Has(firing, S) \/ c \in S
      /\ Has(Append(onBefore, c), S) <=> Has(onBefore, S) \/ c \in S
  BY <1>1, AppendFacts DEF Shifts
<1>5. CASE c \in S
  BY <1>3, <1>4, <1>5 DEF Spare
<1>6. CASE c \notin S
  <2>1. Has(todo, S) => Has(todo', S)
    BY <1>1, <1>6, TailKeeps DEF Shifts
  <2> QED BY <1>3, <1>4, <2>1 DEF Spare
<1> QED BY <1>5, <1>6

LEMMA RunKeeps ==
  ASSUME TypeOK, RunContinuation, NEW S \in {Raf, Xr}, ~Spare(S), Head(firing) \notin S
  PROVE  ~Spare(S)'
<1>1. /\ firing # << >> /\ firing' = Tail(firing) /\ UNCHANGED <<todo, onBefore>> /\ Shifts
  BY ShiftFacts DEF RunContinuation
<1>2. Has(firing, S) => Has(firing', S)
  BY <1>1, TailKeeps DEF Shifts
<1> QED BY <1>1, <1>2 DEF Spare

\* The requests are where they were, or one step further.
LEMMA StillKept ==
  ASSUME RequestKept, UNCHANGED <<rafPending, renderScheduled, disposed, xrScheduled, jsCall>>,
         \A S \in {Raf, Xr} : ~Spare(S) => ~Spare(S)',
         Has(jsQueue, RafTasks) => Has(jsQueue', RafTasks)
  PROVE  RequestKept'
BY DEF RequestKept

LEMMA RequestRun ==
  ASSUME TypeOK, RequestKept, RunContinuation
  PROVE  RequestKept'
<1>1. /\ UNCHANGED jsCall /\ jsQueue \in Seq(Tasks \cup {"render", "endSession"})
      /\ Raf # Xr
  BY DEF RunContinuation, TypeOK, Raf, Xr
<1>2. \A S \in {Raf, Xr} : ~Spare(S) /\ Head(firing) \notin S => ~Spare(S)'
  BY RunKeeps
<1>3. /\ Head(firing) \notin Raf <=> Head(firing) # "raf"
      /\ Head(firing) \notin Xr <=> Head(firing) # "xr"
  BY DEF Raf, Xr
<1>4. CASE Head(firing) = "schedule"
  <2>1. UNCHANGED <<rafPending, renderScheduled, disposed, xrScheduled, jsQueue>>
    BY <1>4 DEF RunContinuation, engineVars, xrVars
  <2>2. \A S \in {Raf, Xr} : ~Spare(S) => ~Spare(S)'
    BY <1>2, <1>3, <1>4
  <2> QED BY <1>1, <2>1, <2>2, StillKept
<1>5. CASE Head(firing) = "raf" /\ RafContinuation
  <2> DEFINE t == NewTask(RafTasks)
  <2>1. UNCHANGED <<disposed, xrScheduled>> /\ (~Spare(Xr) => ~Spare(Xr)')
    BY <1>2, <1>3, <1>5 DEF RafContinuation, xrVars
  <2>2. CASE disposed
    <3>1. UNCHANGED <<renderScheduled, rafPending>>
      BY <1>5, <2>2 DEF RafContinuation
    <3> QED BY <1>1, <2>1, <2>2, <3>1 DEF RequestKept
  <2>3. CASE ~disposed /\ autoRender
    <3>1. renderScheduled' = FALSE /\ rafPending' = FALSE
      BY <1>5, <2>3 DEF RafContinuation, BeginRaf
    <3> QED BY <2>1, <3>1 DEF RequestKept
  <2>4. CASE ~disposed /\ ~autoRender
    <3>1. UNCHANGED <<renderScheduled, rafPending>> /\ jsQueue' = Append(jsQueue, t)
      BY <1>5, <2>4 DEF RafContinuation
    <3>2. Has(jsQueue', RafTasks)
      BY <1>1, <3>1, NewTaskFacts, AppendFacts
    <3> QED BY <1>1, <2>1, <3>1, <3>2 DEF RequestKept
  <2> QED BY <2>2, <2>3, <2>4
<1>6. CASE (Head(firing) = "xr" /\ XrContinuation) \/ (Head(firing) = "endFrame" /\ EndFrame)
  <2>1. /\ UNCHANGED <<rafPending, renderScheduled, disposed, jsQueue>>
        /\ xrScheduled' = FALSE \/ (xrScheduled' = xrScheduled /\ Head(firing) # "xr")
    BY <1>6 DEF XrContinuation, EndFrame, engineVars
  <2>2. (~Spare(Raf) => ~Spare(Raf)') /\ (Head(firing) # "xr" /\ ~Spare(Xr) => ~Spare(Xr)')
    BY <1>2, <1>3, <1>6
  <2> QED BY <1>1, <2>1, <2>2 DEF RequestKept
<1> QED BY <1>4, <1>5, <1>6 DEF RunContinuation

\* m_isRenderScheduled is set, and there is a continuation to show for it.
LEMMA RequestSet ==
  ASSUME TypeOK, RequestKept, JsSet \/ RenderSet
  PROVE  RequestKept'
<1>1. renderScheduled' = TRUE /\ UNCHANGED <<disposed, xrScheduled>> /\ Shifts
  BY ShiftFacts DEF JsSet, RenderSet, xrVars
<1>2. "raf" \in Raf /\ "raf" \notin Xr
  BY DEF Raf, Xr
<1>3. CASE JsSet
  <2>1. todo' = <<"raf">> \o todo /\ UNCHANGED <<onBefore, firing>>
    BY <1>3 DEF JsSet, frameVars
  <2>2. /\ Len(todo) \in Nat /\ DOMAIN todo = 1 .. Len(todo)
        /\ DOMAIN todo' = 1 .. Len(todo) + 1 /\ todo'[1] = "raf"
        /\ \A i \in 1 .. Len(todo) : todo'[i + 1] = todo[i]
    BY <1>1, <2>1 DEF Shifts
  <2>3. Has(todo', Raf)
    BY <1>2, <2>2 DEF Has
  <2>4. Has(todo, Xr) => Has(todo', Xr)
    <3> SUFFICES ASSUME NEW i \in 1 .. Len(todo), todo[i] \in Xr PROVE Has(todo', Xr)
      BY <2>2 DEF Has
    <3>1. i + 1 \in DOMAIN todo' /\ todo'[i + 1] \in Xr
      BY <2>2
    <3> QED BY <3>1 DEF Has
  <2> QED BY <1>1, <2>1, <2>3, <2>4 DEF RequestKept, Spare
<1>4. CASE RenderSet
  <2>1. onBefore' = Append(onBefore, "raf") /\ UNCHANGED <<todo, firing>>
    BY <1>4 DEF RenderSet
  <2>2. /\ Has(onBefore', Raf) <=> Has(onBefore, Raf) \/ "raf" \in Raf
        /\ Has(onBefore', Xr) <=> Has(onBefore, Xr) \/ "raf" \in Xr
    BY <1>1, <2>1, AppendFacts DEF Shifts
  <2> QED BY <1>1, <1>2, <2>1, <2>2 DEF RequestKept, Spare
<1> QED BY <1>3, <1>4

LEMMA RequestStep ==
  ASSUME TypeOK, HandleInv, CallInv, FiringInv, RequestKept, [Next]_vars, ~late'
  PROVE  RequestKept'
<1>0. RafTasks \in SUBSET Tasks /\ "render" \notin RafTasks /\ "endSession" \notin RafTasks
      /\ RafTasks \cap XrTasks = {}
  BY NewTaskFacts
<1>1. CASE Render
  <2>1. UNCHANGED <<rafPending, renderScheduled, disposed, xrScheduled, jsQueue, jsCall>>
    BY <1>1 DEF Render, engineVars, xrVars, jsVars, callVars
  <2>2. \A S \in {Raf, Xr} : ~Spare(S) => ~Spare(S)'
    BY <1>1, RenderKeeps
  <2> QED BY <2>1, <2>2, StillKept
<1>2. CASE RunContinuation
  BY <1>2, RequestRun
<1>3. CASE JsAttach
  <2>1. /\ UNCHANGED <<rafPending, renderScheduled, disposed, xrScheduled, jsCall>>
        /\ jsQueue' = jsQueue \/ jsQueue' = Append(jsQueue, "render")
    BY <1>3 DEF JsAttach, engineVars, xrVars, callVars
  <2>2. \A S \in {Raf, Xr} : ~Spare(S) => ~Spare(S)'
    BY <1>3, AttachKeeps
  <2>3. Has(jsQueue, RafTasks) => Has(jsQueue', RafTasks)
    BY <2>1, GrowKeeps DEF TypeOK
  <2> QED BY <2>1, <2>2, <2>3, StillKept
<1>4. CASE EmbedderStart \/ JsGetTask \/ JsReturn \/ AppCode \/ SessionCreated \/ UNCHANGED vars
  <2>1. UNCHANGED <<todo, onBefore, firing, rafPending, renderScheduled, disposed, xrScheduled,
                    jsQueue, jsCall>>
    BY <1>4 DEF EmbedderStart, Start, JsGetTask, JsReturn, AppReturn, EndCallback, AppCode,
                SessionCreated, vars, frameVars, engineVars, xrVars, jsVars, callVars
  <2> QED BY <2>1, StillKept DEF Spare
<1>5. ASSUME NEW x, Dispatched(x), x \notin RafTasks,
             UNCHANGED <<todo, onBefore, firing, rafPending, renderScheduled, disposed, xrScheduled,
                       jsCall>>
      PROVE  RequestKept'
  <2>1. Has(jsQueue, RafTasks) => Has(jsQueue', RafTasks)
    BY <1>5, TakeKeeps
  <2> QED BY <1>5, <2>1, StillKept DEF Spare
<1>6. CASE JsRender \/ JsEndSession
  <2>1. /\ Dispatched("render") \/ Dispatched("endSession")
        /\ UNCHANGED <<todo, onBefore, firing, rafPending, renderScheduled, disposed, xrScheduled,
                       jsCall>>
    BY <1>6 DEF JsRender, Start, JsEndSession, frameVars, engineVars, xrVars, callVars
  <2> QED BY <1>0, <1>5, <2>1
<1>7. ASSUME NEW t \in XrTasks, JsXr(t) PROVE RequestKept'
  <2>1. /\ Dispatched(t)
        /\ UNCHANGED <<todo, onBefore, firing, rafPending, renderScheduled, disposed, xrScheduled,
                       jsCall>>
    BY <1>7 DEF JsXr, frameVars, engineVars, callVars
  <2> QED BY <1>0, <1>5, <2>1
<1>8. ASSUME NEW t \in RafTasks, JsRaf(t) PROVE RequestKept'
  <2>1. /\ UNCHANGED <<todo, onBefore, firing, disposed, xrScheduled, jsCall>>
        /\ \/ disposed /\ UNCHANGED <<renderScheduled, rafPending>>
           \/ renderScheduled' = FALSE /\ rafPending' = FALSE
    BY <1>8 DEF JsRaf, BeginRaf, frameVars, xrVars, callVars
  <2> QED BY <2>1 DEF RequestKept, Spare
<1>9. CASE RequestAnimationFrame
  <2>1. /\ UNCHANGED <<todo, onBefore, firing, disposed, xrScheduled, renderScheduled, jsQueue>>
        /\ jsCall' = IF renderScheduled THEN "none" ELSE "schedule"
    BY <1>9 DEF RequestAnimationFrame, frameVars, xrVars, jsVars
  <2> QED BY <2>1 DEF RequestKept, Spare
<1>10. CASE XrRequestAnimationFrame
  <2>1. /\ UNCHANGED <<onBefore, firing, disposed, rafPending, renderScheduled, jsQueue, jsCall>>
        /\ todo = << >> /\ todo' = <<"schedule", "xr">>
    BY <1>10 DEF XrRequestAnimationFrame, InJs, frameVars, engineVars, callVars
  <2>2. Has(todo', Xr) /\ (~Spare(Raf) => ~Spare(Raf)')
    BY <2>1, ShortFacts, EmptyFacts DEF Xr, Spare
  <2> QED BY <2>1, <2>2 DEF RequestKept, Spare
<1>11. CASE RequestEnd
  <2>1. /\ UNCHANGED <<todo, onBefore, firing, rafPending, renderScheduled, disposed, xrScheduled,
                       jsCall>>
        /\ jsQueue' = Append(jsQueue, "endSession")
    BY <1>11 DEF RequestEnd, frameVars, engineVars, xrVars, callVars
  <2>2. Has(jsQueue, RafTasks) => Has(jsQueue', RafTasks)
    BY <2>1, <1>0, OtherDispatch
  <2> QED BY <2>1, <2>2, StillKept DEF Spare
<1>12. CASE Dispose
  <2>1. /\ UNCHANGED <<todo, onBefore, firing, rafPending, renderScheduled, xrScheduled, jsQueue,
                       jsCall>>
        /\ disposed'
    BY <1>12 DEF Dispose, frameVars, xrVars, jsVars, callVars
  <2> QED BY <2>1 DEF RequestKept, Spare
<1>13. CASE JsRunInline \/ JsXrWork
  BY <1>13 DEF JsRunInline, JsXrWork, CallInv
<1>14. CASE JsSet \/ RenderSet
  BY <1>14, RequestSet
<1>15. CASE RenderXrWork
  <2>1. /\ UNCHANGED <<todo, onBefore, firing, rafPending, renderScheduled, disposed, xrScheduled,
                       jsCall>>
        /\ jsQueue' = jsQueue \/ jsQueue' = Append(jsQueue, NewTask(XrTasks))
    BY <1>15 DEF RenderXrWork, XrWork, engineVars, xrVars
  <2>2. Has(jsQueue, RafTasks) => Has(jsQueue', RafTasks)
    BY <2>1, GrowKeeps DEF TypeOK
  <2> QED BY <2>1, <2>2, StillKept DEF Spare
<1> QED BY <1>1, <1>2, <1>3, <1>4, <1>6, <1>7, <1>8, <1>9, <1>10, <1>11, <1>12, <1>13, <1>14, <1>15
        DEF Next, Continuation, JsDispatched, JsNative, Application, Hung, Aborted

\* What the frame step of the JavaScript thread needs: it stops while a frame goes on.
LEMMA FrameKeptRun ==
  ASSUME TypeOK, FiringInv, autoRender, FrameKept, RunContinuation
  PROVE  FrameKept'
<1>1. /\ UNCHANGED <<pc, onBefore, autoRender>> /\ js = "idle" /\ firing # << >>
      /\ pc \in {"runBefore", "runAfter"}
  BY DEF RunContinuation, RenderThreadFree
<1>2. Head(firing) \in {"raf", "xr"} => pc = "runBefore"
  <2>1. CASE pc = "runAfter"
    <3>1. firing \in Seq(AfterConts)
      BY <2>1 DEF FiringInv
    <3>2. Head(firing) \in AfterConts
      BY <1>1, <3>1
    <3> QED BY <3>2, ContFacts
  <2> QED BY <1>1, <2>1
<1>3. pc' \notin {"idle", "runBefore"} => js' = "idle"
  <2>1. Head(firing) \in {"schedule", "endFrame"} => js' = js
    BY DEF RunContinuation, EndFrame
  <2>2. Head(firing) \in {"raf", "xr", "schedule", "endFrame"}
    BY DEF RunContinuation
  <2> QED BY <1>1, <1>2, <2>1, <2>2
<1>4. jsQueue' = jsQueue
  BY DEF RunContinuation, RafContinuation, XrContinuation, EndFrame
<1> QED BY <1>1, <1>3, <1>4 DEF FrameKept

\* The rest of ScheduleRender dispatches the frame.
LEMMA FrameKeptRest ==
  ASSUME TypeOK, CallInv, autoRender, FrameKept, RenderSet \/ RenderXrWork
  PROVE  FrameKept'
<1>1. UNCHANGED <<pc, autoRender>> /\ jsQueue \in Seq(Tasks \cup {"render", "endSession"})
  BY DEF RenderSet, RenderXrWork, TypeOK
<1>2. CASE RenderSet
  <2>1. jsQueue' = Append(jsQueue, "render") /\ js' = js /\ "render" \in {"render"}
    BY <1>2 DEF RenderSet
  <2>2. Has(jsQueue', {"render"})
    BY <1>1, <2>1, AppendFacts
  <2> QED BY <1>1, <2>1, <2>2 DEF FrameKept
<1>3. CASE RenderXrWork
  <2>1. pc = "runBefore" /\ UNCHANGED <<onBefore, jsQueue>>
    BY <1>3 DEF RenderXrWork, XrWork, CallInv
  <2> QED BY <1>1, <2>1 DEF FrameKept
<1> QED BY <1>2, <1>3

LEMMA FrameKeptStep ==
  ASSUME TypeOK, HandleInv, CallInv, FiringInv, WorkInv, FrameKept, [Next]_vars, ~late'
  PROVE  FrameKept'
<1>1. autoRender' = autoRender
  BY DEF Next, EmbedderStart, Render, Continuation, RunContinuation, RenderSet, RenderXrWork,
         JsDispatched, JsRender, JsRaf, JsXr, JsEndSession, JsNative, JsSet, JsGetTask, JsAttach,
         JsRunInline, JsXrWork, JsReturn, AppReturn, EndCallback, Application, AppCode,
         RequestAnimationFrame, XrRequestAnimationFrame, SessionCreated, RequestEnd, Dispose,
         Hung, Aborted, vars
<1> SUFFICES ASSUME autoRender PROVE FrameKept'
  BY <1>1 DEF FrameKept
<1>2. CASE Render
  <2>1. UNCHANGED <<js, jsQueue>> /\ js = "idle"
    BY <1>2 DEF Render, RenderThreadFree, jsVars
  <2>2. CASE SwapBefore
    <3>1. onBefore' = << >>
      BY <2>2 DEF SwapBefore
    <3> QED BY <2>1, <3>1, EmptyFacts DEF FrameKept
  <2>3. CASE ~SwapBefore
    <3>1. pc # "swapBefore" /\ onBefore' = onBefore
      BY <1>2, <2>3 DEF Render, RenderStep, CompleteBefore, EndStart, Finish, Collect,
                        WorkComplete, Present, SwapAfter, CompleteAfter, EndFinish
    <3> QED BY <2>1, <3>1 DEF FrameKept
  <2> QED BY <2>2, <2>3
<1>3. CASE RunContinuation
  BY <1>3, FrameKeptRun
<1>4. CASE EmbedderStart
  BY <1>4 DEF EmbedderStart
<1>5. CASE JsRender
  <2>1. pc' = "swapBefore" /\ js' = "idle"
    BY <1>5 DEF JsRender, Start, Dispatched, JsFree
  <2> QED BY <2>1 DEF FrameKept
<1>6. CASE JsEndSession
  <2>1. Dispatched("endSession") /\ UNCHANGED <<onBefore, pc>> /\ pc = "idle"
    BY <1>6 DEF JsEndSession, frameVars, Dispatched, JsFree
  <2>2. Has(jsQueue, {"render"}) => Has(jsQueue', {"render"})
    BY <2>1, TakeKeeps
  <2> QED BY <2>1, <2>2 DEF FrameKept
<1>7. ASSUME NEW t \in Tasks, Dispatched(t) PROVE FALSE
  <2>1. Has(jsQueue, Tasks)
    BY <1>7, TakeFacts
  <2> QED BY <2>1 DEF WorkInv
<1>8. CASE (\E t \in RafTasks : JsRaf(t)) \/ (\E t \in XrTasks : JsXr(t))
  BY <1>7, <1>8, NewTaskFacts DEF JsRaf, JsXr
<1>9. CASE JsAttach
  <2>1. UNCHANGED <<pc, js>> /\ jsQueue \in Seq(Tasks \cup {"render", "endSession"})
    BY <1>9 DEF JsAttach, TypeOK
  <2>2. CASE handle.cont = "raf"
    <3>1. jsQueue' = Append(jsQueue, "render") /\ "render" \in {"render"}
      BY <1>9, <2>2 DEF JsAttach
    <3>2. Has(jsQueue', {"render"})
      BY <2>1, <3>1, AppendFacts
    <3> QED BY <2>1, <3>2 DEF FrameKept
  <2>3. CASE handle.cont # "raf"
    <3>1. /\ jsQueue' = jsQueue
          /\ onBefore' = onBefore \/ onBefore' = Append(onBefore, handle.cont)
      BY <1>9, <2>3 DEF JsAttach, AttachLater
    <3>2. onBefore \in Seq(Conts) /\ handle.cont \notin Raf
      BY <2>3, ShiftFacts DEF Shifts, Raf
    <3>3. Has(onBefore', Raf) <=> Has(onBefore, Raf)
      BY <3>1, <3>2, GrowFacts
    <3> QED BY <2>1, <3>1, <3>3 DEF FrameKept
  <2> QED BY <2>2, <2>3
<1>10. CASE JsRunInline \/ JsXrWork
  BY <1>10 DEF JsRunInline, JsXrWork, CallInv
<1>11. CASE RequestEnd
  <2>1. UNCHANGED <<onBefore, pc, js>> /\ jsQueue' = Append(jsQueue, "endSession")
    BY <1>11 DEF RequestEnd, frameVars
  <2>2. Has(jsQueue, {"render"}) => Has(jsQueue', {"render"})
    BY <2>1, GrowKeeps DEF TypeOK
  <2> QED BY <2>1, <2>2 DEF FrameKept
<1>12. CASE JsSet \/ JsGetTask \/ JsReturn \/ UNCHANGED vars \/ (Application /\ ~RequestEnd)
  <2>1. /\ UNCHANGED <<onBefore, pc, jsQueue>>
        /\ js' \in {js, "idle"} \/ (js' = "app" /\ pc = "idle")
    BY <1>12 DEF JsSet, JsGetTask, JsReturn, AppReturn, EndCallback, Application, AppCode, JsFree,
                 RequestAnimationFrame, XrRequestAnimationFrame, SessionCreated, Dispose, vars,
                 frameVars, jsVars
  <2> QED BY <2>1 DEF FrameKept
<1>13. CASE RenderSet \/ RenderXrWork
  BY <1>13, FrameKeptRest
<1> QED BY <1>2, <1>3, <1>4, <1>5, <1>6, <1>8, <1>9, <1>10, <1>11, <1>12, <1>13
        DEF Next, Continuation, JsDispatched, JsNative, Hung, Aborted

\* One piece of work goes on, the others are where they were.
LEMMA WorkMoves ==
  ASSUME TypeOK, WorkKept, NEW t, pc' = "wait" => workTasks' = {},
         workTasks' \cup awaited' \subseteq workTasks \cup awaited \cup {t},
         t \in workTasks' \cup awaited' => InHand(t)',
         \A u \in Tasks : u # t /\ InHand(u) => InHand(u)'
  PROVE  WorkKept'
BY DEF TypeOK, GraphicsTypeOK, WorkKept

LEMMA WorkStill ==
  ASSUME TypeOK, WorkKept, UNCHANGED <<workTasks, awaited, task>>, pc' = pc \/ pc' # "wait",
         js' = js \/ js \notin Tasks,
         \A u \in Tasks : Has(jsQueue, {u}) => Has(jsQueue', {u})
  PROVE  WorkKept'
<1>1. ASSUME NEW u \in Tasks, InHand(u) PROVE InHand(u)'
  BY <1>1 DEF InHand
<1> QED BY <1>1 DEF TypeOK, GraphicsTypeOK, WorkKept

\* What a continuation starts is new, and it runs, has run or is dispatched.
LEMMA WorkBegins ==
  ASSUME TypeOK, WorkKept, NEW t \in Tasks, IsFree(t), NEW state \in TaskStates,
         task' = [task EXCEPT ![t] = state], awaited' = awaited, pc' = pc, pc # "wait",
         workTasks' \subseteq workTasks \cup {t},
         \/ state = "done" /\ UNCHANGED <<js, jsQueue>>
         \/ state = "queued" /\ js' = js /\ jsQueue' = Append(jsQueue, t)
         \/ state = "running" /\ js' = t /\ js \notin Tasks /\ jsQueue' = jsQueue
  PROVE  WorkKept'
<1>1. /\ jsQueue \in Seq(Tasks \cup {"render", "endSession"}) /\ task \in [Tasks -> TaskStates]
      /\ t \in {t}
  BY DEF TypeOK, GraphicsTypeOK
<1>2. jsQueue' = Append(jsQueue, t) => Has(jsQueue', {t})
  <2>1. Has(Append(jsQueue, t), {t}) <=> Has(jsQueue, {t}) \/ t \in {t}
    BY <1>1, AppendFacts
  <2> QED BY <2>1
<1>3. InHand(t)'
  BY <1>1, <1>2 DEF InHand
<1>4. ASSUME NEW u \in Tasks, u # t, InHand(u) PROVE InHand(u)'
  <2>1. task'[u] = task[u]
    BY <1>1, <1>4
  <2>2. Has(jsQueue, {u}) => Has(jsQueue', {u})
    BY <1>1, GrowKeeps
  <2>3. js = u => js' = js
    OBVIOUS
  <2> QED BY <1>4, <2>1, <2>2, <2>3 DEF InHand
<1> QED BY <1>3, <1>4, WorkMoves

LEMMA WorkKeptRun ==
  ASSUME TypeOK, FiringInv, WorkKept, RunContinuation
  PROVE  WorkKept'
<1>1. /\ UNCHANGED <<pc, awaited>> /\ pc # "wait" /\ (autoRender => js = "idle")
      /\ jsQueue \in Seq(Tasks \cup {"render", "endSession"}) /\ "idle" \notin Tasks
      /\ {"running", "queued", "done"} \subseteq TaskStates
  BY NewTaskFacts DEF RunContinuation, RenderThreadFree, TypeOK, TaskStates
<1>2. CASE Head(firing) = "raf" /\ RafContinuation
  <2> DEFINE t == NewTask(RafTasks)
  <2>1. t \in Tasks
    BY NewTaskFacts
  <2>2. CASE disposed
    <3>1. UNCHANGED <<task, jsQueue, workTasks, js>>
      BY <1>2, <2>2 DEF RafContinuation
    <3> QED BY <1>1, <3>1, WorkStill
  <2>3. CASE ~disposed /\ autoRender /\ rafPending
    <3>1. /\ IsFree(t) /\ task' = [task EXCEPT ![t] = "running"] /\ js' = t
          /\ workTasks' = workTasks /\ jsQueue' = jsQueue
      BY <1>2, <2>3 DEF RafContinuation, BeginRaf
    <3> QED BY <1>1, <2>1, <2>3, <3>1, WorkBegins
  <2>4. CASE ~disposed /\ autoRender /\ ~rafPending
    <3>1. /\ IsFree(t) /\ task' = [task EXCEPT ![t] = "done"] /\ js' = js
          /\ workTasks' = workTasks \cup {t} /\ jsQueue' = jsQueue
      BY <1>2, <2>4 DEF RafContinuation, BeginRaf
    <3> QED BY <1>1, <2>1, <3>1, WorkBegins
  <2>5. CASE ~disposed /\ ~autoRender
    <3>1. /\ IsFree(t) /\ task' = [task EXCEPT ![t] = "queued"] /\ js' = js
          /\ workTasks' = workTasks \cup {t} /\ jsQueue' = Append(jsQueue, t)
      BY <1>2, <2>5 DEF RafContinuation
    <3> QED BY <1>1, <2>1, <3>1, WorkBegins
  <2> QED BY <2>2, <2>3, <2>4, <2>5
<1>3. CASE Head(firing) # "raf"
  <2>1. UNCHANGED <<task, workTasks, js, jsQueue>>
    BY <1>3 DEF RunContinuation, XrContinuation, EndFrame
  <2> QED BY <1>1, <2>1, WorkStill
<1> QED BY <1>2, <1>3 DEF RunContinuation

LEMMA WorkKeptXr ==
  ASSUME TypeOK, CallInv, WorkKept, RenderXrWork
  PROVE  WorkKept'
<1> DEFINE t == NewTask(XrTasks)
<1>1. /\ UNCHANGED <<pc, awaited>> /\ pc = "runBefore" /\ (autoRender => js \notin Tasks)
      /\ t \in Tasks /\ IsFree(t) /\ {"running", "queued"} \subseteq TaskStates
  BY NewTaskFacts DEF RenderXrWork, XrWork, CallInv, TaskStates
<1>2. CASE autoRender
  <2>1. /\ task' = [task EXCEPT ![t] = "running"] /\ js' = t
        /\ workTasks' = workTasks /\ jsQueue' = jsQueue
    BY <1>2 DEF RenderXrWork, XrWork
  <2> QED BY <1>1, <1>2, <2>1, WorkBegins
<1>3. CASE ~autoRender
  <2>1. /\ task' = [task EXCEPT ![t] = "queued"] /\ js' = js
        /\ workTasks' = workTasks \cup {t} /\ jsQueue' = Append(jsQueue, t)
    BY <1>3 DEF RenderXrWork, XrWork
  <2> QED BY <1>1, <2>1, WorkBegins
<1> QED BY <1>2, <1>3

LEMMA WorkKeptRender == ASSUME TypeOK, WorkInv, WorkKept, Render PROVE WorkKept'
<1>1. UNCHANGED <<js, jsQueue>>
  BY DEF Render, jsVars
<1>2. CASE WorkComplete
  <2>1. pc = "wait" /\ pc' = "collect" /\ awaited' = {} /\ workTasks' = workTasks
    BY <1>2 DEF WorkComplete
  <2> QED BY <2>1 DEF WorkKept
<1>3. CASE Collect /\ workTasks # {}
  <2>1. /\ UNCHANGED task /\ awaited' = workTasks /\ workTasks' = {}
    BY <1>3 DEF Collect
  <2>2. \A u \in Tasks : InHand(u) => InHand(u)'
    BY <1>1, <2>1 DEF InHand
  <2> QED BY <2>1, <2>2 DEF WorkKept, TypeOK, GraphicsTypeOK
<1>4. CASE ~WorkComplete /\ ~(Collect /\ workTasks # {})
  <2>1. UNCHANGED <<workTasks, awaited, task>> /\ pc' # "wait"
    BY <1>4 DEF Render, RenderStep, SwapBefore, CompleteBefore, EndStart, Finish, Collect,
                Present, SwapAfter, CompleteAfter, EndFinish
  <2> QED BY <1>1, <2>1, WorkStill
<1> QED BY <1>2, <1>3, <1>4

LEMMA WorkKeptStep ==
  ASSUME TypeOK, HandleInv, CallInv, FiringInv, WorkInv, WorkKept, [Next]_vars, ~late'
  PROVE  WorkKept'
<1>0. /\ {"idle", "app"} \cap Tasks = {} /\ task \in [Tasks -> TaskStates]
      /\ jsQueue \in Seq(Tasks \cup {"render", "endSession"})
      /\ RafTasks \subseteq Tasks /\ XrTasks \subseteq Tasks
  BY NewTaskFacts DEF TypeOK, GraphicsTypeOK
<1>1. CASE Render
  BY <1>1, WorkKeptRender
<1>2. CASE RunContinuation
  BY <1>2, WorkKeptRun
\* What is taken from the queue is no work, or it is the work that begins.
<1>3. ASSUME NEW x \in {"render", "endSession"}, Dispatched(x), UNCHANGED <<workTasks, awaited, task>>,
             pc' = pc \/ pc' # "wait"
      PROVE  WorkKept'
  <2>1. \A u \in Tasks : x \notin {u}
    BY NewTaskFacts
  <2>2. \A u \in Tasks : Has(jsQueue, {u}) => Has(jsQueue', {u})
    BY <1>3, <2>1, TakeKeeps
  <2>3. js \notin Tasks
    BY <1>0, <1>3 DEF Dispatched, JsFree
  <2> QED BY <1>3, <2>2, <2>3, WorkStill
<1>4. CASE JsRender
  BY <1>3, <1>4 DEF JsRender, Start
<1>5. CASE JsEndSession
  BY <1>3, <1>5 DEF JsEndSession, frameVars
<1>6. ASSUME NEW t \in Tasks, Dispatched(t), UNCHANGED <<workTasks, awaited, pc>>,
             NEW state \in {"running", "done", "failed"}, task' = [task EXCEPT ![t] = state],
             state = "running" => js' = t
      PROVE  WorkKept'
  <2>1. InHand(t)'
    BY <1>0, <1>6 DEF InHand
  <2>2. ASSUME NEW u \in Tasks, u # t, InHand(u) PROVE InHand(u)'
    <3>1. task'[u] = task[u] /\ js # u
      BY <1>0, <1>6, <2>2 DEF Dispatched, JsFree
    <3>2. Has(jsQueue, {u}) => Has(jsQueue', {u})
      BY <1>6, <2>2, TakeKeeps
    <3> QED BY <2>2, <3>1, <3>2 DEF InHand
  <2>3. pc' = "wait" => workTasks' = {}
    BY <1>6 DEF WorkKept
  <2> QED BY <1>6, <2>1, <2>2, <2>3, WorkMoves
<1>7. ASSUME NEW t \in RafTasks, JsRaf(t) PROVE WorkKept'
  <2>1. t \in Tasks /\ Dispatched(t) /\ UNCHANGED <<workTasks, awaited, pc>>
    BY <1>0, <1>7 DEF JsRaf, frameVars
  <2>2. \E state \in {"running", "done", "failed"} :
           task' = [task EXCEPT ![t] = state] /\ (state = "running" => js' = t)
    BY <1>7 DEF JsRaf, BeginRaf
  <2> QED BY <1>6, <2>1, <2>2
<1>8. ASSUME NEW t \in XrTasks, JsXr(t) PROVE WorkKept'
  <2>1. /\ t \in Tasks /\ Dispatched(t) /\ UNCHANGED <<workTasks, awaited, pc>>
        /\ task' = [task EXCEPT ![t] = "running"] /\ js' = t
    BY <1>0, <1>8 DEF JsXr, frameVars
  <2> QED BY <1>6, <2>1
<1>9. ASSUME NEW t \in Tasks, EndCallback(t) PROVE WorkKept'
  <2>1. /\ js = t /\ UNCHANGED <<pc, awaited, jsQueue>>
        /\ task' = [task EXCEPT ![t] = "done"] \/ task' = [task EXCEPT ![t] = "failed"]
        /\ workTasks' = IF autoRender THEN workTasks \cup {t} ELSE workTasks
    BY <1>9 DEF EndCallback
  <2>2. InHand(t)'
    BY <1>0, <2>1 DEF InHand
  <2>3. ASSUME NEW u \in Tasks, u # t, InHand(u) PROVE InHand(u)'
    BY <1>0, <2>1, <2>3 DEF InHand
  <2>4. autoRender => pc = "runBefore"
    BY <2>1 DEF WorkInv
  <2>5. pc' = "wait" => workTasks' = {}
    BY <2>1, <2>4 DEF WorkKept
  <2> QED BY <2>1, <2>2, <2>3, <2>5, WorkMoves
<1>10. CASE JsAttach \/ RenderSet
  <2>1. /\ UNCHANGED <<pc, workTasks, awaited, task, js>>
        /\ jsQueue' = jsQueue \/ jsQueue' = Append(jsQueue, "render")
    BY <1>10 DEF JsAttach, RenderSet
  <2>2. \A u \in Tasks : Has(jsQueue, {u}) => Has(jsQueue', {u})
    BY <1>0, <2>1, GrowKeeps
  <2> QED BY <2>1, <2>2, WorkStill
<1>11. CASE RequestEnd
  <2>1. UNCHANGED <<pc, workTasks, awaited, task, js>> /\ jsQueue' = Append(jsQueue, "endSession")
    BY <1>11 DEF RequestEnd, frameVars
  <2>2. \A u \in Tasks : Has(jsQueue, {u}) => Has(jsQueue', {u})
    BY <1>0, <2>1, GrowKeeps
  <2> QED BY <2>1, <2>2, WorkStill
<1>12. CASE JsRunInline \/ JsXrWork
  BY <1>12 DEF JsRunInline, JsXrWork, CallInv
<1>13. CASE EmbedderStart \/ JsSet \/ JsGetTask \/ AppReturn \/ UNCHANGED vars \/ (Application /\ ~RequestEnd)
  <2>1. /\ UNCHANGED <<workTasks, awaited, task, jsQueue>> /\ (pc' = pc \/ pc' # "wait")
        /\ js' = js \/ js \in {"idle", "app"}
    BY <1>13 DEF EmbedderStart, Start, JsSet, JsGetTask, AppReturn, Application, AppCode, JsFree,
                 RequestAnimationFrame, XrRequestAnimationFrame, SessionCreated, Dispose, vars,
                 frameVars, jsVars
  <2> QED BY <1>0, <2>1, WorkStill
<1>14. CASE RenderXrWork
  BY <1>14, WorkKeptXr
<1> QED BY <1>1, <1>2, <1>4, <1>5, <1>7, <1>8, <1>9, <1>10, <1>11, <1>12, <1>13, <1>14
        DEF Next, Continuation, JsDispatched, JsNative, JsReturn, Hung, Aborted

LEMMA KeptInit == Init => KeptInv
<1> SUFFICES ASSUME Init PROVE KeptInv
  OBVIOUS
<1>1. /\ onBefore = << >> /\ workTasks = {} /\ awaited = {} /\ pc = "idle" /\ js = "idle"
      /\ ~rafPending /\ ~renderScheduled /\ ~xrScheduled
  BY DEF Init, GraphicsInit
<1>2. ~Has(onBefore, Raf)
  BY <1>1, EmptyFacts
<1> QED BY <1>1, <1>2 DEF KeptInv, RequestKept, FrameKept, WorkKept

LEMMA KeptStep == IInv /\ KeptInv /\ [Next]_vars => KeptInv'
<1> SUFFICES ASSUME IInv, KeptInv, [Next]_vars, ~late'
             PROVE  (RequestKept /\ FrameKept /\ WorkKept)'
  BY DEF KeptInv
<1>1. races \in Nat
  BY RenderLoopAssumption DEF IInv, TypeOK
<1>2. ~late
  BY <1>1, HistoryGrows
<1>3. /\ TypeOK /\ HandleInv /\ CallInv /\ FiringInv /\ WorkInv
      /\ RequestKept /\ FrameKept /\ WorkKept
  BY <1>2 DEF IInv, KeptInv
<1> QED BY <1>3, RequestStep, FrameKeptStep, WorkKeptStep

LEMMA KeptHolds == Spec => []KeptInv
BY KeptInit, KeptStep, Invariant, PTL DEF Spec

(* No request for a frame is lost in the handshake on m_isRenderScheduled    *)
(* and m_isFrameScheduled, also when two threads race for the former: while  *)
(* one is pending, its continuation or its work is on its way or a thread is *)
(* about to attach it, and with automatic rendering so is the frame that     *)
(* serves an animation frame (NativeEngine.cpp:507-594, NativeXr.cpp:236-262).*)
THEOREM RequestNotLost == Spec => [](~late => RequestKept /\ FrameKept)
<1>1. KeptInv => (~late => RequestKept /\ FrameKept)
  BY DEF KeptInv
<1> QED BY <1>1, KeptHolds, PTL

(* A frame waits for no work that nobody will do: all it waits for has       *)
(* ended, runs, or is dispatched to the JavaScript thread, and no work is    *)
(* added behind its back while it waits (Graphics.cpp:41-95).                *)
THEOREM WorkNotLost == Spec => [](~late => WorkKept)
<1>1. KeptInv => (~late => WorkKept)
  BY DEF KeptInv
<1> QED BY <1>1, KeptHolds, PTL
=============================================================================
