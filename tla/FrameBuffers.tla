---------------------------- MODULE FrameBuffers ----------------------------
(***************************************************************************)
(* Frame buffers and views: NativeEngine and its FrameBufferManager        *)
(* (Plugins/NativeEngine/Source) under the renderer of Babylon.js          *)
(* (Apps/BabylonScripts/babylon.max.js: RenderTargetTexture, ThinEngine,   *)
(* NativeEngine); Scene.render, which calls them, is third-party code.     *)
(*                                                                         *)
(* bgfx collects the draws of a frame per view and executes the views in   *)
(* the order of their ids when the frame ends; the frame buffer and the    *)
(* clear flags of a view are the last ones set before that.  Every bind    *)
(* and every viewport takes the next view id, and the animation frame      *)
(* starts the ids again at its end unless it throws.  What a view keeps    *)
(* from earlier frames is forgotten here: nothing may depend on it.        *)
(*                                                                         *)
(* A frame is Scene.render of a scene with Cameras cameras that render to  *)
(* the back buffer.  Which render targets are due, for the scene and for   *)
(* each camera, is chosen each time.  Rig cameras, post processes, camera  *)
(* targets, several scenes and sizes are left out.                         *)
(***************************************************************************)
EXTENDS Naturals, Sequences

CONSTANTS Targets,          \* frame buffers that CreateFrameBuffer makes
          Cubes,            \* those of cube textures
          BackBuffer,       \* the frame buffer of the window
          Cameras,          \* cameras of the scene
          MaxViews          \* bgfx: limits.maxViews

ASSUME FrameBuffersAssumption == /\ BackBuffer \notin Targets
                                 /\ Cubes \subseteq Targets
                                 /\ Cameras \in Nat \ {0} /\ MaxViews \in Nat

VARIABLES
  created,      \* the targets there are
  bound,        \* m_boundFrameBuffer
  viewId,       \* viewId[b]: ViewId of the frame buffer
  clear,        \* clear[b]: Flags of its clear state
  nextId,       \* m_nextId
  views,        \* bgfx: the views set up in this frame
  draws,        \* bgfx: the draws of this frame, in the order of the calls
  current,      \* JavaScript: _currentFramebuffer, BackBuffer when null
  cached,       \* JavaScript: _cachedViewport is set
  pc,           \* where Scene.render is
  auto,         \* what the scene clears in this frame
  camera,       \* cameras that have rendered in this frame
  left,         \* render targets still due
  target,       \* the render target being rendered
  after,        \* where to go on after it
  rebind        \* needRebind

native == <<bound, viewId, clear, nextId, views, draws>>
client == <<current, cached>>
frame  == <<pc, auto, camera, left, target, after, rebind>>
vars == <<created, native, client, frame>>

Buffers == Targets \cup {BackBuffer}

\* Clear flags: everything, colour, depth and stencil, or those of a new buffer.
Flags == {"all", "color", "depth", "initial"}
Colour == {"all", "color", "initial"}

Stages == {"idle", "custom", "target", "bind", "clear", "fill", "unbind", "background",
           "camera", "viewport", "targets", "throw", "caught", "dead"}
----------------------------------------------------------------------------
\* FrameBufferManager: the back buffer takes the first id.
Init == /\ created = {}
        /\ bound = BackBuffer
        /\ viewId = [b \in Buffers |-> IF b = BackBuffer THEN 1 ELSE 0]
        /\ clear = [b \in Buffers |-> "initial"]
        /\ nextId = 1
        /\ views = << >> /\ draws = <<>>
        /\ current = BackBuffer /\ cached = FALSE
        /\ pc = "idle" /\ auto = "all" /\ camera = 0 /\ left = {}
        /\ target = BackBuffer /\ after = "custom" /\ rebind = FALSE

\* Mutant of SetUpView: the view keeps the clear flags it happens to have.
SetUpViewUnclear(b) ==
  LET v == nextId + 1
  IN /\ nextId' = v
     /\ bound' = b
     /\ viewId' = [viewId EXCEPT ![b] = v]
     /\ views' = [w \in DOMAIN views \cup {v} |->
                    IF w = v THEN [buffer |-> b, clear |-> "initial"] ELSE views[w]]
     /\ UNCHANGED <<clear, draws>>

\* Mutant of SetUpView: a viewport keeps the view of its frame buffer.
SetUpViewKept(b) ==
  LET v == IF b = BackBuffer /\ viewId[b] \in DOMAIN views THEN viewId[b] ELSE nextId + 1
  IN /\ nextId' = nextId + 1
     /\ bound' = b
     /\ viewId' = [viewId EXCEPT ![b] = v]
     /\ views' = [w \in DOMAIN views \cup {v} |->
                    IF w = v THEN [buffer |-> b, clear |-> clear[b]] ELSE views[w]]
     /\ UNCHANGED <<clear, draws>>

\* Mutant of SetUpView: the id is taken before it is counted.
SetUpViewUncounted(b) ==
  LET v == nextId
  IN /\ nextId' = v + 1
     /\ bound' = b
     /\ viewId' = [viewId EXCEPT ![b] = v]
     /\ views' = [w \in DOMAIN views \cup {v} |->
                    IF w = v THEN [buffer |-> b, clear |-> clear[b]] ELSE views[w]]
     /\ UNCHANGED <<clear, draws>>

\* Bind, and SetViewPort of the frame buffer that is bound: a new view for b,
\* with the clear flags of b.
SetUpView(b) ==
  LET v == nextId + 1
  IN /\ nextId' = v
     /\ bound' = b
     /\ viewId' = [viewId EXCEPT ![b] = v]
     /\ views' = [w \in DOMAIN views \cup {v} |->
                    IF w = v THEN [buffer |-> b, clear |-> clear[b]] ELSE views[w]]
     /\ UNCHANGED <<clear, draws>>

\* UpdateFlags: of the frame buffer that is bound, and of its present view.
Clear(flags) ==
  /\ clear' = [clear EXCEPT ![bound] = flags]
  /\ views' = [w \in DOMAIN views |->
                 IF w = viewId[bound] THEN [views[w] EXCEPT !.clear = flags] ELSE views[w]]
  /\ UNCHANGED <<bound, viewId, nextId, draws>>

\* DrawIndexed: a draw for what JavaScript takes to be bound, cleared as asked.
Draw ==
  /\ draws' = Append(draws, [view |-> viewId[bound], into |-> current, asked |-> clear[bound]])
  /\ UNCHANGED <<bound, viewId, clear, nextId, views>>

\* CreateFrameBuffer, at any time: a frame buffer is given a view id at once.
Create(t) ==
  /\ t \notin created
  /\ created' = created \cup {t}
  /\ nextId' = nextId + 1
  /\ viewId' = [viewId EXCEPT ![t] = nextId + 1]
  /\ UNCHANGED <<bound, clear, views, draws, client, frame>>
----------------------------------------------------------------------------
\* The animation frame calls Scene.render: its custom render targets come first.
BeginFrame ==
  /\ pc = "idle"
  /\ pc' = "custom"
  /\ auto' \in {"all", "color", "depth"}
  /\ left' \in SUBSET created
  /\ camera' = 0 /\ rebind' = FALSE
  /\ UNCHANGED <<created, native, client, target, after>>

\* The viewport of the scene, before a custom render target.
CustomViewport(t) ==
  /\ pc = "custom" /\ t \in left
  /\ SetUpView(bound)
  /\ cached' = TRUE
  /\ left' = left \ {t} /\ target' = t /\ after' = "custom"
  /\ pc' = "target"
  /\ UNCHANGED <<created, current, auto, camera, rebind>>

\* RenderTargetTexture.render of it: the viewport again.
CustomTarget ==
  /\ pc = "target"
  /\ SetUpView(bound)
  /\ pc' = "bind"
  /\ UNCHANGED <<created, client, auto, camera, left, target, after, rebind>>

\* RenderTargetTexture.render of a target of the camera.
CameraTarget(t) ==
  /\ pc = "targets" /\ t \in left
  /\ SetUpView(bound)
  /\ left' = left \ {t} /\ target' = t /\ after' = "targets"
  /\ pc' = "bind"
  /\ UNCHANGED <<created, client, auto, camera, rebind>>

\* Mutant of BindTarget: the native frame buffer is not changed from target to target.
BindTargetOnce ==
  /\ pc = "bind"
  /\ current' = target
  /\ IF current # BackBuffer THEN UNCHANGED native ELSE SetUpView(target)
  /\ pc' = "clear"
  /\ UNCHANGED <<created, cached, auto, camera, left, target, after, rebind>>

\* bindFramebuffer: nothing to do when JavaScript takes the target to be bound,
\* as it does after an exception in the middle of it.
BindTarget ==
  /\ pc = "bind"
  /\ current' = target
  /\ IF current = target THEN UNCHANGED native ELSE SetUpView(target)
  /\ pc' = "clear"
  /\ UNCHANGED <<created, cached, auto, camera, left, target, after, rebind>>

ClearTarget ==
  /\ pc = "clear"
  /\ Clear("all")
  /\ pc' = "fill"
  /\ UNCHANGED <<created, client, auto, camera, left, target, after, rebind>>

\* The meshes of the target; to bind the second face of a cube throws.
DrawTarget ==
  /\ pc = "fill"
  /\ Draw
  /\ pc' = IF target \in Cubes THEN "throw" ELSE "unbind"
  /\ UNCHANGED <<created, client, auto, camera, left, target, after, rebind>>

\* unBindFramebuffer, and the viewport of the camera.
UnbindTarget ==
  /\ pc = "unbind"
  /\ current' = BackBuffer /\ cached' = TRUE
  /\ SetUpView(BackBuffer)
  /\ rebind' = TRUE
  /\ pc' = after
  /\ UNCHANGED <<created, auto, camera, left, target, after>>

\* restoreDefaultFramebuffer, before the scene clears.
Restore ==
  /\ pc = "custom" /\ left = {}
  /\ current' = BackBuffer
  /\ IF cached THEN SetUpView(BackBuffer)
               ELSE bound' = BackBuffer /\ UNCHANGED <<viewId, clear, nextId, views, draws>>
  /\ pc' = "background"
  /\ UNCHANGED <<created, cached, auto, camera, left, target, after, rebind>>

ClearBackground ==
  /\ pc = "background"
  /\ Clear(auto)
  /\ pc' = "camera"
  /\ UNCHANGED <<created, client, auto, camera, left, target, after, rebind>>

\* The depth is cleared between two cameras, on the view of the one before.
ClearBetween ==
  /\ pc = "camera" /\ 0 < camera /\ camera < Cameras
  /\ Clear("depth")
  /\ pc' = "viewport"
  /\ UNCHANGED <<created, client, auto, camera, left, target, after, rebind>>

\* _renderForCamera: the viewport, then the targets that are due.
CameraViewport ==
  /\ pc = "viewport" \/ (pc = "camera" /\ camera = 0)
  /\ SetUpView(bound)
  /\ cached' = TRUE
  /\ left' \in SUBSET created
  /\ rebind' = FALSE
  /\ pc' = "targets"
  /\ UNCHANGED <<created, current, auto, camera, target, after>>

\* _renderForCamera, after targets: restoreDefaultFramebuffer.
Rebind ==
  /\ pc = "targets" /\ left = {} /\ rebind
  /\ current' = BackBuffer
  /\ SetUpView(BackBuffer)
  /\ rebind' = FALSE
  /\ UNCHANGED <<created, cached, pc, auto, camera, left, target, after>>

\* The meshes of the camera.
DrawCamera ==
  /\ pc = "targets" /\ left = {} /\ ~rebind
  /\ Draw
  /\ camera' = camera + 1
  /\ pc' = "camera"
  /\ UNCHANGED <<created, client, auto, left, target, after, rebind>>

Complete == pc = "camera" /\ camera = Cameras

\* Mutant of EndFrame: the ids are not reset.
EndFrameUnreset ==
  /\ Complete \/ pc = "caught"
  /\ views' = << >> /\ draws' = <<>>
  /\ pc' = "idle"
  /\ UNCHANGED <<created, bound, viewId, clear, nextId, client, auto, camera, left, target,
                 after, rebind>>

\* The animation frame ends: the ids are reset, and bgfx renders.
EndFrame ==
  /\ Complete \/ pc = "caught"
  /\ nextId' = 0
  /\ views' = << >> /\ draws' = <<>>
  /\ pc' = "idle"
  /\ UNCHANGED <<created, bound, viewId, clear, client, auto, camera, left, target, after,
                 rebind>>

Rendering == pc \notin {"idle", "caught", "dead"}

\* Scene.render throws, and the render function of the application catches it.
Catch == /\ Rendering
         /\ pc' = "caught"
         /\ UNCHANGED <<created, native, client, auto, camera, left, target, after, rebind>>

\* Nobody catches it: the ids are not reset, and the next frame is never asked
\* for, since the render loop does that at its end.
Die == /\ Rendering
       /\ pc' = "dead"
       /\ UNCHANGED <<created, native, client, auto, camera, left, target, after, rebind>>

RenderTarget == \/ CustomTarget \/ BindTarget \/ ClearTarget \/ DrawTarget \/ UnbindTarget
                \/ \E t \in Targets : CustomViewport(t) \/ CameraTarget(t)

RenderScene == \/ BeginFrame \/ Restore \/ ClearBackground \/ ClearBetween
               \/ CameraViewport \/ Rebind \/ DrawCamera \/ EndFrame

Next == RenderScene \/ RenderTarget \/ Catch \/ Die \/ \E t \in Targets : Create(t)

Spec == Init /\ [][Next]_vars
----------------------------------------------------------------------------
TypeOK ==
  /\ created \in SUBSET Targets
  /\ bound \in Buffers /\ current \in Buffers /\ target \in Buffers
  /\ viewId \in [Buffers -> Nat]
  /\ clear \in [Buffers -> Flags]
  /\ nextId \in Nat
  /\ DOMAIN views \subseteq 1 .. nextId
  /\ \A v \in DOMAIN views : views[v] \in [buffer : Buffers, clear : Flags]
  /\ draws \in Seq([view : Nat, into : Buffers, asked : Flags])
  /\ pc \in Stages /\ after \in {"custom", "targets"}
  /\ auto \in {"all", "color", "depth"}
  /\ camera \in 0 .. Cameras
  /\ left \in SUBSET Targets
  /\ cached \in BOOLEAN /\ rebind \in BOOLEAN

(* The assertion of GetNewViewId (NativeEngine.h:280): the ids stay below    *)
(* the limit, through frames that throw and targets created at any time,     *)
(* because every frame that the render loop survives resets them.            *)
ViewsInRange == nextId < MaxViews

(* What is drawn lands where JavaScript means it to: the view of the draw    *)
(* has been set up in this very frame, for the frame buffer JavaScript takes *)
(* to be bound, and no other frame buffer has taken the id since.            *)
DrawsLand ==
  \A i \in 1 .. Len(draws) : /\ draws[i].view \in DOMAIN views
                             /\ views[draws[i].view].buffer = draws[i].into

(* "TODO: View order?" (NativeEngine.h:259): bgfx executes views by id, so a *)
(* target is rendered before what is drawn after it and may sample it.       *)
ViewsInOrder ==
  \A i, j \in 1 .. Len(draws) : i < j =>
    /\ draws[i].view <= draws[j].view
    /\ draws[i].into # draws[j].into => draws[i].view < draws[j].view

(* At the end of a frame that did not throw, every view that is drawn to     *)
(* clears what JavaScript had asked to clear before its draws; the back      *)
(* buffer does so for the last camera only.                                  *)
ClearsAsAsked ==
  Complete =>
    \A i \in 1 .. Len(draws) :
      draws[i].into # BackBuffer \/ i = Len(draws) =>
        views[draws[i].view].clear = draws[i].asked

(* "@param backBuffer defines if the back buffer must be cleared"            *)
(* (babylon.max.js:40437): when the scene has asked for it, the first view   *)
(* that draws to the back buffer clears the colour.                          *)
BackgroundCleared ==
  Complete /\ auto \in Colour =>
    \E i \in 1 .. Len(draws) :
      /\ draws[i].into = BackBuffer
      /\ \A j \in 1 .. i - 1 : draws[j].into # BackBuffer
      /\ views[draws[i].view].clear \in Colour
=============================================================================
