------------------------- MODULE FrameBuffersProofs -------------------------
(***************************************************************************)
(* Draws land where JavaScript means them to, in the order of the calls,   *)
(* and with the clears it asked for: for any targets, cameras and limit.   *)
(* And how many view ids a frame can take: below it is what each stage of  *)
(* a frame may still take, so that the sum with what is taken never grows. *)
(***************************************************************************)
EXTENDS FrameBuffers, FiniteSets, FiniteSetTheorems, SequenceTheorems, TLAPS

Draws == [view : Nat, into : Buffers, asked : Flags]

NativeType ==
  /\ bound \in Buffers
  /\ viewId \in [Buffers -> Nat]
  /\ clear \in [Buffers -> Flags]
  /\ nextId \in Nat
  /\ DOMAIN views \subseteq 1 .. nextId
  /\ \A v \in DOMAIN views : views[v] \in [buffer : Buffers, clear : Flags]
  /\ draws \in Seq(Draws)

FrameType ==
  /\ created \in SUBSET Targets
  /\ current \in Buffers /\ target \in Buffers
  /\ pc \in Stages /\ after \in {"custom", "targets"}
  /\ auto \in {"all", "color", "depth"}
  /\ camera \in 0 .. Cameras
  /\ left \in SUBSET Targets
  /\ cached \in BOOLEAN /\ rebind \in BOOLEAN

\* What is drawn to a target is cleared as asked.
TargetsClear ==
  \A i \in 1 .. Len(draws) :
    draws[i].into # BackBuffer => views[draws[i].view].clear = draws[i].asked

\* Equal views mean equal frame buffers by DrawsLand, so this is all of the order.
Ascending ==
  \A i, j \in 1 .. Len(draws) : i < j => draws[i].view <= draws[j].view

Native == NativeType /\ DrawsLand /\ Ascending /\ TargetsClear

\* The view of the bound frame buffer has been set up in this frame.
Fresh == /\ viewId[bound] \in DOMAIN views
         /\ views[viewId[bound]].buffer = bound
         /\ views[viewId[bound]].clear = clear[bound]

\* No draw has a later view; no draw has this view or a later one.
Below == \A i \in 1 .. Len(draws) : draws[i].view <= viewId[bound]
Clean == \A i \in 1 .. Len(draws) : draws[i].view < viewId[bound]

\* The last draw of the camera that has just rendered.
LastDraw == /\ draws # << >>
            /\ draws[Len(draws)].view = viewId[bound]
            /\ draws[Len(draws)].asked = clear[bound]

Existing == created \cup {BackBuffer}

StageInv ==
  /\ current = bound
  /\ bound \in Existing /\ target \in Existing /\ left \subseteq created
  /\ pc \in {"bind", "clear", "fill"} => Fresh /\ Clean
  /\ pc = "targets" => Fresh /\ Below
  /\ pc \in {"background", "camera", "viewport", "targets"} => bound = BackBuffer
  /\ pc \in {"background", "camera", "viewport"} => draws = << >> \/ (Fresh /\ Below)
  /\ pc = "camera" /\ camera > 0 => LastDraw
  /\ pc \in {"target", "bind", "clear", "fill", "unbind", "targets"} => cached
  /\ ~cached => draws = << >>
  /\ pc = "target" => after = "custom"
  /\ pc \in {"custom", "background"} => camera = 0
  /\ pc \in {"target", "bind", "clear", "fill", "unbind"} /\ after = "custom" => camera = 0
  /\ pc \in {"viewport", "targets"} => camera < Cameras
  /\ pc \in {"bind", "clear", "fill", "unbind"} /\ after = "targets" => camera < Cameras

IInv == Native /\ FrameType /\ StageInv
----------------------------------------------------------------------------
\* The record of a draw, and what the invariant says of one draw.
LEMMA DrawFacts ==
  ASSUME NativeType, NEW i \in 1 .. Len(draws)
  PROVE  draws[i] \in Draws /\ draws[i].view \in Nat /\ draws[i].into \in Buffers
<1>1. draws \in Seq(Draws)
  BY DEF NativeType
<1>2. draws[i] \in Draws
  BY <1>1, ElementOfSeq
<1> QED  BY <1>2 DEF Draws

LEMMA DrawsOfView ==
  ASSUME Native, NEW i \in 1 .. Len(draws)
  PROVE  /\ draws[i].view \in DOMAIN views /\ draws[i].view <= nextId
         /\ views[draws[i].view].buffer = draws[i].into
<1>1. draws[i].view \in DOMAIN views /\ views[draws[i].view].buffer = draws[i].into
  BY DEF Native, DrawsLand
<1>2. draws[i].view \in 1 .. nextId
  BY <1>1 DEF Native, NativeType
<1> QED  BY <1>1, <1>2 DEF Native, NativeType

\* A new view: nothing has been drawn to it.
LEMMA SetUpViewStep ==
  ASSUME Native, NEW b \in Buffers, SetUpView(b)
  PROVE  Native' /\ Fresh' /\ Clean' /\ Below' /\ bound' = b /\ draws' = draws
<1> DEFINE v == nextId + 1
<1>1. /\ nextId' = v /\ bound' = b /\ clear' = clear /\ draws' = draws
      /\ viewId' = [viewId EXCEPT ![b] = v]
      /\ DOMAIN views' = DOMAIN views \cup {v}
      /\ views'[v] = [buffer |-> b, clear |-> clear[b]]
      /\ \A w \in DOMAIN views : w # v => views'[w] = views[w]
  BY DEF SetUpView
<1>2. v \in Nat /\ viewId'[b] = v /\ v \notin DOMAIN views
  BY <1>1 DEF Native, NativeType
<1>3. NativeType'
  <2>1. \A w \in DOMAIN views' : views'[w] \in [buffer : Buffers, clear : Flags]
    BY <1>1, <1>2 DEF Native, NativeType
  <2>2. viewId' \in [Buffers -> Nat] /\ nextId' \in Nat
    BY <1>1, <1>2 DEF Native, NativeType
  <2>3. DOMAIN views' \subseteq 1 .. nextId'
    BY <1>1, <1>2 DEF Native, NativeType
  <2> QED  BY <1>1, <2>1, <2>2, <2>3 DEF Native, NativeType
<1>4. \A i \in 1 .. Len(draws) : /\ draws[i].view \in DOMAIN views
                                 /\ views'[draws[i].view] = views[draws[i].view]
                                 /\ draws[i].view < v
  <2> SUFFICES ASSUME NEW i \in 1 .. Len(draws)
               PROVE  /\ draws[i].view \in DOMAIN views
                      /\ views'[draws[i].view] = views[draws[i].view]
                      /\ draws[i].view < v
    OBVIOUS
  <2>1. draws[i].view \in DOMAIN views /\ draws[i].view <= nextId
    BY DrawsOfView
  <2>2. draws[i].view \in Nat
    BY DrawFacts DEF Native
  <2> QED  BY <1>1, <1>2, <2>1, <2>2 DEF Native, NativeType
<1>5. DrawsLand' /\ TargetsClear' /\ Ascending'
  BY <1>1, <1>4 DEF Native, DrawsLand, TargetsClear, Ascending
<1>6. Fresh'
  BY <1>1, <1>2 DEF Fresh
<1>7. Clean' /\ Below'
  <2>1. \A i \in 1 .. Len(draws) : draws[i].view \in Nat
    BY DrawFacts DEF Native
  <2> QED  BY <1>1, <1>2, <1>4, <2>1 DEF Clean, Below
<1> QED  BY <1>1, <1>3, <1>5, <1>6, <1>7 DEF Native

\* Clear flags of the bound frame buffer, on whose view no target has been drawn.
LEMMA ClearStep ==
  ASSUME Native, NEW flags \in Flags, Clear(flags),
         \A i \in 1 .. Len(draws) : draws[i].view = viewId[bound] => draws[i].into = BackBuffer
  PROVE  /\ Native' /\ bound' = bound /\ draws' = draws /\ viewId' = viewId
         /\ Fresh => Fresh'
<1>1. /\ clear' = [clear EXCEPT ![bound] = flags]
      /\ bound' = bound /\ viewId' = viewId /\ nextId' = nextId /\ draws' = draws
      /\ DOMAIN views' = DOMAIN views
      /\ \A w \in DOMAIN views :
           views'[w] = IF w = viewId[bound] THEN [views[w] EXCEPT !.clear = flags] ELSE views[w]
  BY DEF Clear
<1>2. \A w \in DOMAIN views : /\ views'[w] \in [buffer : Buffers, clear : Flags]
                              /\ views'[w].buffer = views[w].buffer
                              /\ w # viewId[bound] => views'[w].clear = views[w].clear
                              /\ w = viewId[bound] => views'[w].clear = flags
  BY <1>1 DEF Native, NativeType
<1>3. NativeType'
  BY <1>1, <1>2 DEF Native, NativeType
<1>4. DrawsLand' /\ Ascending'
  <2>1. \A i \in 1 .. Len(draws) : /\ draws[i].view \in DOMAIN views
                                   /\ views'[draws[i].view].buffer = draws[i].into
    <3> SUFFICES ASSUME NEW i \in 1 .. Len(draws)
                 PROVE  /\ draws[i].view \in DOMAIN views
                        /\ views'[draws[i].view].buffer = draws[i].into
      OBVIOUS
    <3>1. draws[i].view \in DOMAIN views /\ views[draws[i].view].buffer = draws[i].into
      BY DEF Native, DrawsLand
    <3>2. views'[draws[i].view].buffer = views[draws[i].view].buffer
      BY <1>2, <3>1
    <3> QED  BY <3>1, <3>2
  <2>2. DrawsLand'
    BY <1>1, <2>1 DEF DrawsLand
  <2>3. Ascending'
    BY <1>1 DEF Native, Ascending
  <2> QED  BY <2>2, <2>3
<1>5. TargetsClear'
  BY <1>1, <1>2 DEF Native, DrawsLand, TargetsClear
<1>6. Fresh => Fresh'
  <2>1. clear'[bound] = flags
    BY <1>1 DEF Native, NativeType
  <2> SUFFICES ASSUME Fresh PROVE Fresh'  OBVIOUS
  <2>2. viewId[bound] \in DOMAIN views /\ views[viewId[bound]].buffer = bound
    BY DEF Fresh
  <2>3. views'[viewId[bound]].buffer = bound /\ views'[viewId[bound]].clear = flags
    BY <1>2, <2>2
  <2> QED  BY <1>1, <2>1, <2>2, <2>3 DEF Fresh
<1> QED  BY <1>1, <1>3, <1>4, <1>5, <1>6 DEF Native

LEMMA DrawStep ==
  ASSUME Native, Draw, current = bound, Fresh, Below
  PROVE  Native' /\ Fresh' /\ Below' /\ LastDraw' /\ bound' = bound
<1> DEFINE d == [view |-> viewId[bound], into |-> current, asked |-> clear[bound]]
           n == Len(draws) + 1
<1>1. /\ draws' = Append(draws, d)
      /\ UNCHANGED <<bound, viewId, clear, nextId, views>>
  BY DEF Draw
<1>2. d \in Draws /\ draws \in Seq(Draws)
  BY DEF Native, NativeType, Draws
<1>3. /\ draws' \in Seq(Draws) /\ Len(draws') = n /\ n \in Nat \ {0}
      /\ draws'[n] = d
      /\ \A i \in 1 .. Len(draws) : draws'[i] = draws[i]
      /\ draws' # << >>
  BY <1>1, <1>2, AppendProperties
<1>4. NativeType'
  BY <1>1, <1>3 DEF Native, NativeType
<1>5. DrawsLand' /\ TargetsClear'
  <2> SUFFICES ASSUME NEW i \in 1 .. n
               PROVE  /\ draws'[i].view \in DOMAIN views
                      /\ views[draws'[i].view].buffer = draws'[i].into
                      /\ draws'[i].into # BackBuffer =>
                           views[draws'[i].view].clear = draws'[i].asked
    BY <1>1, <1>3 DEF DrawsLand, TargetsClear
  <2>1. CASE i = n
    BY <1>3, <2>1 DEF Fresh
  <2>2. CASE i \in 1 .. Len(draws)
    BY <1>3, <2>2 DEF Native, DrawsLand, TargetsClear
  <2> QED  BY <1>2, <2>1, <2>2
<1>6. Below'
  <2> SUFFICES ASSUME NEW i \in 1 .. n PROVE draws'[i].view <= viewId[bound]
    BY <1>1, <1>3 DEF Below
  <2>1. CASE i = n
    BY <1>3, <2>1 DEF Native, NativeType
  <2>2. CASE i \in 1 .. Len(draws)
    BY <1>3, <2>2 DEF Below
  <2> QED  BY <1>2, <2>1, <2>2
<1>7. Ascending'
  <2> SUFFICES ASSUME NEW i \in 1 .. n, NEW j \in 1 .. n, i < j
               PROVE  draws'[i].view <= draws'[j].view
    BY <1>1, <1>3 DEF Ascending
  <2>1. CASE j = n
    BY <1>1, <1>3, <1>6, <2>1 DEF Below
  <2>2. CASE j # n
    <3>1. i \in 1 .. Len(draws) /\ j \in 1 .. Len(draws)
      BY <1>2, <2>2
    <3> QED  BY <1>3, <3>1 DEF Native, Ascending
  <2> QED  BY <2>1, <2>2
<1>8. Fresh' /\ LastDraw'
  BY <1>1, <1>3 DEF Fresh, LastDraw
<1> QED  BY <1>1, <1>4, <1>5, <1>6, <1>7, <1>8 DEF Native

LEMMA InitIInv == Init => IInv
<1> SUFFICES ASSUME Init PROVE IInv  OBVIOUS
<1> USE FrameBuffersAssumption DEF Init
<1>1. NativeType
  <2>1. draws \in Seq(Draws)
    OBVIOUS
  <2>2. viewId \in [Buffers -> Nat] /\ clear \in [Buffers -> Flags] /\ bound \in Buffers
    BY DEF Buffers, Flags
  <2>3. DOMAIN views = {}
    OBVIOUS
  <2> QED  BY <2>1, <2>2, <2>3 DEF NativeType
<1>2. DrawsLand /\ Ascending /\ TargetsClear
  BY DEF DrawsLand, Ascending, TargetsClear
<1>3. FrameType
  <2>1. current \in Buffers /\ target \in Buffers
    BY DEF Buffers
  <2>2. created \in SUBSET Targets /\ left \in SUBSET Targets
    OBVIOUS
  <2>3. camera \in 0 .. Cameras
    OBVIOUS
  <2>5. cached \in BOOLEAN /\ rebind \in BOOLEAN
    OBVIOUS
  <2>4. pc \in Stages /\ after \in {"custom", "targets"} /\ auto \in {"all", "color", "depth"}
    BY DEF Stages
  <2> HIDE DEF Init
  <2> QED  BY <2>1, <2>2, <2>3, <2>4, <2>5 DEF FrameType
<1>4. StageInv
  BY DEF StageInv, Existing
<1> QED  BY <1>1, <1>2, <1>3, <1>4 DEF IInv, Native

\* Steps that leave the native side alone.
LEMMA PassStep ==
  ASSUME IInv, BeginFrame \/ Catch \/ Die
  PROVE  IInv'
<1> USE DEF IInv
<1>1. UNCHANGED <<created, native, client>>
  BY DEF BeginFrame, Catch, Die
<1>2. Native'
  BY <1>1 DEF Native, NativeType, DrawsLand, Ascending, TargetsClear, native
<1>3. FrameType'
  <2>1. CASE BeginFrame
    <3>1. camera' \in 0 .. Cameras
      BY <2>1, FrameBuffersAssumption DEF BeginFrame
    <3>2. left' \in SUBSET Targets
      BY <2>1 DEF FrameType, BeginFrame
    <3> QED  BY <2>1, <3>1, <3>2 DEF FrameType, BeginFrame, client, Stages
  <2>2. CASE Catch \/ Die
    BY <2>2 DEF FrameType, Catch, Die, client, Stages
  <2> QED  BY <2>1, <2>2
<1>4. StageInv'
  BY <1>1 DEF FrameType, StageInv, Existing, BeginFrame, Catch, Die, native, client
<1> QED  BY <1>2, <1>3, <1>4

LEMMA CreateStep == ASSUME IInv, NEW t \in Targets, Create(t) PROVE IInv'
<1> USE DEF IInv
<1>1. /\ t \notin created /\ created' = created \cup {t} /\ nextId' = nextId + 1
      /\ viewId' = [viewId EXCEPT ![t] = nextId + 1]
      /\ UNCHANGED <<bound, clear, views, draws, client, frame>>
  BY DEF Create
<1>2. Native'
  <2>1. NativeType'
    <3>3. nextId \in Nat /\ nextId + 1 \in Nat /\ viewId \in [Buffers -> Nat]
      BY DEF Native, NativeType
    <3>1. viewId' \in [Buffers -> Nat] /\ nextId' \in Nat
      BY <1>1, <3>3
    <3>2. DOMAIN views' \subseteq 1 .. nextId'
      BY <1>1 DEF Native, NativeType
    <3> QED  BY <1>1, <3>1, <3>2 DEF Native, NativeType
  <2> QED  BY <1>1, <2>1 DEF Native, DrawsLand, Ascending, TargetsClear
<1>3. FrameType'
  BY <1>1 DEF FrameType, client, frame
<1>4. viewId'[bound] = viewId[bound]
  BY <1>1, FrameBuffersAssumption DEF StageInv, Existing, Native, NativeType
<1>5. /\ Fresh => Fresh'
      /\ Below => Below'
      /\ Clean => Clean'
      /\ LastDraw => LastDraw'
  BY <1>1, <1>4 DEF Fresh, Below, Clean, LastDraw
<1>6. StageInv'
  <2>1. /\ current' = bound' /\ bound' \in Existing' /\ target' \in Existing'
        /\ left' \subseteq created'
    BY <1>1 DEF StageInv, Existing, client, frame
  <2>2. UNCHANGED <<bound, draws, cached, pc, camera, after>>
    BY <1>1 DEF client, frame
  <2>3. /\ pc' \in {"bind", "clear", "fill"} => Fresh' /\ Clean'
        /\ pc' = "targets" => Fresh' /\ Below'
        /\ pc' \in {"background", "camera", "viewport"} => draws' = << >> \/ (Fresh' /\ Below')
        /\ pc' = "camera" /\ camera' > 0 => LastDraw'
    BY <2>2, <1>5 DEF StageInv
  <2>4. /\ pc' \in {"background", "camera", "viewport", "targets"} => bound' = BackBuffer
        /\ pc' \in {"target", "bind", "clear", "fill", "unbind", "targets"} => cached'
        /\ ~cached' => draws' = << >>
        /\ pc' = "target" => after' = "custom"
        /\ pc' \in {"custom", "background"} => camera' = 0
        /\ pc' \in {"target", "bind", "clear", "fill", "unbind"} /\ after' = "custom" => camera' = 0
        /\ pc' \in {"viewport", "targets"} => camera' < Cameras
        /\ pc' \in {"bind", "clear", "fill", "unbind"} /\ after' = "targets" => camera' < Cameras
    BY <2>2 DEF StageInv
  <2> QED  BY <2>1, <2>3, <2>4 DEF StageInv
<1> QED  BY <1>2, <1>3, <1>6

LEMMA EndStep == ASSUME IInv, EndFrame PROVE IInv'
<1> USE DEF IInv
<1>1. /\ nextId' = 0 /\ DOMAIN views' = {} /\ draws' = << >> /\ pc' = "idle"
      /\ UNCHANGED <<created, bound, viewId, clear, client, auto, camera, left, target,
                     after, rebind>>
  BY DEF EndFrame
<1>2. NativeType'
  <2>1. draws' \in Seq(Draws)
    BY <1>1
  <2> QED  BY <1>1, <2>1 DEF Native, NativeType
<1>3. DrawsLand' /\ Ascending' /\ TargetsClear'
  BY <1>1 DEF DrawsLand, Ascending, TargetsClear
<1>4. FrameType'
  BY <1>1 DEF FrameType, client, Stages
<1>5. StageInv'
  BY <1>1 DEF StageInv, Existing, client
<1> QED  BY <1>2, <1>3, <1>4, <1>5 DEF Native

\* Steps that take a new view.
LEMMA ViewStep ==
  ASSUME IInv,
         \/ CustomTarget \/ BindTarget \/ UnbindTarget \/ Restore \/ CameraViewport \/ Rebind
         \/ \E t \in Targets : CustomViewport(t) \/ CameraTarget(t)
  PROVE  IInv'
<1> USE DEF IInv
<1>1. CASE CustomTarget
  <2>1. SetUpView(bound) /\ pc = "target"
    BY <1>1 DEF CustomTarget
  <2>2. Native' /\ Fresh' /\ Clean' /\ bound' = bound /\ draws' = draws
    BY <2>1, SetUpViewStep DEF Native, NativeType
  <2>3. FrameType'  BY <1>1 DEF FrameType, CustomTarget, client, Stages
  <2>4. StageInv'  BY <1>1, <2>2 DEF StageInv, Existing, CustomTarget, client
  <2> QED  BY <2>2, <2>3, <2>4
<1>2. CASE BindTarget
  <2>1. Native' /\ Fresh' /\ Clean' /\ bound' = target /\ draws' = draws
    <3>1. CASE current = target
      BY <1>2, <3>1
      DEF BindTarget, StageInv, Native, NativeType, DrawsLand, Ascending, TargetsClear, Fresh,
          Clean, native
    <3>2. CASE current # target
      <4>1. SetUpView(target) /\ target \in Buffers
        BY <1>2, <3>2 DEF BindTarget, FrameType
      <4> QED  BY <4>1, SetUpViewStep
    <3> QED  BY <3>1, <3>2
  <2>2. FrameType'  BY <1>2 DEF FrameType, BindTarget, Stages
  <2>3. StageInv'  BY <1>2, <2>1 DEF StageInv, Existing, BindTarget
  <2> QED  BY <2>1, <2>2, <2>3
<1>3. CASE UnbindTarget
  <2>1. SetUpView(BackBuffer) /\ BackBuffer \in Buffers
    BY <1>3 DEF UnbindTarget, Buffers
  <2>2. Native' /\ Fresh' /\ Below' /\ bound' = BackBuffer /\ draws' = draws
    BY <2>1, SetUpViewStep
  <2>3. FrameType'  BY <1>3 DEF FrameType, UnbindTarget, Stages, Buffers
  <2>4. StageInv'  BY <1>3, <2>2 DEF FrameType, StageInv, Existing, UnbindTarget
  <2> QED  BY <2>2, <2>3, <2>4
<1>4. CASE Restore
  <2>1. /\ Native' /\ bound' = BackBuffer /\ draws' = draws
        /\ draws' = << >> \/ (Fresh' /\ Below')
    <3>1. CASE cached
      <4>1. SetUpView(BackBuffer) /\ BackBuffer \in Buffers
        BY <1>4, <3>1 DEF Restore, Buffers
      <4> QED  BY <4>1, SetUpViewStep
    <3>2. CASE ~cached
      <4>1. draws = << >>
        BY <3>2 DEF StageInv
      <4>2. bound' = BackBuffer /\ UNCHANGED <<viewId, clear, nextId, views, draws>>
        BY <1>4, <3>2 DEF Restore
      <4> QED
        BY <4>1, <4>2
        DEF Native, NativeType, DrawsLand, Ascending, TargetsClear, Buffers
    <3> QED  BY <3>1, <3>2
  <2>2. FrameType'  BY <1>4 DEF FrameType, Restore, Stages, Buffers
  <2>3. StageInv'  BY <1>4, <2>1 DEF FrameType, StageInv, Existing, Restore
  <2> QED  BY <2>1, <2>2, <2>3
<1>5. CASE CameraViewport
  <2>1. SetUpView(bound) /\ bound = BackBuffer /\ camera < Cameras
    BY <1>5, FrameBuffersAssumption DEF CameraViewport, StageInv
  <2>2. Native' /\ Fresh' /\ Below' /\ bound' = bound /\ draws' = draws
    BY <2>1, SetUpViewStep DEF Native, NativeType
  <2>3. FrameType'  BY <1>5 DEF FrameType, CameraViewport, Stages
  <2>4. StageInv'  BY <1>5, <2>1, <2>2 DEF StageInv, Existing, CameraViewport
  <2> QED  BY <2>2, <2>3, <2>4
<1>6. CASE Rebind
  <2>1. SetUpView(BackBuffer) /\ BackBuffer \in Buffers
    BY <1>6 DEF Rebind, Buffers
  <2>2. Native' /\ Fresh' /\ Below' /\ bound' = BackBuffer /\ draws' = draws
    BY <2>1, SetUpViewStep
  <2>3. FrameType'  BY <1>6 DEF FrameType, Rebind, Buffers
  <2>4. StageInv'  BY <1>6, <2>2 DEF StageInv, Existing, Rebind
  <2> QED  BY <2>2, <2>3, <2>4
<1>7. ASSUME NEW t \in Targets, CustomViewport(t) PROVE IInv'
  <2>1. SetUpView(bound)
    BY <1>7 DEF CustomViewport
  <2>2. Native' /\ bound' = bound /\ draws' = draws
    BY <2>1, SetUpViewStep DEF Native, NativeType
  <2>3. FrameType'  BY <1>7 DEF FrameType, CustomViewport, Stages, Buffers
  <2>4. StageInv'  BY <1>7, <2>2 DEF StageInv, Existing, CustomViewport
  <2> QED  BY <2>2, <2>3, <2>4
<1>8. ASSUME NEW t \in Targets, CameraTarget(t) PROVE IInv'
  <2>1. SetUpView(bound)
    BY <1>8 DEF CameraTarget
  <2>2. Native' /\ Fresh' /\ Clean' /\ bound' = bound /\ draws' = draws
    BY <2>1, SetUpViewStep DEF Native, NativeType
  <2>3. FrameType'  BY <1>8 DEF FrameType, CameraTarget, client, Stages, Buffers
  <2>4. StageInv'  BY <1>8, <2>2 DEF StageInv, Existing, CameraTarget, client
  <2> QED  BY <2>2, <2>3, <2>4
<1> QED  BY <1>1, <1>2, <1>3, <1>4, <1>5, <1>6, <1>7, <1>8

\* Steps that set clear flags.
LEMMA FlagsStep ==
  ASSUME IInv, ClearTarget \/ ClearBackground \/ ClearBetween
  PROVE  IInv'
<1> USE DEF IInv
<1> DEFINE Safe == \A i \in 1 .. Len(draws) :
                     draws[i].view = viewId[bound] => draws[i].into = BackBuffer
<1>1. CASE ClearTarget
  <2>1. Clear("all") /\ Fresh /\ Clean
    BY <1>1 DEF ClearTarget, StageInv
  <2>2. Safe
    BY <2>1, DrawFacts DEF Clean, Native
  <2>3. Native' /\ bound' = bound /\ draws' = draws /\ viewId' = viewId /\ Fresh'
    BY <2>1, <2>2, ClearStep DEF Flags
  <2>4. Clean'
    BY <2>1, <2>3 DEF Clean
  <2>5. FrameType'  BY <1>1 DEF FrameType, ClearTarget, client, Stages
  <2>6. StageInv'  BY <1>1, <2>3, <2>4 DEF StageInv, Existing, ClearTarget, client
  <2> QED  BY <2>3, <2>5, <2>6
<1>2. CASE ClearBackground \/ ClearBetween
  <2>1. /\ bound = BackBuffer /\ pc \in {"background", "camera"}
        /\ draws = << >> \/ (Fresh /\ Below)
    BY <1>2 DEF ClearBackground, ClearBetween, StageInv
  <2>2. PICK flags \in Flags : Clear(flags)
    BY <1>2 DEF ClearBackground, ClearBetween, FrameType, Flags
  <2>3. Safe
    <3>1. CASE draws = << >>
      BY <3>1
    <3>2. CASE Fresh
      BY <2>1, <3>2, DrawsOfView DEF Fresh
    <3> QED  BY <2>1, <3>1, <3>2
  <2>4. Native' /\ bound' = bound /\ draws' = draws /\ viewId' = viewId /\ (Fresh => Fresh')
    BY <2>2, <2>3, ClearStep
  <2>5. Below => Below'
    BY <2>4 DEF Below
  <2>6. FrameType'
    BY <1>2 DEF FrameType, ClearBackground, ClearBetween, client, Stages
  <2>7. pc' \in {"camera", "viewport"} /\ (pc' = "camera" => pc = "background")
    BY <1>2 DEF ClearBackground, ClearBetween
  <2>8. /\ camera' = camera
        /\ pc' = "viewport" => camera < Cameras
        /\ pc' = "camera" => camera = 0
    BY <1>2 DEF ClearBackground, ClearBetween, StageInv
  <2>9. StageInv'
    BY <1>2, <2>1, <2>4, <2>5, <2>7, <2>8
    DEF StageInv, Existing, ClearBackground, ClearBetween, client
  <2> QED  BY <2>4, <2>6, <2>9
<1> QED  BY <1>1, <1>2

\* Steps that draw.
LEMMA MeshStep == ASSUME IInv, DrawTarget \/ DrawCamera PROVE IInv'
<1> USE DEF IInv
<1>1. Draw /\ Fresh /\ Below /\ current = bound
  <2>1. CASE DrawTarget
    <3>1. Draw /\ Fresh /\ Clean /\ current = bound
      BY <2>1 DEF DrawTarget, StageInv
    <3>2. Below
      BY <3>1, DrawFacts DEF Below, Clean, Native, NativeType
    <3> QED  BY <3>1, <3>2
  <2>2. CASE DrawCamera
    BY <2>2 DEF DrawCamera, StageInv
  <2> QED  BY <2>1, <2>2
<1>2. Native' /\ Fresh' /\ Below' /\ LastDraw' /\ bound' = bound
  BY <1>1, DrawStep
<1>3. FrameType'
  <2>1. CASE DrawTarget
    BY <2>1 DEF FrameType, DrawTarget, client, Stages
  <2>2. CASE DrawCamera
    <3>1. camera' \in 0 .. Cameras
      BY <2>2, FrameBuffersAssumption DEF FrameType, StageInv, DrawCamera
    <3> QED  BY <2>2, <3>1 DEF FrameType, DrawCamera, client, Stages
  <2> QED  BY <2>1, <2>2
<1>4. StageInv'
  BY <1>2 DEF StageInv, Existing, DrawTarget, DrawCamera, client
<1> QED  BY <1>2, <1>3, <1>4

LEMMA NextIInv == IInv /\ [Next]_vars => IInv'
<1> SUFFICES ASSUME IInv, [Next]_vars PROVE IInv'  OBVIOUS
<1>1. CASE UNCHANGED vars
  BY <1>1
  DEF IInv, Native, NativeType, DrawsLand, Ascending, TargetsClear, FrameType, StageInv,
      Existing, Fresh, Below, Clean, LastDraw, vars, native, client, frame
<1>2. CASE Next
  BY <1>2, PassStep, CreateStep, EndStep, ViewStep, FlagsStep, MeshStep
  DEF Next, RenderScene, RenderTarget
<1> QED  BY <1>1, <1>2

(* The inductive invariant of frame buffers and views.                       *)
THEOREM Invariant == Spec => []IInv
<1> QED  BY InitIInv, NextIInv, PTL DEF Spec

(* The variables keep their types; no view of the frame has an id that has   *)
(* not been given out in it.                                                 *)
THEOREM TypesHold == Spec => []TypeOK
<1>1. IInv => TypeOK
  BY DEF IInv, Native, NativeType, FrameType, TypeOK, Draws
<1> QED  BY <1>1, Invariant, PTL

(* Every draw lands in the frame buffer JavaScript takes to be bound.        *)
THEOREM DrawsLandHolds == Spec => []DrawsLand
<1>1. IInv => DrawsLand
  BY DEF IInv, Native
<1> QED  BY <1>1, Invariant, PTL

(* The views of the draws ascend, and strictly from one frame buffer to      *)
(* another.                                                                  *)
THEOREM OrderHolds == Spec => []ViewsInOrder
<1>1. IInv => ViewsInOrder
  <2> SUFFICES ASSUME IInv, NEW i \in 1 .. Len(draws), NEW j \in 1 .. Len(draws), i < j
               PROVE  /\ draws[i].view <= draws[j].view
                      /\ draws[i].into # draws[j].into => draws[i].view < draws[j].view
    BY DEF ViewsInOrder
  <2>1. draws[i].view <= draws[j].view
    BY DEF IInv, Native, Ascending
  <2>2. draws[i].view = draws[j].view => draws[i].into = draws[j].into
    BY DEF IInv, Native, DrawsLand
  <2>3. draws[i].view \in Nat /\ draws[j].view \in Nat
    BY DrawFacts DEF IInv, Native
  <2> QED  BY <2>1, <2>2, <2>3
<1> QED  BY <1>1, Invariant, PTL

(* At the end of a frame, the targets and the last camera have been cleared  *)
(* as JavaScript asked before the draws.                                     *)
THEOREM ClearsHold == Spec => []ClearsAsAsked
<1>1. IInv => ClearsAsAsked
  <2> SUFFICES ASSUME IInv, Complete, NEW i \in 1 .. Len(draws),
                      draws[i].into # BackBuffer \/ i = Len(draws)
               PROVE  views[draws[i].view].clear = draws[i].asked
    BY DEF ClearsAsAsked
  <2>1. CASE draws[i].into # BackBuffer
    BY <2>1 DEF IInv, Native, TargetsClear
  <2>2. CASE i = Len(draws)
    <3>1. LastDraw /\ Fresh
      BY FrameBuffersAssumption DEF IInv, StageInv, Complete, LastDraw
    <3> QED  BY <2>2, <3>1 DEF LastDraw, Fresh
  <2> QED  BY <2>1, <2>2
<1> QED  BY <1>1, Invariant, PTL
----------------------------------------------------------------------------
(* How many view ids a frame takes.  A cube takes ids only until it throws, *)
(* so that what counts is the targets that are no cubes: four ids each      *)
(* before the cameras, three for each camera.                               *)

Plain == Cardinality(Targets \ Cubes)

\* The viewport, the targets and the rebind of one camera; of n cameras.
PerCamera == 3 * Plain + 2
Ids(n) == n * PerCamera

\* One id more is for a cube of the last camera, one for the one the back buffer
\* begins with, one for each target that is created.
MostIds == Cardinality(Targets) + 4 * Plain + Ids(Cameras) + 3

Missing == Cardinality(Targets \ created)
Due == Cardinality(left \ Cubes)

\* What may still be taken: before the cameras, within a camera, within a target.
CustomRest == 4 * Due + Ids(Cameras) + 2
CameraRest(last) == 3 * Due + last + Ids(Cameras - camera - 1) + 1
TargetRest(n) == IF target \in Cubes THEN n
                 ELSE n + 1 + (IF after = "custom" THEN CustomRest ELSE CameraRest(1))

Within(n) == nextId + Missing + n <= MostIds

BudgetInv ==
  /\ pc = "idle" => nextId + Missing <= Cardinality(Targets) + 1
  /\ pc = "custom" => Within(CustomRest)
  /\ pc = "target" => Within(TargetRest(2))
  /\ pc = "bind" => Within(TargetRest(1))
  /\ pc \in {"clear", "fill"} => Within(TargetRest(0))
  /\ pc = "unbind" => target \notin Cubes /\ Within(TargetRest(0))
  /\ pc = "background" => Within(Ids(Cameras) + 1)
  /\ pc \in {"camera", "viewport"} => Within(Ids(Cameras - camera) + 1)
  /\ pc = "targets" => Within(CameraRest(IF left = {} /\ ~rebind THEN 0 ELSE 1))
  /\ Within(0)

LEMMA PlainFacts ==
  ASSUME IsFiniteSet(Targets)
  PROVE  Plain \in Nat /\ PerCamera \in Nat /\ PerCamera >= 2 /\ Cardinality(Targets) \in Nat
<1>1. IsFiniteSet(Targets \ Cubes)
  BY FS_Difference
<1>2. Plain \in Nat /\ Cardinality(Targets) \in Nat
  BY <1>1, FS_CardinalityType DEF Plain
<1> QED  BY <1>2 DEF PerCamera

LEMMA IdsFacts ==
  ASSUME IsFiniteSet(Targets), NEW n \in Nat
  PROVE  /\ Ids(n) \in Nat
         /\ Ids(n + 1) = Ids(n) + PerCamera
<1>1. \A p \in Nat : n * p \in Nat /\ (n + 1) * p = n * p + p
  OBVIOUS
<1> QED  BY <1>1, PlainFacts DEF Ids

LEMMA CameraFacts ==
  ASSUME IsFiniteSet(Targets), FrameType
  PROVE  /\ Cameras \in Nat /\ camera \in Nat /\ camera <= Cameras
         /\ Ids(Cameras) \in Nat /\ Ids(Cameras) >= 2 /\ Ids(Cameras - camera) \in Nat
         /\ MostIds \in Nat
<1>1. Cameras \in Nat /\ Cameras >= 1 /\ camera \in Nat /\ camera <= Cameras
  BY FrameBuffersAssumption DEF FrameType
<1>2. Ids(Cameras - 1) \in Nat /\ Ids(Cameras - 1 + 1) = Ids(Cameras - 1) + PerCamera
  BY <1>1, IdsFacts
<1>3. Ids(Cameras - camera) \in Nat
  BY <1>1, IdsFacts
<1>4. Cameras - 1 + 1 = Cameras
  BY <1>1
<1> QED  BY <1>1, <1>2, <1>3, <1>4, PlainFacts DEF MostIds

\* One camera less is to come.
LEMMA CameraStep ==
  ASSUME IsFiniteSet(Targets), FrameType, camera < Cameras
  PROVE  /\ Ids(Cameras - camera - 1) \in Nat
         /\ Ids(Cameras - camera) = Ids(Cameras - camera - 1) + PerCamera
<1>1. Cameras \in Nat /\ camera \in Nat /\ Cameras - camera - 1 \in Nat
  BY CameraFacts
<1>2. Cameras - camera - 1 + 1 = Cameras - camera
  BY <1>1
<1> QED  BY <1>1, <1>2, IdsFacts

LEMMA DueFacts ==
  ASSUME IsFiniteSet(Targets), NEW S \in SUBSET Targets
  PROVE  /\ Cardinality(S \ Cubes) \in Nat /\ Cardinality(S \ Cubes) <= Plain
         /\ Cardinality(Targets \ S) \in Nat
         /\ \A t \in S : /\ t \in Cubes => (S \ {t}) \ Cubes = S \ Cubes
                         /\ t \notin Cubes =>
                              Cardinality((S \ {t}) \ Cubes) = Cardinality(S \ Cubes) - 1
<1>1. IsFiniteSet(Targets \ Cubes) /\ IsFiniteSet(Targets \ S)
  BY FS_Difference
<1>2. S \ Cubes \subseteq Targets \ Cubes
  OBVIOUS
<1>3. IsFiniteSet(S \ Cubes) /\ Cardinality(S \ Cubes) <= Plain
  BY <1>1, <1>2, FS_Subset DEF Plain
<1>4. ASSUME NEW t \in S, t \notin Cubes
      PROVE  Cardinality((S \ {t}) \ Cubes) = Cardinality(S \ Cubes) - 1
  <2>1. (S \ {t}) \ Cubes = (S \ Cubes) \ {t} /\ t \in S \ Cubes
    BY <1>4
  <2> QED  BY <1>3, <2>1, FS_RemoveElement
<1>5. Cardinality(S \ Cubes) \in Nat /\ Cardinality(Targets \ S) \in Nat
  BY <1>1, <1>3, FS_CardinalityType
<1> QED  BY <1>3, <1>4, <1>5

LEMMA InitBudget == IsFiniteSet(Targets) /\ Init => BudgetInv
<1> SUFFICES ASSUME IsFiniteSet(Targets), Init PROVE BudgetInv  OBVIOUS
<1>1. FrameType
  BY InitIInv DEF IInv
<1>2. nextId = 1 /\ pc = "idle" /\ Targets \ created = Targets
  BY DEF Init
<1>3. Missing = Cardinality(Targets)
  BY <1>2 DEF Missing
<1>4. Ids(Cameras) \in Nat /\ Plain \in Nat /\ Cardinality(Targets) \in Nat
  BY <1>1, PlainFacts, CameraFacts
<1>5. Within(0)
  BY <1>2, <1>3, <1>4 DEF Within, MostIds
<1> QED  BY <1>2, <1>3, <1>4, <1>5 DEF BudgetInv

\* What is due of the frame, as numbers.
LEMMA Numbers ==
  ASSUME IsFiniteSet(Targets), IInv
  PROVE  nextId \in Nat /\ Missing \in Nat /\ Due \in Nat /\ Due <= Plain /\ CustomRest \in Nat
<1>1. left \in SUBSET Targets /\ created \in SUBSET Targets /\ nextId \in Nat
  BY DEF IInv, FrameType, Native, NativeType
<1>2. /\ Cardinality(left \ Cubes) \in Nat /\ Cardinality(left \ Cubes) <= Plain
      /\ Cardinality(Targets \ created) \in Nat
  BY <1>1, DueFacts
<1>3. Due \in Nat /\ Due <= Plain /\ Missing \in Nat
  BY <1>2 DEF Due, Missing
<1>4. Ids(Cameras) \in Nat
  BY CameraFacts DEF IInv
<1>5. CustomRest \in Nat
  BY <1>3, <1>4 DEF CustomRest
<1> QED  BY <1>1, <1>3, <1>5

LEMMA CreateBudget ==
  ASSUME IsFiniteSet(Targets), IInv, BudgetInv, NEW t \in Targets, Create(t)
  PROVE  BudgetInv'
<1>1. /\ t \notin created /\ created' = created \cup {t} /\ nextId' = nextId + 1
      /\ UNCHANGED <<pc, left, target, after, camera, rebind>>
  BY DEF Create, frame
<1>2. Missing' = Missing - 1
  <2>1. Targets \ created' = (Targets \ created) \ {t} /\ t \in Targets \ created
    BY <1>1
  <2>2. IsFiniteSet(Targets \ created)
    BY FS_Difference
  <2> QED  BY <2>1, <2>2, FS_RemoveElement DEF Missing
<1>3. nextId' + Missing' = nextId + Missing
  BY <1>1, <1>2, Numbers
<1> QED
  BY <1>1, <1>3
  DEF BudgetInv, Within, TargetRest, CustomRest, CameraRest, Due

\* A frame begins, ends or is cut short.
LEMMA PassBudget ==
  ASSUME IsFiniteSet(Targets), IInv, BudgetInv, BeginFrame \/ EndFrame \/ Catch \/ Die
  PROVE  BudgetInv'
<1>1. created' = created /\ Missing' = Missing
  BY DEF BeginFrame, EndFrame, Catch, Die, Missing
<1>2. CASE BeginFrame
  <2>1. /\ pc = "idle" /\ pc' = "custom" /\ nextId' = nextId
        /\ left' \in SUBSET Targets /\ nextId + Missing <= Cardinality(Targets) + 1
    BY <1>2 DEF BeginFrame, BudgetInv, IInv, FrameType, native
  <2>2. Due' \in Nat /\ Due' <= Plain
    BY <2>1, DueFacts DEF Due
  <2>3. Within(CustomRest)' /\ Within(0)'
    BY <1>1, <2>1, <2>2, PlainFacts, CameraFacts, Numbers
    DEF Within, CustomRest, MostIds, IInv
  <2> QED  BY <2>1, <2>3 DEF BudgetInv
<1>3. CASE EndFrame
  <2>1. pc' = "idle" /\ nextId' = 0
    BY <1>3 DEF EndFrame
  <2>2. Missing <= Cardinality(Targets)
    BY FS_Subset DEF Missing
  <2>3. nextId' + Missing' <= Cardinality(Targets) + 1 /\ Within(0)'
    BY <1>1, <2>1, <2>2, PlainFacts, CameraFacts, Numbers DEF Within, MostIds, IInv
  <2> QED  BY <2>1, <2>3 DEF BudgetInv
<1>4. CASE Catch \/ Die
  <2>1. pc' \in {"caught", "dead"} /\ nextId' = nextId
    BY <1>4 DEF Catch, Die, native
  <2> QED  BY <1>1, <2>1 DEF BudgetInv, Within
<1> QED  BY <1>2, <1>3, <1>4

\* The steps of a frame up to the bind of a target.
LEMMA DueBudget ==
  ASSUME IsFiniteSet(Targets), IInv, BudgetInv,
         NEW t \in Targets, CustomViewport(t) \/ CameraTarget(t)
  PROVE  BudgetInv'
<1>1. /\ nextId' = nextId + 1 /\ created' = created /\ camera' = camera
      /\ t \in left /\ left' = left \ {t} /\ target' = t
  BY DEF CustomViewport, CameraTarget, SetUpView
<1>2. Missing' = Missing
  BY <1>1 DEF Missing
<1>3. /\ t \in Cubes => Due' = Due
      /\ t \notin Cubes => Due' = Due - 1
      /\ Due' \in Nat
  <2>1. left \in SUBSET Targets /\ left' \in SUBSET Targets
    BY <1>1 DEF IInv, FrameType
  <2>2. Due' \in Nat
    BY <2>1, DueFacts DEF Due
  <2> QED  BY <1>1, <2>1, <2>2, DueFacts DEF Due
<1>4. nextId \in Nat /\ Missing \in Nat /\ Due \in Nat /\ Ids(Cameras) \in Nat
      /\ Ids(Cameras) >= 2 /\ MostIds \in Nat
  BY Numbers, CameraFacts DEF IInv
<1>5. CASE CustomViewport(t)
  <2>1. pc' = "target" /\ after' = "custom" /\ Within(CustomRest)
    BY <1>5 DEF CustomViewport, BudgetInv
  <2>2. TargetRest(2)' + 1 <= CustomRest /\ TargetRest(2)' \in Nat
    <3>1. CASE t \in Cubes
      BY <1>1, <1>4, <3>1 DEF TargetRest, CustomRest
    <3>2. CASE t \notin Cubes
      <4>1. CustomRest' = CustomRest - 4 /\ CustomRest \in Nat /\ Due' \in Nat
        BY <1>3, <1>4, <3>2 DEF CustomRest, Ids, PerCamera, Plain
      <4>2. TargetRest(2)' = 2 + 1 + CustomRest' /\ CustomRest' \in Nat
        BY <1>1, <1>4, <2>1, <3>2, <4>1 DEF TargetRest, CustomRest, Ids, PerCamera, Plain
      <4> QED  BY <4>1, <4>2
    <3> QED  BY <3>1, <3>2
  <2>3. Within(TargetRest(2))' /\ Within(0)'
    BY <1>1, <1>2, <1>4, <2>1, <2>2 DEF Within, MostIds, Ids, PerCamera, Plain, CustomRest
  <2> QED  BY <2>1, <2>3 DEF BudgetInv
<1>6. CASE CameraTarget(t)
  <2>1. pc' = "bind" /\ after' = "targets" /\ Within(CameraRest(1))
    BY <1>1, <1>6 DEF CameraTarget, BudgetInv
  <2>2. Ids(Cameras - camera - 1) \in Nat
    BY <1>6, CameraStep DEF CameraTarget, IInv, StageInv
  <2>3. TargetRest(1)' + 1 <= CameraRest(1) /\ TargetRest(1)' \in Nat /\ CameraRest(1) \in Nat
    <3>1. CameraRest(1) \in Nat /\ CameraRest(1) >= 2
      BY <1>4, <2>2 DEF CameraRest
    <3>2. CASE t \in Cubes
      BY <1>1, <3>1, <3>2 DEF TargetRest
    <3>3. CASE t \notin Cubes
      <4>1. CameraRest(1)' = CameraRest(1) - 3 /\ CameraRest(1)' \in Nat
        BY <1>1, <1>3, <1>4, <2>2, <3>3 DEF CameraRest, Ids, PerCamera, Plain
      <4>2. TargetRest(1)' = 1 + 1 + CameraRest(1)'
        BY <1>1, <2>1, <3>3 DEF TargetRest
      <4> QED  BY <3>1, <4>1, <4>2
    <3> QED  BY <3>2, <3>3
  <2>4. Within(TargetRest(1))' /\ Within(0)'
    BY <1>1, <1>2, <1>4, <2>1, <2>3 DEF Within, MostIds, Ids, PerCamera, Plain
  <2> QED  BY <2>1, <2>4 DEF BudgetInv
<1> QED  BY <1>5, <1>6

\* The steps of a target, from its viewport to the end of its draws.
LEMMA TargetBudget ==
  ASSUME IsFiniteSet(Targets), IInv, BudgetInv,
         CustomTarget \/ BindTarget \/ ClearTarget \/ DrawTarget
  PROVE  BudgetInv'
<1>1. UNCHANGED <<created, camera, left, after, target>> /\ nextId' \in {nextId, nextId + 1}
  BY DEF CustomTarget, BindTarget, ClearTarget, DrawTarget, SetUpView, Clear, Draw, native
<1>2. Missing' = Missing /\ nextId \in Nat /\ Missing \in Nat
  BY <1>1, Numbers DEF Missing
<1>3. TargetRest(0) \in Nat /\ TargetRest(1) = TargetRest(0) + 1
      /\ TargetRest(2) = TargetRest(1) + 1
  <2>1. Due \in Nat /\ CustomRest \in Nat
    BY Numbers
  <2>2. after = "custom" \/ camera < Cameras
    BY DEF CustomTarget, BindTarget, ClearTarget, DrawTarget, IInv, StageInv, FrameType
  <2>3. after # "custom" => CameraRest(1) \in Nat
    BY <2>1, <2>2, CameraStep DEF CameraRest, IInv
  <2> QED  BY <2>1, <2>3 DEF TargetRest
<1>4. TargetRest(0)' = TargetRest(0) /\ TargetRest(1)' = TargetRest(1)
  BY <1>1 DEF TargetRest, CustomRest, CameraRest, Due
<1>5. MostIds \in Nat
  BY CameraFacts DEF IInv
<1>6. CASE CustomTarget
  <2>1. Within(TargetRest(2)) /\ pc' = "bind"
    BY <1>6 DEF CustomTarget, BudgetInv
  <2>2. Within(TargetRest(1))' /\ Within(0)'
    BY <1>1, <1>2, <1>3, <1>4, <1>5, <2>1 DEF Within, MostIds
  <2> QED  BY <2>1, <2>2 DEF BudgetInv
<1>7. CASE BindTarget
  <2>1. Within(TargetRest(1)) /\ pc' = "clear"
    BY <1>7 DEF BindTarget, BudgetInv
  <2>2. Within(TargetRest(0))' /\ Within(0)'
    BY <1>1, <1>2, <1>3, <1>4, <1>5, <2>1 DEF Within, MostIds
  <2> QED  BY <2>1, <2>2 DEF BudgetInv
<1>8. CASE ClearTarget \/ DrawTarget
  <2>1. /\ Within(TargetRest(0)) /\ pc' \in {"fill", "throw", "unbind"} /\ nextId' = nextId
        /\ pc' = "unbind" => target' \notin Cubes
    BY <1>8 DEF ClearTarget, DrawTarget, Clear, Draw, BudgetInv
  <2>2. Within(TargetRest(0))' /\ Within(0)'
    BY <1>2, <1>3, <1>4, <1>5, <2>1 DEF Within, MostIds
  <2> QED  BY <2>1, <2>2 DEF BudgetInv
<1> QED  BY <1>6, <1>7, <1>8

\* The steps between targets and cameras.
LEMMA CameraBudget ==
  ASSUME IsFiniteSet(Targets), IInv, BudgetInv,
         UnbindTarget \/ Restore \/ ClearBackground \/ ClearBetween
         \/ CameraViewport \/ Rebind \/ DrawCamera
  PROVE  BudgetInv'
<1>1. created' = created /\ nextId' \in {nextId, nextId + 1}
  BY DEF UnbindTarget, Restore, ClearBackground, ClearBetween, CameraViewport, Rebind,
         DrawCamera, SetUpView, Clear, Draw
<1>2. /\ Missing' = Missing /\ nextId \in Nat /\ Missing \in Nat /\ Due \in Nat
      /\ MostIds \in Nat /\ Ids(Cameras) \in Nat /\ Cameras \in Nat /\ camera \in Nat
  BY <1>1, Numbers, CameraFacts DEF Missing, IInv
<1>3. CASE UnbindTarget
  <2>1. /\ Within(TargetRest(0)) /\ target \notin Cubes /\ pc' = after /\ rebind' = TRUE
        /\ UNCHANGED <<camera, left, after>>
    BY <1>3 DEF UnbindTarget, BudgetInv
  <2>2. CASE after = "custom"
    <3>1. CustomRest' = CustomRest
      BY <2>1 DEF CustomRest, Due
    <3>2. Within(CustomRest)' /\ Within(0)'
      BY <1>1, <1>2, <2>1, <2>2, <3>1, Numbers DEF Within, TargetRest, MostIds
    <3> QED  BY <2>1, <2>2, <3>2 DEF BudgetInv
  <2>3. CASE after = "targets"
    <3>1. CameraRest(1)' = CameraRest(1)
      BY <2>1 DEF CameraRest, Due
    <3>2. Ids(Cameras - camera - 1) \in Nat
      BY <1>3, <2>3, CameraStep DEF UnbindTarget, IInv, StageInv
    <3>3. Within(CameraRest(1))' /\ Within(0)'
      BY <1>1, <1>2, <2>1, <2>3, <3>1, <3>2 DEF Within, TargetRest, CameraRest, MostIds
    <3> QED  BY <2>1, <2>3, <3>3 DEF BudgetInv
  <2> QED  BY <2>2, <2>3 DEF IInv, FrameType
<1>4. CASE Restore
  <2>1. Within(CustomRest) /\ pc' = "background"
    BY <1>4 DEF Restore, BudgetInv
  <2>2. Within(Ids(Cameras) + 1)' /\ Within(0)'
    BY <1>1, <1>2, <2>1 DEF Within, CustomRest, MostIds, Ids, PerCamera, Plain
  <2> QED  BY <2>1, <2>2 DEF BudgetInv
<1>5. CASE ClearBackground
  <2>1. /\ Within(Ids(Cameras) + 1) /\ pc' = "camera" /\ camera' = camera /\ nextId' = nextId
        /\ camera = 0
    BY <1>5 DEF ClearBackground, Clear, BudgetInv, IInv, StageInv
  <2>2. Cameras - camera' = Cameras
    BY <1>2, <2>1
  <2>3. Within(Ids(Cameras - camera) + 1)' /\ Within(0)'
    BY <1>2, <2>1, <2>2 DEF Within, MostIds, Ids, PerCamera, Plain
  <2> QED  BY <2>1, <2>3 DEF BudgetInv
<1>6. CASE ClearBetween
  <2>1. pc = "camera" /\ pc' = "viewport" /\ camera' = camera /\ nextId' = nextId
    BY <1>6 DEF ClearBetween, Clear
  <2>2. Within(Ids(Cameras - camera) + 1) /\ Within(0)
    BY <2>1 DEF BudgetInv
  <2>3. Within(Ids(Cameras - camera) + 1)' /\ Within(0)'
    BY <1>2, <2>1, <2>2 DEF Within
  <2> QED  BY <2>1, <2>3 DEF BudgetInv
<1>7. CASE CameraViewport
  <2>1. /\ pc \in {"camera", "viewport"} /\ camera < Cameras /\ camera' = camera
        /\ pc' = "targets" /\ rebind' = FALSE /\ left' \in SUBSET Targets
    BY <1>7, FrameBuffersAssumption DEF CameraViewport, IInv, StageInv, FrameType
  <2>2. Within(Ids(Cameras - camera) + 1)
    BY <2>1 DEF BudgetInv
  <2>3. /\ Ids(Cameras - camera - 1) \in Nat
        /\ Ids(Cameras - camera) = Ids(Cameras - camera - 1) + 3 * Plain + 2
    BY <2>1, CameraStep, PlainFacts DEF IInv, PerCamera
  <2>4. Due' \in Nat /\ Due' <= Plain /\ Plain \in Nat
    BY <2>1, DueFacts, PlainFacts DEF Due
  <2>5. Within(CameraRest(1))' /\ Within(CameraRest(0))' /\ Within(0)'
    BY <1>1, <1>2, <2>1, <2>2, <2>3, <2>4 DEF Within, CameraRest, MostIds
  <2> QED  BY <2>1, <2>5 DEF BudgetInv
<1>8. CASE Rebind
  <2>1. /\ pc = "targets" /\ left = {} /\ rebind = TRUE /\ rebind' = FALSE
        /\ UNCHANGED <<pc, camera, left>> /\ camera < Cameras
    BY <1>8 DEF Rebind, IInv, StageInv, FrameType
  <2>2. Within(CameraRest(1))
    BY <2>1 DEF BudgetInv
  <2>3. Ids(Cameras - camera - 1) \in Nat
    BY <2>1, CameraStep DEF IInv
  <2>4. Due' = Due
    BY <2>1 DEF Due
  <2>5. Within(CameraRest(0))' /\ Within(0)'
    BY <1>1, <1>2, <2>1, <2>2, <2>3, <2>4 DEF Within, CameraRest, MostIds
  <2> QED  BY <2>1, <2>5 DEF BudgetInv
<1>9. CASE DrawCamera
  <2>1. /\ pc = "targets" /\ left = {} /\ rebind = FALSE /\ pc' = "camera"
        /\ camera' = camera + 1 /\ nextId' = nextId /\ camera < Cameras
    BY <1>9 DEF DrawCamera, Draw, IInv, StageInv, FrameType
  <2>2. Within(CameraRest(0))
    BY <2>1 DEF BudgetInv
  <2>3. Ids(Cameras - camera - 1) \in Nat /\ Cameras - camera' = Cameras - camera - 1
    BY <1>2, <2>1, CameraStep DEF IInv
  <2>4. Within(Ids(Cameras - camera) + 1)' /\ Within(0)'
    BY <1>2, <2>1, <2>2, <2>3 DEF Within, CameraRest, MostIds
  <2> QED  BY <2>1, <2>4 DEF BudgetInv
<1> QED  BY <1>3, <1>4, <1>5, <1>6, <1>7, <1>8, <1>9

LEMMA NextBudget ==
  ASSUME IsFiniteSet(Targets), IInv, BudgetInv, [Next]_vars PROVE BudgetInv'
<1>1. CASE UNCHANGED vars
  BY <1>1
  DEF BudgetInv, Within, TargetRest, CustomRest, CameraRest, Due, Missing, vars, native, frame
<1>2. CASE Next
  BY <1>2, CreateBudget, PassBudget, DueBudget, TargetBudget, CameraBudget
  DEF Next, RenderScene, RenderTarget
<1> QED  BY <1>1, <1>2

(* No frame takes more than MostIds view ids, whatever is created, rendered  *)
(* and thrown in it: where bgfx has more views than that, the assertion of   *)
(* GetNewViewId (NativeEngine.h:280) holds.                                  *)
THEOREM RangeHolds ==
  ASSUME IsFiniteSet(Targets), MostIds < MaxViews PROVE Spec => []ViewsInRange
<1>1. Init => BudgetInv
  BY InitBudget
<1>2. IInv /\ BudgetInv /\ [Next]_vars => BudgetInv'
  BY NextBudget
<1>3. IInv /\ BudgetInv => ViewsInRange
  BY Numbers, CameraFacts, FrameBuffersAssumption DEF IInv, BudgetInv, Within, ViewsInRange
<1> QED  BY <1>1, <1>2, <1>3, Invariant, PTL DEF Spec
============================================================================
