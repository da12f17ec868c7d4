-------------------------- MODULE ValidationProofs --------------------------
(***************************************************************************)
(* The safety of the validation runner, for any number of tests, retries   *)
(* and frames.                                                             *)
(***************************************************************************)
EXTENDS Validation, SequenceTheorems, TLAPS

Passed(t) == verdict[t] \in {"validated", "skipped", "retracted"}
AllPassed == \A t \in 1 .. Tests : Passed(t)

\* The queue is empty but between Evaluate and the callback, when it holds the
\* one callback of the test, and either the request or the image.
QueueInv ==
  \/ /\ phase \notin {"shot", "stuck"}
     /\ requested = 0 /\ images = << >> /\ callbacks = << >>
  \/ /\ phase = "shot" /\ callbacks = <<test>>
     /\ \/ requested = 1 /\ images = << >> /\ shown = <<test, 0>>
        \/ requested = 0 /\ images = <<<<test, 0>>>>
  \/ /\ phase = "stuck" /\ requested = 0 /\ images = << >>

\* The tests before the present one have passed.
EarlierPassed == \A t \in 1 .. test - 1 : Passed(t)

FrameInv == phase \in {"ready", "frame"} => count >= 1

\* The code 0 is given only when every test has passed, and nothing follows it;
\* the host returns only when it was told to.
ExitInv ==
  /\ exiting = "0" => AllPassed /\ phase = "over"
  /\ errorCode = "0" /\ posted => AllPassed /\ phase = "over"
  /\ exiting = None /\ doExit => posted
  /\ host \in Codes \cup {"stopping"} => posted \/ closed \/ (platform = "x11" /\ doExit)
  /\ host = "0" => errorCode = "0"

IInv == TypeOK /\ QueueInv /\ EarlierPassed /\ FrameInv /\ ExitInv
----------------------------------------------------------------------------
\* The sequences of at most one element.
LEMMA ShortSeq ==
  ASSUME NEW S
  PROVE  /\ << >> \in Seq(S) /\ Len(<< >>) = 0
         /\ \A s \in S : <<s>> \in Seq(S) /\ Len(<<s>>) = 1 /\ Tail(<<s>>) = << >>
OBVIOUS

\* What done does to the variables it changes.
LEMMA DoneKeeps ==
  ASSUME TypeOK, EarlierPassed,
         NEW outcome \in Outcomes,
         NEW otherwise \in {"over", "frame"},
         Done(outcome, otherwise), exiting = None
  PROVE  /\ phase' \in {otherwise, "over", "image"}
         /\ outcome # "failed" => phase' \in {"over", "image"}
         /\ phase' = "frame" => test' = test
         /\ test' \in 1 .. Tests
         /\ retry' \in 0 .. MaxRetry - 1
         /\ verdict' \in [1 .. Tests -> Verdicts]
         /\ exiting' \in Codes \cup {None}
         /\ EarlierPassed'
         /\ exiting' = "0" => AllPassed' /\ phase' = "over"
<1> USE ValidationAssumption DEF TypeOK, Codes, None
<1>1. /\ verdict' \in [1 .. Tests -> Verdicts]
      /\ outcome # "failed" => verdict'[test] \in {"validated", "skipped", "retracted"}
      /\ \A t \in 1 .. test - 1 : verdict'[t] = verdict[t]
  BY DEF Done, Tell, Outcomes, Verdicts
<1>2. \A t \in 1 .. test - 1 : verdict'[t] \in {"validated", "skipped", "retracted"}
  BY <1>1 DEF EarlierPassed, Passed
<1>3. CASE outcome = "failed"
  <2>1. exiting' = "-1" /\ phase' = otherwise /\ test' = test /\ retry' = retry
    BY <1>3 DEF Done
  <2>2. EarlierPassed'
    BY <1>2, <2>1 DEF EarlierPassed, Passed
  <2> QED  BY <2>1, <2>2, <1>1, <1>3
<1>4. CASE outcome # "failed" /\ test = Tests
  <2>1. exiting' = "0" /\ phase' = "over" /\ test' = test /\ retry' = retry
    BY <1>4 DEF Done
  <2>2. EarlierPassed'
    BY <1>2, <2>1 DEF EarlierPassed, Passed
  <2>3. \A t \in 1 .. Tests : verdict'[t] \in {"validated", "skipped", "retracted"}
    BY <1>1, <1>2, <1>4
  <2>4. AllPassed'
    BY <2>3 DEF AllPassed, Passed
  <2> QED  BY <2>1, <2>2, <2>4, <1>1
<1>5. CASE outcome # "failed" /\ test # Tests
  <2>1. exiting' = exiting /\ phase' = "image" /\ test' = test + 1 /\ retry' = 0
    BY <1>5 DEF Done
  <2>2. \A t \in 1 .. test' - 1 : verdict'[t] \in {"validated", "skipped", "retracted"}
    BY <1>1, <1>2, <1>5, <2>1
  <2>3. EarlierPassed'
    BY <2>2 DEF EarlierPassed, Passed
  <2> QED  BY <2>1, <2>3, <1>1, <1>5
<1> QED  BY <1>3, <1>4, <1>5

LEMMA InitIInv == Init => IInv
<1> SUFFICES ASSUME Init PROVE IInv  OBVIOUS
<1> USE ValidationAssumption DEF Init, None, Codes
<1>1. TypeOK
  <2>1. <<0, 0>> \in (0 .. Tests) \X (0 .. MaxFrames)
    OBVIOUS
  <2>2. callbacks \in Seq(1 .. Tests) /\ images \in Seq((0 .. Tests) \X (0 .. MaxFrames))
    BY ShortSeq
  <2>3. verdict \in [1 .. Tests -> Verdicts]
    BY DEF Verdicts
  <2>4. /\ shown \in (0 .. Tests) \X (0 .. MaxFrames) /\ requested \in Nat
        /\ test \in 1 .. Tests /\ retry \in 0 .. MaxRetry - 1 /\ count \in 0 .. MaxFrames
    BY <2>1
  <2>5. /\ platform \in Platforms /\ phase \in Phases
        /\ exiting \in Codes \cup {None} /\ errorCode \in Codes
        /\ host \in Codes \cup {"running", "stopping"}
        /\ doExit \in BOOLEAN /\ posted \in BOOLEAN /\ closed \in BOOLEAN
    BY DEF Phases
  <2> HIDE DEF Init
  <2> QED  BY <2>2, <2>3, <2>4, <2>5 DEF TypeOK
<1>2. QueueInv  BY DEF QueueInv
<1>3. EarlierPassed /\ FrameInv /\ ExitInv  BY DEF EarlierPassed, FrameInv, ExitInv
<1> QED  BY <1>1, <1>2, <1>3 DEF IInv

\* The steps of the runner that only change where it is.
LEMMA MoveStep ==
  ASSUME IInv, Configure \/ ImageLoaded \/ SceneCreated \/ TimerFires \/ SceneReady
  PROVE  IInv'
<1> USE DEF IInv
<1>1. /\ phase \in {"config", "image", "playground", "promise", "timer", "ready"}
      /\ phase' \in {"image", "playground", "promise", "ready", "frame"}
      /\ UNCHANGED <<platform, test, retry, verdict, shown, shots, exiting, exit, host, closed>>
      /\ count' \in 0 .. MaxFrames
      /\ host = "running" /\ exiting = None
  BY ValidationAssumption
  DEF TypeOK, Configure, ImageLoaded, SceneCreated, TimerFires, SceneReady, Running
<1>2. TypeOK'  BY <1>1 DEF TypeOK, shots, exit, Phases
<1>3. QueueInv'  BY <1>1 DEF QueueInv, shots
<1>4. EarlierPassed'  BY <1>1 DEF EarlierPassed, Passed
<1>5. FrameInv'  BY <1>1 DEF FrameInv, Configure, ImageLoaded, SceneCreated, TimerFires, SceneReady
<1>6. ExitInv'  BY <1>1 DEF ExitInv, AllPassed, Passed, exit, Codes, None
<1> QED  BY <1>2, <1>3, <1>4, <1>5, <1>6

LEMMA FailStep == ASSUME IInv, PlaygroundFailed PROVE IInv'
<1> USE DEF IInv
<1>1. /\ phase \in {"playground", "promise"} /\ host = "running" /\ exiting = None
      /\ UNCHANGED <<platform, count, shown, shots, exit, host, closed>>
      /\ OnError
  BY DEF PlaygroundFailed, Running
<1>2. CASE /\ retry + 1 < MaxRetry
           /\ retry' = retry + 1 /\ phase' = "timer"
           /\ UNCHANGED <<test, verdict, exiting>>
  <2>1. TypeOK'  BY <1>1, <1>2, ValidationAssumption DEF TypeOK, shots, exit, Phases
  <2>2. QueueInv'  BY <1>1, <1>2 DEF QueueInv, shots
  <2>3. EarlierPassed'  BY <1>2 DEF EarlierPassed, Passed
  <2>4. FrameInv'  BY <1>2 DEF FrameInv
  <2>5. ExitInv'  BY <1>1, <1>2 DEF ExitInv, AllPassed, Passed, exit, Codes, None
  <2> QED  BY <2>1, <2>2, <2>3, <2>4, <2>5
<1>3. CASE Done("skipped", "over")
  <2>1. /\ phase' \in {"over", "image"} /\ test' \in 1 .. Tests
        /\ retry' \in 0 .. MaxRetry - 1
        /\ verdict' \in [1 .. Tests -> Verdicts]
        /\ exiting' \in Codes \cup {None} /\ EarlierPassed'
        /\ exiting' = "0" => AllPassed' /\ phase' = "over"
    BY <1>1, <1>3, DoneKeeps DEF Outcomes
  <2>2. TypeOK'  BY <1>1, <2>1 DEF TypeOK, shots, exit, Phases
  <2>3. QueueInv'  BY <1>1, <2>1 DEF QueueInv, shots
  <2>4. FrameInv'  BY <2>1 DEF FrameInv
  <2>5. ExitInv'  BY <1>1, <2>1 DEF ExitInv, exit, Codes, None
  <2> QED  BY <2>1, <2>2, <2>3, <2>4, <2>5
<1> QED  BY <1>1, <1>2, <1>3 DEF OnError

LEMMA FrameStep == ASSUME IInv, Frame PROVE IInv'
<1> USE DEF IInv
<1>1. /\ phase = "frame" /\ host = "running" /\ exiting = None
      /\ count' = count - 1 /\ shown' = <<test, count - 1>>
      /\ UNCHANGED <<platform, test, retry, verdict, exiting, exit, host, closed>>
      /\ count \in 1 .. MaxFrames /\ test \in 1 .. Tests
      /\ requested = 0 /\ images = << >> /\ callbacks = << >>
  BY ValidationAssumption DEF Frame, Running, FrameInv, QueueInv, TypeOK
<1>2. \/ /\ count = 1 /\ phase' = "shot"
         /\ callbacks' = <<test>> /\ requested' = 1 /\ images' = << >>
      \/ /\ count # 1 /\ phase' = "frame" /\ UNCHANGED shots
  BY <1>1 DEF Frame, Evaluate, shots
<1>3. TypeOK'
  <2>1. shown' \in (0 .. Tests) \X (0 .. MaxFrames)
    BY <1>1, ValidationAssumption
  <2>2. callbacks' \in Seq(1 .. Tests) /\ requested' \in Nat
    <3>1. CASE callbacks' = <<test>> /\ requested' = 1
      BY <1>1, <3>1, ShortSeq
    <3>2. CASE UNCHANGED shots
      BY <3>2 DEF TypeOK, shots
    <3> QED  BY <1>2, <3>1, <3>2
  <2>3. images' = << >>
    BY <1>1, <1>2 DEF shots
  <2> QED  BY <1>1, <1>2, <2>1, <2>2, <2>3, ValidationAssumption DEF TypeOK, exit, Phases
<1>4. QueueInv'  BY <1>1, <1>2 DEF QueueInv, shots
<1>5. EarlierPassed'  BY <1>1 DEF EarlierPassed, Passed
<1>6. FrameInv'  BY <1>1, <1>2 DEF FrameInv
<1>7. ExitInv'  BY <1>1, <1>2 DEF ExitInv, AllPassed, Passed, exit, Codes, None
<1> QED  BY <1>3, <1>4, <1>5, <1>6, <1>7

LEMMA ThrowStep == ASSUME IInv, FrameThrows PROVE IInv'
<1> USE DEF IInv
<1>1. /\ phase = "frame" /\ host = "running" /\ exiting = None
      /\ shown' = <<test, count>>
      /\ UNCHANGED <<platform, count, shots, exit, host, closed>>
      /\ Done("failed", "frame")
  BY DEF FrameThrows, Running
<1>2. /\ phase' = "frame" /\ exiting' = "-1"
      /\ test' = test
  BY <1>1 DEF Done
<1>3. /\ retry' \in 0 .. MaxRetry - 1 /\ test' \in 1 .. Tests
      /\ verdict' \in [1 .. Tests -> Verdicts]
      /\ EarlierPassed'
  BY <1>1, DoneKeeps DEF Outcomes
<1>4. TypeOK'
  <2>1. shown' \in (0 .. Tests) \X (0 .. MaxFrames)
    BY <1>1, ValidationAssumption DEF TypeOK
  <2> QED  BY <1>1, <1>2, <1>3, <2>1 DEF TypeOK, shots, exit, Phases, Codes
<1>5. QueueInv'  BY <1>1, <1>2 DEF QueueInv, shots
<1>6. FrameInv'  BY <1>1, <1>2 DEF FrameInv
<1>7. ExitInv'  BY <1>1, <1>2 DEF ExitInv, exit, Codes, None
<1> QED  BY <1>3, <1>4, <1>5, <1>6, <1>7

LEMMA CompareStep == ASSUME IInv, Compare PROVE IInv'
<1> USE DEF IInv
<1>1. /\ phase = "shot" /\ host = "running" /\ exiting = None
      /\ callbacks = <<test>> /\ images = <<<<test, 0>>>> /\ requested = 0
  BY DEF Compare, Running, QueueInv
<1>2. /\ callbacks' = << >> /\ images' = << >>
      /\ UNCHANGED <<platform, count, shown, requested, exit, host, closed>>
  BY <1>1 DEF Compare
<1>3. PICK outcome \in {"validated", "failed"} : Done(outcome, "over")
  BY DEF Compare
<1>4. /\ phase' \in {"over", "image"} /\ test' \in 1 .. Tests
      /\ retry' \in 0 .. MaxRetry - 1
      /\ verdict' \in [1 .. Tests -> Verdicts]
      /\ exiting' \in Codes \cup {None} /\ EarlierPassed'
      /\ exiting' = "0" => AllPassed' /\ phase' = "over"
  BY <1>1, <1>3, DoneKeeps DEF Outcomes
<1>5. TypeOK'  BY <1>1, <1>2, <1>4 DEF TypeOK, exit, Phases
<1>6. QueueInv'  BY <1>1, <1>2, <1>4 DEF QueueInv
<1>7. FrameInv'  BY <1>4 DEF FrameInv
<1>8. ExitInv'  BY <1>1, <1>2, <1>4 DEF ExitInv, exit, Codes, None
<1> QED  BY <1>4, <1>5, <1>6, <1>7, <1>8

LEMMA ShotStep == ASSUME IInv, ScreenShot PROVE IInv'
<1> USE DEF IInv
<1>1. /\ phase = "shot" /\ callbacks = <<test>> /\ images = << >>
      /\ requested = 1 /\ shown = <<test, 0>>
  BY DEF ScreenShot, QueueInv, TypeOK
<1>2. /\ requested' = 0 /\ images' = <<<<test, 0>>>>
      /\ UNCHANGED <<callbacks, platform, runner, shown, exiting, exit, host, closed>>
  BY <1>1 DEF ScreenShot
<1>3. TypeOK'
  <2>1. <<test, 0>> \in (0 .. Tests) \X (0 .. MaxFrames)
    BY ValidationAssumption DEF TypeOK
  <2>2. images' \in Seq((0 .. Tests) \X (0 .. MaxFrames))
    BY <1>2, <2>1
  <2> QED  BY <1>2, <2>2 DEF TypeOK, runner, exit
<1>4. QueueInv'  BY <1>1, <1>2 DEF QueueInv, runner
<1>5. EarlierPassed' /\ FrameInv'  BY <1>2 DEF EarlierPassed, Passed, FrameInv, runner
<1>6. ExitInv'  BY <1>2 DEF ExitInv, AllPassed, Passed, runner, exit
<1> QED  BY <1>3, <1>4, <1>5, <1>6

LEMMA StickStep == ASSUME IInv, Stick PROVE IInv'
<1> USE DEF IInv
<1>1. /\ phase' = "stuck" /\ phase # "over"
      /\ images' = << >> /\ requested = 0
      /\ UNCHANGED <<platform, test, retry, count, verdict, shown, callbacks, requested,
                     exiting, exit, host, closed>>
  <2>1. CASE phase = "shot"
    <3>1. requested = 0 /\ images = <<<<test, 0>>>>
      BY <2>1 DEF Stick, QueueInv
    <3>2. Tail(images) = << >>
      BY <3>1, ShortSeq
    <3> QED  BY <2>1, <3>1, <3>2 DEF Stick
  <2>2. CASE phase # "shot"
    BY <2>2 DEF Stick, QueueInv
  <2> QED  BY <2>1, <2>2
<1>2. TypeOK'  BY <1>1 DEF TypeOK, exit, Phases
<1>3. QueueInv'  BY <1>1 DEF QueueInv
<1>4. EarlierPassed' /\ FrameInv'  BY <1>1 DEF EarlierPassed, Passed, FrameInv
<1>5. ExitInv'  BY <1>1 DEF ExitInv, AllPassed, Passed, exit
<1> QED  BY <1>2, <1>3, <1>4, <1>5

\* The steps of exit, of the host and of the user.
LEMMA HostStep ==
  ASSUME IInv, ExitFlag \/ ExitCode \/ Host \/ Close
  PROVE  IInv'
<1> USE DEF IInv
<1>1. UNCHANGED <<platform, runner, shown, shots>>
  BY DEF ExitFlag, ExitCode, Host, HostStops, HostStopped, HostReturns, Close
<1>2. TypeOK'
  BY <1>1 DEF TypeOK, ExitFlag, ExitCode, Host, HostStops, HostStopped, HostReturns, Close,
              runner, shots, exit, Codes
<1>3. QueueInv' /\ EarlierPassed' /\ FrameInv'
  BY <1>1 DEF QueueInv, EarlierPassed, Passed, FrameInv, runner, shots
<1>4. ExitInv'
  <2>1. AllPassed' = AllPassed /\ phase' = phase
    BY <1>1 DEF AllPassed, Passed, runner
  <2>2. CASE ExitFlag
    BY <1>1, <2>1, <2>2 DEF ExitInv, ExitFlag, Codes, None
  <2>3. CASE ExitCode
    BY <1>1, <2>1, <2>3 DEF ExitInv, ExitCode, Codes, None
  <2>4. CASE Host
    BY <1>1, <2>1, <2>4
    DEF TypeOK, ExitInv, Host, HostStops, HostStopped, HostReturns, exit, Codes, None
  <2>5. CASE Close
    BY <1>1, <2>1, <2>5 DEF ExitInv, Close, exit, Codes, None
  <2> QED  BY <2>2, <2>3, <2>4, <2>5
<1> QED  BY <1>2, <1>3, <1>4

LEMMA NextIInv == IInv /\ [Next]_vars => IInv'
<1> SUFFICES ASSUME IInv, [Next]_vars PROVE IInv'  OBVIOUS
<1>1. CASE UNCHANGED vars
  BY <1>1
  DEF IInv, TypeOK, QueueInv, EarlierPassed, FrameInv, ExitInv, AllPassed, Passed, vars,
      runner, shots, exit
<1>2. CASE Next
  BY <1>2, MoveStep, FailStep, FrameStep, ThrowStep, CompareStep, ShotStep, StickStep, HostStep
  DEF Next, JavaScript
<1> QED  BY <1>1, <1>2

(* The inductive invariant of the runner.                                    *)
THEOREM Invariant == Spec => []IInv
<1> QED  BY InitIInv, NextIInv, PTL DEF Spec

(* The variables keep their types, and no playground is asked for more often *)
(* than maxRetry times.                                                      *)
THEOREM TypesHold == Spec => []TypeOK
<1>1. IInv => TypeOK  BY DEF IInv
<1> QED  BY <1>1, Invariant, PTL

(* A screenshot always finds its callback, so the assertion of screenShot    *)
(* holds.                                                                    *)
THEOREM CallbacksQueued == Spec => []CallbackQueued
<1>1. IInv => CallbackQueued
  <2> SUFFICES ASSUME IInv PROVE CallbackQueued  OBVIOUS
  <2>1. CASE callbacks = <<test>>
    <3>1. Len(callbacks) = 1
      BY <2>1, ShortSeq
    <3>2. requested + Len(images) <= 1
      BY <2>1 DEF IInv, QueueInv
    <3> QED  BY <3>1, <3>2 DEF CallbackQueued
  <2>2. CASE callbacks # <<test>>
    <3>1. requested = 0 /\ images = << >>
      BY <2>2 DEF IInv, QueueInv
    <3>2. Len(callbacks) \in Nat
      BY DEF IInv, TypeOK
    <3> QED  BY <3>1, <3>2 DEF CallbackQueued
  <2> QED  BY <2>1, <2>2
<1> QED  BY <1>1, Invariant, PTL

(* Every image is the last frame of the test its callback belongs to.        *)
THEOREM ShotsOfTheirTests == Spec => []ShotOfItsTest
<1>1. IInv => ShotOfItsTest
  BY DEF IInv, QueueInv, ShotOfItsTest
<1> QED  BY <1>1, Invariant, PTL

(* The process does not return 0 after a failure, but for the user and for   *)
(* the race of X11.                                                          *)
THEOREM ExitCodeTells == Spec => []ExitTells
<1>1. IInv => ExitTells
  BY DEF IInv, TypeOK, ExitInv, ExitTells, AllPassed, Passed, Codes, None
<1> QED  BY <1>1, Invariant, PTL
----------------------------------------------------------------------------
\* A runner that is over has called exit; what is posted was flagged before.
OverInv ==
  /\ phase = "over" => exiting # None \/ doExit
  /\ posted => doExit

LEMMA DoneOver ==
  ASSUME NEW outcome \in Outcomes,
         NEW otherwise \in {"over", "frame"},
         Done(outcome, otherwise)
  PROVE  phase' = "over" => exiting' # None
BY DEF Done, None

\* Only done ends a test, and only exit touches doExit.
LEMMA NextOver == OverInv /\ [Next]_vars => OverInv'
<1> SUFFICES ASSUME OverInv, [Next]_vars PROVE OverInv'  OBVIOUS
<1>1. CASE Configure \/ ImageLoaded \/ SceneCreated \/ TimerFires \/ SceneReady \/ Frame \/ Stick
  <2>1. phase' # "over" /\ UNCHANGED exit
    BY <1>1 DEF Configure, ImageLoaded, SceneCreated, TimerFires, SceneReady, Frame, Stick
  <2> QED  BY <2>1 DEF OverInv, exit
<1>2. CASE PlaygroundFailed
  <2>1. (phase' = "over" => exiting' # None) /\ UNCHANGED exit
    BY <1>2, DoneOver DEF PlaygroundFailed, OnError, Outcomes
  <2> QED  BY <2>1 DEF OverInv, exit
<1>3. CASE FrameThrows
  <2>1. (phase' = "over" => exiting' # None) /\ UNCHANGED exit
    BY <1>3, DoneOver DEF FrameThrows, Outcomes
  <2> QED  BY <2>1 DEF OverInv, exit
<1>4. CASE Compare
  <2>1. (phase' = "over" => exiting' # None) /\ UNCHANGED exit
    BY <1>4, DoneOver DEF Compare, Outcomes
  <2> QED  BY <2>1 DEF OverInv, exit
<1>5. CASE ExitFlag \/ ExitCode
  BY <1>5 DEF OverInv, ExitFlag, ExitCode, runner
<1>6. CASE ScreenShot \/ Host \/ Close \/ UNCHANGED vars
  <2>1. UNCHANGED <<phase, exiting, exit>>
    BY <1>6 DEF ScreenShot, Host, HostStops, HostStopped, HostReturns, Close, vars, runner
  <2> QED  BY <2>1 DEF OverInv, exit
<1> QED  BY <1>1, <1>2, <1>3, <1>4, <1>5, <1>6 DEF Next, JavaScript

\* What is awaited is on its way.
Awaited ==
  /\ phase = "frame" => count >= 1
  /\ phase = "shot" => requested + Len(images) = 1
  /\ phase = "over" => exiting # None \/ posted
  /\ posted => doExit

(* The runner never waits for nothing: the render loop has not counted past  *)
(* the frame that ends it; a test that stopped it has its screenshot asked   *)
(* for or on its way; and after the last test exit is being called or the    *)
(* host has been told, and will find doExit set (validation_native.js:46-87, *)
(* 315-327; TestUtils.h:73-89).                                              *)
THEOREM NeverWaitsForNothing == Spec => []Awaited
<1>1. Init => OverInv
  BY DEF Init, OverInv
<1>2. Spec => []OverInv
  BY <1>1, NextOver, PTL DEF Spec
<1>3. IInv /\ OverInv => Awaited
  <2> SUFFICES ASSUME IInv, OverInv PROVE Awaited  OBVIOUS
  <2>1. phase = "frame" => count >= 1
    BY DEF IInv, FrameInv
  <2>2. phase = "shot" => requested + Len(images) = 1
    BY ShortSeq DEF IInv, QueueInv
  <2>3. phase = "over" => exiting # None \/ posted
    BY DEF IInv, ExitInv, OverInv
  <2> QED  BY <2>1, <2>2, <2>3 DEF Awaited, OverInv
<1> QED  BY <1>2, <1>3, Invariant, PTL
=============================================================================
