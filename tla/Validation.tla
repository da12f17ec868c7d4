----------------------------- MODULE Validation -----------------------------
(***************************************************************************)
(* The runner of the validation tests                                      *)
(* (Apps/ValidationTests/Scripts/validation_native.js) with its host       *)
(* (Shared/TestUtils.h, Win32/App.cpp, X11/App.cpp) and the screenshots of *)
(* the graphics device (Core/Graphics/Source/BgfxCallback.cpp).            *)
(*                                                                         *)
(* JavaScript is one thread, which is here wherever phase says; the host   *)
(* is another.  Every test is a playground, as in config.json.  What never *)
(* answers, never gets ready or throws where nothing catches it ends in    *)
(* the phase "stuck".                                                      *)
(***************************************************************************)
EXTENDS Naturals, Sequences

CONSTANTS Tests,         \* how many tests the configuration lists
          MaxRetry,      \* maxRetry of a playground
          MaxFrames,     \* bound of renderCount
          Platforms      \* of "win32" and "x11"; elsewhere exit does nothing

ASSUME ValidationAssumption ==
  /\ Tests \in Nat \ {0} /\ MaxRetry \in Nat \ {0} /\ MaxFrames \in Nat \ {0}
  /\ Platforms \subseteq {"win32", "x11"}

VARIABLES
  platform,
  phase,        \* what JavaScript waits for
  test,         \* index, from 1
  retry,        \* retry of the playground
  count,        \* renderCount
  shown,        \* what the last frame showed: its test and renderCount after it
  verdict,      \* history: what done was told of each test
  callbacks,    \* m_screenshotCallbacks: the tests they belong to
  requested,    \* bgfx: screenshots to take at the end of the frame
  images,       \* screenshots dispatched to JavaScript
  exiting,      \* the code of TestUtils.exit, once doExit is set
  doExit, errorCode,
  posted,       \* the message or event of exit is on its way to the host
  host,         \* "running", "stopping", or the exit code of the process
  closed        \* the user closed the window

shots  == <<callbacks, requested, images>>
runner == <<phase, test, retry, count, verdict>>
exit   == <<doExit, errorCode, posted>>
vars == <<platform, runner, shown, shots, exiting, exit, host, closed>>

Codes == {"0", "-1"}
None == "none"

\* What done may be told of a test; "retracted" is a failure that was reported, and
\* then a success of the same test.
Outcomes == {"validated", "skipped", "failed"}
Verdicts == Outcomes \cup {None, "retracted"}

Phases == {"config", "image", "playground", "timer", "promise", "ready", "frame", "shot",
           "over", "stuck"}
----------------------------------------------------------------------------
Init == /\ platform \in Platforms
        /\ phase = "config" /\ test = 1 /\ retry = 0 /\ count = 0
        /\ shown = <<0, 0>>
        /\ verdict = [t \in 1 .. Tests |-> None]
        /\ callbacks = << >> /\ requested = 0 /\ images = <<>>
        /\ exiting = None /\ doExit = FALSE /\ errorCode = "0" /\ posted = FALSE
        /\ host = "running" /\ closed = FALSE

\* JavaScript begins nothing in the middle of exit, or once the host stops it.
Running == host = "running" /\ exiting = None

Tell(outcome) ==
  verdict' = [verdict EXCEPT ![test] = IF @ = "failed" /\ outcome # "failed" THEN "retracted"
                                                                           ELSE outcome]

\* Mutant of Done: nothing returns after exit(-1).
DoneFallsThrough(outcome, otherwise) ==
  /\ Tell(outcome)
  /\ exiting' = IF outcome = "failed" THEN "-1" ELSE IF test = Tests THEN "0" ELSE None
  /\ \/ /\ test = Tests
        /\ phase' = "over"
        /\ UNCHANGED <<test, retry>>
     \/ /\ test # Tests
        /\ test' = test + 1 /\ retry' = 0 /\ phase' = "image"

\* The callback of runTest: the first failure exits, and so does the last test;
\* otherwise is where JavaScript goes on after a failure.
Done(outcome, otherwise) ==
  /\ Tell(outcome)
  /\ \/ /\ outcome = "failed"
        /\ exiting' = "-1" /\ phase' = otherwise
        /\ UNCHANGED <<test, retry>>
     \/ /\ outcome # "failed" /\ test = Tests
        /\ exiting' = "0" /\ phase' = "over"
        /\ UNCHANGED <<test, retry>>
     \/ /\ outcome # "failed" /\ test # Tests
        /\ test' = test + 1 /\ retry' = 0 /\ phase' = "image"
        /\ UNCHANGED exiting

\* config.json has come, and the first test begins.
Configure ==
  /\ Running /\ phase = "config"
  /\ phase' = "image"
  /\ UNCHANGED <<platform, test, retry, count, verdict, shown, shots, exiting, exit, host, closed>>

\* onload: the reference image is decoded, and the playground is asked for.
ImageLoaded ==
  /\ Running /\ phase = "image"
  /\ phase' = "playground"
  /\ UNCHANGED <<platform, test, retry, count, verdict, shown, shots, exiting, exit, host, closed>>

\* Mutant of OnError: one attempt too many.
OnErrorLate ==
  \/ /\ retry < MaxRetry
     /\ retry' = retry + 1 /\ phase' = "timer"
     /\ UNCHANGED <<test, verdict, exiting>>
  \/ /\ retry >= MaxRetry
     /\ Done("skipped", "over")

\* Mutant of OnError: a playground that cannot be had is not skipped.
OnErrorSilent ==
  /\ retry' = retry + 1
  /\ phase' = IF retry + 1 < MaxRetry THEN "timer" ELSE "over"
  /\ UNCHANGED <<test, verdict, exiting>>

\* Try again after a while, or skip the test.
OnError ==
  \/ /\ retry + 1 < MaxRetry
     /\ retry' = retry + 1 /\ phase' = "timer"
     /\ UNCHANGED <<test, verdict, exiting>>
  \/ /\ retry + 1 >= MaxRetry
     /\ Done("skipped", "over")

\* The playground is there: createScene returns a scene or the promise of one.
SceneCreated ==
  /\ Running /\ phase \in {"playground", "promise"}
  /\ \/ phase' = "ready"
     \/ phase = "playground" /\ phase' = "promise"
  /\ count' \in 1 .. MaxFrames
  /\ UNCHANGED <<platform, test, retry, verdict, shown, shots, exiting, exit, host, closed>>

\* No such playground, or its code throws, or the promise is rejected.
PlaygroundFailed ==
  /\ Running /\ phase \in {"playground", "promise"}
  /\ OnError
  /\ UNCHANGED <<platform, count, shown, shots, exit, host, closed>>

TimerFires ==
  /\ Running /\ phase = "timer"
  /\ phase' = "playground"
  /\ UNCHANGED <<platform, test, retry, count, verdict, shown, shots, exiting, exit, host, closed>>

\* executeWhenReady: the render loop is started.
SceneReady ==
  /\ Running /\ phase = "ready"
  /\ phase' = "frame"
  /\ UNCHANGED <<platform, test, retry, count, verdict, shown, shots, exiting, exit, host, closed>>

\* GetFramebufferData: the callback is queued before bgfx is asked.
Evaluate == /\ callbacks' = Append(callbacks, test)
            /\ requested' = requested + 1
            /\ UNCHANGED images

\* Mutant of Frame: the screenshot is asked for one frame early.
FrameEarly ==
  /\ Running /\ phase = "frame" /\ count > 0
  /\ count' = count - 1
  /\ shown' = <<test, count - 1>>
  /\ IF count' <= 1 THEN Evaluate /\ phase' = "shot" ELSE UNCHANGED <<shots, phase>>
  /\ UNCHANGED <<platform, test, retry, verdict, exiting, exit, host, closed>>

\* A frame of the render loop; the last one stops the loop.
Frame ==
  /\ Running /\ phase = "frame"
  /\ count' = count - 1
  /\ shown' = <<test, count - 1>>
  /\ IF count = 1 THEN Evaluate /\ phase' = "shot" ELSE UNCHANGED <<shots, phase>>
  /\ UNCHANGED <<platform, test, retry, verdict, exiting, exit, host, closed>>

\* A frame throws: the test has failed, but the render loop goes on.
FrameThrows ==
  /\ Running /\ phase = "frame"
  /\ shown' = <<test, count>>
  /\ Done("failed", "frame")
  /\ UNCHANGED <<platform, count, shots, exit, host, closed>>

\* Mutant of ScreenShot: the callback leaves the queue here.
ScreenShotPops ==
  /\ host = "running" /\ requested > 0
  /\ requested' = requested - 1
  /\ images' = Append(images, shown)
  /\ callbacks' = Tail(callbacks)
  /\ UNCHANGED <<platform, runner, shown, exiting, exit, host, closed>>

\* The frame ends: bgfx takes the screenshot, which is dispatched to JavaScript.
ScreenShot ==
  /\ host = "running" /\ requested > 0
  /\ requested' = requested - 1
  /\ images' = Append(images, shown)
  /\ UNCHANGED <<callbacks, platform, runner, shown, exiting, exit, host, closed>>

\* The callback compares the image, disposes of the scene, and is popped.
Compare ==
  /\ Running /\ images # << >>
  /\ \E outcome \in {"validated", "failed"} : Done(outcome, "over")
  /\ callbacks' = Tail(callbacks) /\ images' = Tail(images)
  /\ UNCHANGED <<platform, count, shown, requested, exit, host, closed>>

\* No answer, a scene that is never ready, or a callback that throws.
Stick ==
  /\ Running /\ phase \in {"config", "image", "playground", "promise", "ready", "shot"}
  /\ phase = "shot" => images # << >>
  /\ phase' = "stuck"
  /\ images' = IF phase = "shot" THEN Tail(images) ELSE images
  /\ UNCHANGED <<platform, test, retry, count, verdict, shown, callbacks, requested, exiting,
                 exit, host, closed>>

\* TestUtils.exit, in two steps: doExit first.
ExitFlag ==
  /\ host \in {"running", "stopping"} /\ exiting # None /\ ~doExit
  /\ doExit' = TRUE
  /\ UNCHANGED <<platform, runner, shown, shots, exiting, errorCode, posted, host, closed>>

ExitCode ==
  /\ host \in {"running", "stopping"} /\ exiting # None /\ doExit
  /\ errorCode' = exiting /\ posted' = TRUE /\ exiting' = None
  /\ UNCHANGED <<platform, runner, shown, shots, doExit, host, closed>>

\* WM_DESTROY, of the message of exit or of the user: the runtime is destroyed,
\* which waits for what JavaScript is doing.
HostStops ==
  /\ platform = "win32" /\ host = "running"
  /\ posted \/ closed
  /\ host' = "stopping"
  /\ UNCHANGED <<platform, runner, shown, shots, exiting, exit, closed>>

HostStopped ==
  /\ host = "stopping" /\ exiting = None
  /\ host' = errorCode
  /\ UNCHANGED <<platform, runner, shown, shots, exiting, exit, closed>>

\* The loop of X11 ends at the first event after doExit, whatever the event.
HostReturns ==
  /\ platform = "x11" /\ host = "running"
  /\ doExit \/ closed
  /\ host' = errorCode
  /\ UNCHANGED <<platform, runner, shown, shots, exiting, exit, closed>>

\* The user closes the window.
Close ==
  /\ host = "running" /\ ~closed
  /\ closed' = TRUE
  /\ UNCHANGED <<platform, runner, shown, shots, exiting, exit, host>>

JavaScript == \/ Configure \/ ImageLoaded \/ SceneCreated \/ PlaygroundFailed \/ TimerFires
              \/ SceneReady \/ Frame \/ FrameThrows \/ Compare \/ ExitFlag \/ ExitCode

Host == HostStops \/ HostStopped \/ HostReturns

Next == JavaScript \/ ScreenShot \/ Stick \/ Host \/ Close

Spec == Init /\ [][Next]_vars

\* Frames end, tasks and timers run, and the host gets what is posted to it.
FairSpec == /\ Spec
            /\ WF_vars(JavaScript) /\ WF_vars(ScreenShot)
            /\ WF_vars((posted \/ closed) /\ Host)
----------------------------------------------------------------------------
TypeOK ==
  /\ platform \in Platforms
  /\ phase \in Phases
  /\ test \in 1 .. Tests
  /\ retry \in 0 .. MaxRetry - 1
  /\ count \in 0 .. MaxFrames
  /\ shown \in (0 .. Tests) \X (0 .. MaxFrames)
  /\ verdict \in [1 .. Tests -> Verdicts]
  /\ callbacks \in Seq(1 .. Tests)
  /\ requested \in Nat
  /\ images \in Seq((0 .. Tests) \X (0 .. MaxFrames))
  /\ exiting \in Codes \cup {None} /\ errorCode \in Codes 
  /\ host \in Codes \cup {"running", "stopping"}
  /\ doExit \in BOOLEAN /\ posted \in BOOLEAN /\ closed \in BOOLEAN

(* The assertion of screenShot (BgfxCallback.cpp:90), and what the lambda it *)
(* dispatches relies on: every screenshot that is asked for or on its way to *)
(* JavaScript finds its callback in the queue.                               *)
CallbackQueued == requested + Len(images) <= Len(callbacks)

(* The image a callback gets is the last frame of its own test, even if      *)
(* earlier frames failed and even if the process is about to exit.           *)
ShotOfItsTest == \A i \in 1 .. Len(images) : images[i] = <<callbacks[i], 0>>

(* "0 for success, any other value for failure" (ContinuousIntegration.md:   *)
(* 42).  The process does not keep that promise; what it keeps is that, when *)
(* it returns 0, the runner has reached the end of the list and no test was  *)
(* left behind as failed, with three exceptions: a failure was retracted,    *)
(* because a frame threw, exit(-1) was called, and the loop went on to a     *)
(* frame of the same test that was validated, after which the exit(0) of the *)
(* last test overwrites the -1 unless the host has stopped before            *)
(* (validation_native.js:79-92, 316-329, TestUtils.h:70-89); the user closed *)
(* the window; or the host of X11 woke up between the two stores of          *)
(* TestUtils.exit.                                                           *)
ExitTells ==
  host = "0" => \/ \A t \in 1 .. Tests : verdict[t] \in {"validated", "skipped", "retracted"}
                \/ closed
                \/ platform = "x11" /\ exiting # None

(* The runner ends by itself, through failed playgrounds, retries and frames *)
(* that throw, unless it gets stuck where nothing handles the failure.       *)
RunnerEnds == <>(host \in Codes \/ phase = "stuck")
=============================================================================
