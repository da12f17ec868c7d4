------------------------------- MODULE Input -------------------------------
(***************************************************************************)
(* Babylon::Plugins::NativeInput (Plugins/NativeInput/Source): the host    *)
(* reports pointers from its own thread; the reports are handled one after *)
(* the other on the JavaScript thread, where every DeviceInputSystem is    *)
(* told what has changed.                                                  *)
(*                                                                         *)
(* A handler is a sequence of steps.  A step that tells the systems calls  *)
(* into JavaScript once for each of them, and JavaScript may poll inputs,  *)
(* dispose of a system or throw in between; it creates systems only while  *)
(* no handler runs.  Every system sets its three callbacks when it is      *)
(* created and keeps a list of the devices it knows, as the client does    *)
(* (DeviceSourceManager): a change of an unknown device is dropped, and the *)
(* end of a device throws while the client has no list of devices yet.      *)
(***************************************************************************)
EXTENDS Naturals, Sequences

CONSTANTS Pointers,         \* pointer ids
          Buttons,          \* button indices
          Points,           \* positions <<x, y>>
          Systems,          \* instances of DeviceInputSystem
          MaxCalls,         \* bound on the calls of the host that wait
          Absent,           \* no such device
          Older,            \* a device older than the system
          None              \* no call, no event

ASSUME InputAssumption == /\ Buttons \subseteq Nat
                          /\ Points \subseteq Nat \X Nat
                          /\ MaxCalls \in Nat \ {0}
                          /\ Absent # Older
                          /\ \A bs \in SUBSET Buttons : Absent # bs /\ Older # bs

VARIABLES
  inputs,       \* m_inputs: the values of the inputs of each device, or Absent
  calls,        \* calls of the host on their way to the JavaScript thread
  running,      \* the call whose handler runs
  todo,         \* what is left of the handler
  event,        \* the event the systems are being told
  untold,       \* the systems still to be told
  stage,        \* stage[s]: "none", "live" or "disposed"
  seen,         \* seen[s][p]: the buttons s believes to be down on p
  listed,       \* the systems whose client has a list, having been told of a device
  broken,       \* a callback has thrown: the work queue skips all later calls
  host          \* history: the buttons the host has down on each pointer

vars == <<inputs, calls, running, todo, event, untold, stage, seen, listed, broken, host>>

PointerX == 0
PointerY == 1
PointerButton(b) == 2 + b

Calls == [kind : {"down", "up"}, pointer : Pointers, button : Buttons, at : Points]
           \cup [kind : {"move"}, pointer : Pointers, at : Points]

Size(i)          == [op |-> "size", input |-> i]
Set(i, v)        == [op |-> "set", input |-> i, value |-> v, loud |-> TRUE]
SetSilent(i, v)  == [op |-> "set", input |-> i, value |-> v, loud |-> FALSE]
Connect == [op |-> "connect"]
Release == [op |-> "release"]

\* Mutant of DownSteps: the position is recorded after the button.
DownStepsPositionLast(c) ==
  <<Connect, Size(PointerButton(c.button)), Set(PointerButton(c.button), 1),
    SetSilent(PointerX, c.at[1]), SetSilent(PointerY, c.at[2])>>

\* PointerDown: the position first, silently, then the button.
DownSteps(c) ==
  <<Connect, Size(PointerButton(c.button)),
    SetSilent(PointerX, c.at[1]), SetSilent(PointerY, c.at[2]),
    Set(PointerButton(c.button), 1)>>

\* PointerUp: the position, the button, and the device if no button is down.
UpSteps(c) ==
  <<Connect, Size(PointerButton(c.button)),
    Set(PointerX, c.at[1]), Set(PointerY, c.at[2]),
    Set(PointerButton(c.button), 0), Release>>

\* PointerMove: the position.
MoveSteps(c) == <<Connect, Size(PointerY), Set(PointerX, c.at[1]), Set(PointerY, c.at[2])>>

\* What the systems are told.
Events == [kind : {"connected", "disconnected"}]
            \cup [kind : {"changed"}, input : Nat, previous : Nat, current : Nat]

\* What a device has inputs for: nothing yet, its position, and up to some button.
Domains == {{}, 0 .. PointerY} \cup {0 .. PointerButton(b) : b \in Buttons}

ASSUME NothingAssumption == /\ None \notin Calls \cup Events
                            /\ \A D \in Domains : Absent \notin [D -> Nat]

Live == {s \in Systems : stage[s] = "live"}

\* The buttons that are down on a device.
Pressed(d) == {b \in Buttons : PointerButton(b) \in DOMAIN d /\ d[PointerButton(b)] > 0}
----------------------------------------------------------------------------
Init == /\ inputs = [p \in Pointers |-> Absent]
        /\ calls = <<>> /\ running = None /\ todo = <<>>
        /\ event = None /\ untold = {}
        /\ stage = [s \in Systems |-> "none"]
        /\ seen = [s \in Systems |-> [p \in Pointers |-> Absent]]
        /\ listed = {} /\ broken = FALSE
        /\ host = [p \in Pointers |-> Absent]

\* The host calls, and the call is dispatched to the JavaScript thread.
Post(c) ==
  /\ Len(calls) < MaxCalls
  /\ calls' = Append(calls, c)
  /\ UNCHANGED <<inputs, running, todo, event, untold, stage, seen, listed, broken>>

HostButtons(p) == IF host[p] = Absent THEN {} ELSE host[p]

PointerDown(p, b, at) ==
  /\ Post([kind |-> "down", pointer |-> p, button |-> b, at |-> at])
  /\ host' = [host EXCEPT ![p] = HostButtons(p) \cup {b}]

PointerUp(p, b, at) ==
  /\ Post([kind |-> "up", pointer |-> p, button |-> b, at |-> at])
  /\ host' = [host EXCEPT ![p] = IF HostButtons(p) \subseteq {b} THEN Absent
                                                                  ELSE @ \ {b}]

PointerMove(p, at) ==
  /\ Post([kind |-> "move", pointer |-> p, at |-> at])
  /\ host' = [host EXCEPT ![p] = HostButtons(p)]
----------------------------------------------------------------------------
\* The JavaScript thread takes the next call.
Begin ==
  /\ running = None /\ calls # <<>> /\ ~broken
  /\ running' = Head(calls)
  /\ calls' = Tail(calls)
  /\ LET c == Head(calls)
     IN \/ c.kind = "down" /\ todo' = DownSteps(c)
        \/ c.kind = "up"   /\ todo' = UpSteps(c)
        \/ c.kind = "move" /\ todo' = MoveSteps(c)
  /\ UNCHANGED <<inputs, event, untold, stage, seen, listed, broken, host>>

\* The work queue skips a call, since a callable before it threw.
Skip ==
  /\ calls # <<>> /\ broken
  /\ calls' = Tail(calls)
  /\ UNCHANGED <<inputs, running, todo, event, untold, stage, seen, listed, broken, host>>

\* The handler returns.
Return ==
  /\ running # None /\ todo = <<>> /\ event = None
  /\ running' = None
  /\ UNCHANGED <<inputs, calls, todo, event, untold, stage, seen, listed, broken, host>>

\* The next step of the handler, once every system has been told.
Step(op) == /\ todo # <<>> /\ event = None
            /\ Head(todo).op = op
            /\ todo' = Tail(todo)
            /\ UNCHANGED <<calls, running, stage, seen, listed, broken, host>>

\* apply_to_all: begin to tell every system.
Raise(e) == /\ untold' = Live
            /\ event' = IF Live = {} THEN None ELSE e

Silent == UNCHANGED <<event, untold>>

Device == inputs[running.pointer]

\* GetOrCreateInputMap: a new device has no inputs while systems are told of it.
GetOrCreate ==
  /\ Step("connect")
  /\ IF Device = Absent
       THEN /\ inputs' = [inputs EXCEPT ![running.pointer] = [i \in {} |-> 0]]
            /\ Raise([kind |-> "connected"])
       ELSE Silent /\ UNCHANGED inputs

\* Mutant of Sized: one input too few.
SizedShort(d, i) == [j \in DOMAIN d \cup 0 .. i - 1 |-> IF j \in DOMAIN d THEN d[j] ELSE 0]

\* Mutant of Sized: a device can lose inputs.
SizedExactly(d, i) == [j \in 0 .. i |-> IF j \in DOMAIN d THEN d[j] ELSE 0]

\* resize: inputs up to number i, the new ones zero.
Sized(d, i) == [j \in DOMAIN d \cup 0 .. i |-> IF j \in DOMAIN d THEN d[j] ELSE 0]

\* GetOrCreateInputMap, its last part.
Resize ==
  /\ Step("size")
  /\ inputs' = [inputs EXCEPT ![running.pointer] = Sized(@, Head(todo).input)]
  /\ Silent

\* SetInputState: the systems are told of a change unless the step is silent.
SetInput ==
  /\ Step("set")
  /\ LET s == Head(todo)
         previous == Device[s.input]
     IN IF previous = s.value
          THEN Silent /\ UNCHANGED inputs
          ELSE /\ inputs' = [inputs EXCEPT ![running.pointer][s.input] = s.value]
               /\ IF s.loud
                    THEN Raise([kind |-> "changed", input |-> s.input,
                                previous |-> previous, current |-> s.value])
                    ELSE Silent

\* Mutant of ReleaseDevice: the device goes with the button, whatever else is down.
ReleaseDeviceAlways ==
  /\ Step("release")
  /\ inputs' = [inputs EXCEPT ![running.pointer] = Absent]
  /\ Raise([kind |-> "disconnected"])

\* Mutant of ReleaseDevice: nobody is told that the device is gone.
ReleaseDeviceUntold ==
  /\ Step("release")
  /\ inputs' = IF Pressed(Device) = {} THEN [inputs EXCEPT ![running.pointer] = Absent]
                                      ELSE inputs
  /\ Silent

\* The end of PointerUp and RemoveInputMap: no button is down, so the device goes.
ReleaseDevice ==
  /\ Step("release")
  /\ IF \E i \in DOMAIN Device : i \notin {PointerX, PointerY} /\ Device[i] > 0
       THEN Silent /\ UNCHANGED inputs
       ELSE /\ inputs' = [inputs EXCEPT ![running.pointer] = Absent]
            /\ Raise([kind |-> "disconnected"])

Handler == Begin \/ Return \/ GetOrCreate \/ Resize \/ SetInput \/ ReleaseDevice
----------------------------------------------------------------------------
\* What a system believes of the pointer once it has been told the event.
Believes(s) ==
  LET now == seen[s][running.pointer]
      b == event.input - 2
  IN IF event.kind = "connected" THEN {}
     ELSE IF event.kind = "disconnected" THEN Absent
     ELSE IF now \in {Absent, Older} \/ event.input \in {PointerX, PointerY} THEN now
     ELSE IF event.current > 0 THEN now \cup {b} ELSE now \ {b}

\* _removeDevice: the client deletes from a list that it may not have yet.
CannotRemove(s) == event.kind = "disconnected" /\ s \notin listed

Told(s) ==
  /\ untold' = untold \ {s}
  /\ event' = IF untold' = {} THEN None ELSE event
  /\ UNCHANGED <<inputs, calls, running, todo, stage, broken, host>>

\* Mutant of Tell: Dispose does not reset the callbacks.
TellDisposed(s) ==
  /\ s \in untold
  /\ ~CannotRemove(s)
  /\ seen' = [seen EXCEPT ![s][running.pointer] = Believes(s)]
  /\ listed' = IF event.kind = "connected" THEN listed \cup {s} ELSE listed
  /\ Told(s)

\* One system is told: it has no callbacks any more once it has been disposed of.
Tell(s) ==
  /\ s \in untold
  /\ IF stage[s] = "live"
       THEN /\ ~CannotRemove(s)
            /\ seen' = [seen EXCEPT ![s][running.pointer] = Believes(s)]
            /\ listed' = IF event.kind = "connected" THEN listed \cup {s} ELSE listed
       ELSE UNCHANGED <<seen, listed>>
  /\ Told(s)

\* The callback of s throws, through the handler: the work queue skips the rest.
TellThrows(s) ==
  /\ s \in untold /\ stage[s] = "live"
  /\ broken' = TRUE
  /\ running' = None /\ todo' = <<>>
  /\ event' = None /\ untold' = {}
  /\ UNCHANGED <<inputs, calls, stage, seen, listed, host>>

\* JavaScript creates a system; it is not told of the devices there are.
Create(s) ==
  /\ running = None /\ ~broken
  /\ stage[s] = "none"
  /\ stage' = [stage EXCEPT ![s] = "live"]
  /\ seen' = [seen EXCEPT ![s] =
                [p \in Pointers |-> IF inputs[p] = Absent THEN Absent ELSE Older]]
  /\ UNCHANGED <<inputs, calls, running, todo, event, untold, listed, broken, host>>

\* JavaScript disposes of a system, from a callback or between handlers.
Dispose(s) ==
  /\ running = None \/ event # None
  /\ stage[s] = "live"
  /\ stage' = [stage EXCEPT ![s] = "disposed"]
  /\ seen' = [seen EXCEPT ![s] = [p \in Pointers |-> Absent]]
  /\ listed' = listed \ {s}
  /\ UNCHANGED <<inputs, calls, running, todo, event, untold, broken, host>>

JavaScript == \E s \in Systems : Tell(s) \/ TellThrows(s) \/ Create(s) \/ Dispose(s)

Host == \E p \in Pointers, at \in Points :
          \/ PointerMove(p, at)
          \/ \E b \in Buttons : PointerDown(p, b, at) \/ PointerUp(p, b, at)

Next == Host \/ Handler \/ Skip \/ JavaScript

Spec == Init /\ [][Next]_vars
----------------------------------------------------------------------------
Views == (SUBSET Buttons) \cup {Absent, Older}

\* A system that has not been created or is disposed of has been told nothing.
OnlyLiveKnow == /\ listed \subseteq Live
                /\ \A s \in Systems \ Live, p \in Pointers : seen[s][p] = Absent

TypeOK ==
  /\ DOMAIN inputs = Pointers
  /\ \A p \in Pointers : inputs[p] = Absent \/ \E D \in Domains : inputs[p] \in [D -> Nat]
  /\ calls \in Seq(Calls)
  /\ running \in Calls \cup {None}
  /\ event \in Events \cup {None}
  /\ untold \in SUBSET Systems
  /\ (untold = {}) = (event = None)
  /\ stage \in [Systems -> {"none", "live", "disposed"}]
  /\ seen \in [Systems -> [Pointers -> Views]]
  /\ OnlyLiveKnow
  /\ broken \in BOOLEAN
  /\ host \in [Pointers -> (SUBSET Buttons) \cup {Absent}]

(* SetInputState reads and writes deviceInputs[inputIndex] without a check   *)
(* (NativeInput.cpp:176): the reference is alive and the index in range,     *)
(* whatever the callbacks before it have done.                               *)
InputsInRange ==
  todo # <<>> /\ Head(todo).op = "set" => Device # Absent /\ Head(todo).input \in DOMAIN Device

(* What a system is told makes sense with what it was told before: a device  *)
(* is connected once, its buttons change from the state the system has seen, *)
(* and it is disconnected with every button up (NativeInput.cpp:87-96).      *)
EventsMakeSense ==
  \A s \in untold \cap Live :
    LET now == seen[s][running.pointer]
    IN /\ event.kind = "connected"    => now = Absent
       /\ event.kind = "disconnected" => now \in {{}, Older}
       /\ event.kind = "changed" =>
            \/ now = Older
            \/ /\ now # Absent
               /\ event.input \notin {PointerX, PointerY} =>
                    (event.previous > 0) = (event.input - 2 \in now)

(* "We need to record the x/y so they can be queried in a pointer down       *)
(* handler" (NativeInput.cpp:69): when systems are told that a button has    *)
(* changed, both coordinates are those of that very call.                    *)
DownPosition ==
  event # None /\ event.kind = "changed" /\ event.input \notin {PointerX, PointerY} =>
    <<Device[PointerX], Device[PointerY]>> = running.at

(* pollInput does not throw for the position of a device a system knows,     *)
(* between handlers and in every input change callback.  It does in the      *)
(* connected callback, when the device has no inputs yet, and for systems    *)
(* told late that a device is gone.                                          *)
Pollable ==
  ~broken /\ (running = None \/ (event # None /\ event.kind = "changed")) =>
    \A s \in Live, p \in Pointers :
      seen[s][p] # Absent => inputs[p] # Absent /\ {PointerX, PointerY} \subseteq DOMAIN inputs[p]

(* Once every call has been handled, the devices, their buttons and what     *)
(* every live system believes of them are what the host has reported, in the *)
(* order of its calls; a system misses only the devices older than itself.   *)
HostAgrees ==
  running = None /\ calls = <<>> /\ ~broken =>
    \A p \in Pointers :
      /\ host[p] = IF inputs[p] = Absent THEN Absent ELSE Pressed(inputs[p])
      /\ \A s \in Live : seen[s][p] = host[p] \/ (seen[s][p] = Older /\ host[p] # Absent)
=============================================================================
