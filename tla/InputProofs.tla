---------------------------- MODULE InputProofs ----------------------------
(***************************************************************************)
(* Proofs about Input, for every set of pointers, buttons, positions and   *)
(* systems and any number of calls that wait.  The invariant follows a     *)
(* handler step by step: what is left of it tells how far the device has   *)
(* got and which event the systems may be hearing of; next to it stands    *)
(* what every system believes, before and after it has been told.          *)
(***************************************************************************)
EXTENDS Input, TLAPS

\* What is left of PointerDown after its first n steps.
DownRest(c, n) ==
  LET b == PointerButton(c.button)
  IN IF n = 1 THEN <<Size(b), SetSilent(PointerX, c.at[1]), SetSilent(PointerY, c.at[2]), Set(b, 1)>>
     ELSE IF n = 2 THEN <<SetSilent(PointerX, c.at[1]), SetSilent(PointerY, c.at[2]), Set(b, 1)>>
     ELSE IF n = 3 THEN <<SetSilent(PointerY, c.at[2]), Set(b, 1)>>
     ELSE <<Set(b, 1)>>

UpRest(c, n) ==
  LET b == PointerButton(c.button)
  IN IF n = 1 THEN <<Size(b), Set(PointerX, c.at[1]), Set(PointerY, c.at[2]), Set(b, 0), Release>>
     ELSE IF n = 2 THEN <<Set(PointerX, c.at[1]), Set(PointerY, c.at[2]), Set(b, 0), Release>>
     ELSE IF n = 3 THEN <<Set(PointerY, c.at[2]), Set(b, 0), Release>>
     ELSE IF n = 4 THEN <<Set(b, 0), Release>>
     ELSE <<Release>>

MoveRest(c, n) ==
  IF n = 1 THEN <<Size(PointerY), Set(PointerX, c.at[1]), Set(PointerY, c.at[2])>>
  ELSE IF n = 2 THEN <<Set(PointerX, c.at[1]), Set(PointerY, c.at[2])>>
  ELSE <<Set(PointerY, c.at[2])>>

HasInput(i) == Device # Absent /\ 0 .. i \subseteq DOMAIN Device
X(v) == Device[PointerX] = v
Y(v) == Device[PointerY] = v

\* What the systems may be hearing of, after the step that raised it.
NewDevice == event = None \/ (event.kind = "connected" /\ DOMAIN Device = {})
Changed(i, v) ==
  /\ HasInput(i) /\ Device[i] = v
  /\ \/ event = None
     \/ event.kind = "changed" /\ event.input = i /\ event.current = v
Gone == event = None \/ (event.kind = "disconnected" /\ Device = Absent)

DownInv(c) ==
  LET b == PointerButton(c.button)
  IN \/ todo = DownSteps(c) /\ event = None
     \/ todo = DownRest(c, 1) /\ Device # Absent /\ NewDevice
     \/ todo = DownRest(c, 2) /\ HasInput(b) /\ event = None
     \/ todo = DownRest(c, 3) /\ HasInput(b) /\ event = None /\ X(c.at[1])
     \/ todo = DownRest(c, 4) /\ HasInput(b) /\ event = None /\ X(c.at[1]) /\ Y(c.at[2])
     \/ todo = <<>> /\ X(c.at[1]) /\ Y(c.at[2]) /\ Changed(b, 1)

UpInv(c) ==
  LET b == PointerButton(c.button)
  IN \/ todo = UpSteps(c) /\ event = None
     \/ todo = UpRest(c, 1) /\ Device # Absent /\ NewDevice
     \/ todo = UpRest(c, 2) /\ HasInput(b) /\ event = None
     \/ todo = UpRest(c, 3) /\ HasInput(b) /\ Changed(PointerX, c.at[1])
     \/ todo = UpRest(c, 4) /\ HasInput(b) /\ X(c.at[1]) /\ Changed(PointerY, c.at[2])
     \/ todo = UpRest(c, 5) /\ X(c.at[1]) /\ Y(c.at[2]) /\ Changed(b, 0)
     \/ todo = <<>> /\ Gone

MoveInv(c) ==
  \/ todo = MoveSteps(c) /\ event = None
  \/ todo = MoveRest(c, 1) /\ Device # Absent /\ NewDevice
  \/ todo = MoveRest(c, 2) /\ HasInput(PointerY) /\ event = None
  \/ todo = MoveRest(c, 3) /\ HasInput(PointerY) /\ Changed(PointerX, c.at[1])
  \/ todo = <<>> /\ Changed(PointerY, c.at[2])

\* Where the handler is.
Underway == /\ running # None /\ ~broken
            /\ \/ running.kind = "down" /\ DownInv(running)
               \/ running.kind = "up"   /\ UpInv(running)
               \/ running.kind = "move" /\ MoveInv(running)

HandlerInv == \/ running = None /\ todo = <<>> /\ event = None
              \/ Underway

\* A device has a position, unless its first handler has not sized it yet.
Unsized(p) == /\ running # None /\ p = running.pointer
              /\ todo # <<>> /\ Head(todo).op = "size"

PositionInv ==
  ~broken => \A p \in Pointers :
    inputs[p] = Absent \/ Unsized(p) \/ {PointerX, PointerY} \subseteq DOMAIN inputs[p]

\* A system that has been told all there is agrees with the device.
View(p) == IF inputs[p] = Absent THEN Absent ELSE Pressed(inputs[p])
Agree(s, p) == seen[s][p] = View(p) \/ (seen[s][p] = Older /\ inputs[p] # Absent)

\* One that has not is as it was before the event.
Before(s, p) ==
  /\ event.kind = "connected" => seen[s][p] = Absent /\ View(p) = {}
  /\ event.kind = "disconnected" => seen[s][p] \in {{}, Older}
  /\ event.kind = "changed" /\ event.input \in {PointerX, PointerY} => Agree(s, p)
  /\ event.kind = "changed" /\ event.input \notin {PointerX, PointerY} =>
       \/ seen[s][p] = Older /\ inputs[p] # Absent
       \/ /\ inputs[p] # Absent
          /\ seen[s][p] \in SUBSET Buttons
          /\ seen[s][p] \ {event.input - 2} = Pressed(inputs[p]) \ {event.input - 2}
          /\ event.previous > 0 <=> event.input - 2 \in seen[s][p]

SeenInv ==
  ~broken =>
    /\ \A s \in Live \ untold, p \in Pointers : Agree(s, p)
    /\ \A s \in Live \cap untold, p \in Pointers :
         IF p = running.pointer THEN Before(s, p) ELSE Agree(s, p)

IInv == TypeOK /\ HandlerInv /\ PositionInv /\ SeenInv
----------------------------------------------------------------------------
(* Facts about the data.                                                   *)

\* The first element and the rest of a short sequence.
LEMMA Tuples ==
  ASSUME NEW a, NEW b, NEW c, NEW d, NEW e, NEW f
  PROVE  /\ Head(<<a>>) = a /\ Tail(<<a>>) = << >>
         /\ Head(<<a, b>>) = a /\ Tail(<<a, b>>) = <<b>>
         /\ Head(<<a, b, c>>) = a /\ Tail(<<a, b, c>>) = <<b, c>>
         /\ Head(<<a, b, c, d>>) = a /\ Tail(<<a, b, c, d>>) = <<b, c, d>>
         /\ Head(<<a, b, c, d, e>>) = a /\ Tail(<<a, b, c, d, e>>) = <<b, c, d, e>>
         /\ Head(<<a, b, c, d, e, f>>) = a /\ Tail(<<a, b, c, d, e, f>>) = <<b, c, d, e, f>>
OBVIOUS

\* The input of a button is none of the position.
LEMMA ButtonFacts ==
  ASSUME NEW b \in Buttons
  PROVE  /\ PointerButton(b) \in Nat /\ PointerButton(b) > 1 /\ PointerButton(b) - 2 = b
         /\ PointerButton(b) \notin {PointerX, PointerY}
<1>1. b \in Nat
  BY InputAssumption
<1> QED BY <1>1 DEF PointerButton, PointerX, PointerY

\* The parts of a call.
LEMMA CallFacts ==
  ASSUME NEW c \in Calls
  PROVE  /\ c # None
         /\ c.kind \in {"down", "up", "move"} /\ c.pointer \in Pointers
         /\ c.at[1] \in Nat /\ c.at[2] \in Nat
         /\ c.kind # "move" => c.button \in Buttons /\ PointerButton(c.button) \in Nat
                                 /\ PointerButton(c.button) > 1
<1>1. /\ c.kind \in {"down", "up", "move"} /\ c.pointer \in Pointers /\ c.at \in Points
      /\ c.kind # "move" => c.button \in Buttons
  BY DEF Calls
<1>2. c.at[1] \in Nat /\ c.at[2] \in Nat
  BY <1>1, InputAssumption
<1>3. c # None
  BY NothingAssumption
<1>4. c.button \in Buttons => PointerButton(c.button) \in Nat /\ PointerButton(c.button) > 1
  BY ButtonFacts
<1> QED BY <1>1, <1>2, <1>3, <1>4

\* The shapes of a device.
LEMMA DomainFacts ==
  ASSUME NEW D \in Domains
  PROVE  D \subseteq Nat /\ (D = {} \/ {PointerX, PointerY} \subseteq D)
BY InputAssumption DEF Domains, PointerX, PointerY, PointerButton

Typed(d) == d = Absent \/ \E D \in Domains : d \in [D -> Nat]

\* A device that is given inputs has at least those, and the same buttons down.
LEMMA SizedFacts ==
  ASSUME NEW d, Typed(d), d # Absent, NEW i \in Nat,
         i = PointerY \/ \E b \in Buttons : i = PointerButton(b)
  PROVE  /\ Typed(Sized(d, i)) /\ Sized(d, i) # Absent
         /\ 0 .. i \subseteq DOMAIN Sized(d, i) /\ {PointerX, PointerY} \subseteq DOMAIN Sized(d, i)
         /\ Pressed(Sized(d, i)) = Pressed(d)
<1>1. PICK D \in Domains : d \in [D -> Nat]
  BY DEF Typed
<1>2. DOMAIN d = D /\ D \subseteq Nat
  BY <1>1, DomainFacts
<1>3. D \cup 0 .. i \in Domains
  <2>1. 0 .. i \in Domains
    <3>1. CASE i = PointerY
      BY <3>1 DEF Domains
    <3>2. ASSUME NEW b \in Buttons, i = PointerButton(b)
          PROVE  0 .. i \in Domains
      BY <3>2 DEF Domains
    <3> QED BY <3>1, <3>2
  <2>2. CASE D = {}
    BY <2>1, <2>2
  <2>3. CASE D # {}
    <3>1. PICK n \in Nat : D = 0 .. n
      <4>1. CASE D = 0 .. PointerY
        BY <4>1 DEF PointerY
      <4>2. ASSUME NEW b \in Buttons, D = 0 .. PointerButton(b)
            PROVE  \E n \in Nat : D = 0 .. n
        BY <4>2, ButtonFacts
      <4> QED BY <2>3, <4>1, <4>2 DEF Domains
    <3>2. CASE n <= i
      <4>1. D \cup 0 .. i = 0 .. i
        BY <3>1, <3>2
      <4> QED BY <4>1, <2>1
    <3>3. CASE ~(n <= i)
      <4>1. D \cup 0 .. i = D
        BY <3>1, <3>3
      <4> QED BY <4>1
    <3> QED BY <3>2, <3>3
  <2> QED BY <2>2, <2>3
<1>4. Sized(d, i) \in [D \cup 0 .. i -> Nat]
  BY <1>1, <1>2 DEF Sized
<1>5. Typed(Sized(d, i)) /\ Sized(d, i) # Absent
  BY <1>3, <1>4, NothingAssumption DEF Typed
<1>6. 0 .. i \subseteq DOMAIN Sized(d, i) /\ {PointerX, PointerY} \subseteq DOMAIN Sized(d, i)
  <2>1. DOMAIN Sized(d, i) = D \cup 0 .. i
    BY <1>4
  <2>2. i >= 1
    BY InputAssumption DEF PointerY, PointerButton
  <2> QED BY <2>1, <2>2 DEF PointerX, PointerY
<1>7. Pressed(Sized(d, i)) = Pressed(d)
  BY <1>1, <1>2 DEF Sized, Pressed
<1> QED BY <1>5, <1>6, <1>7

\* What becomes of a device when one of its inputs is set.
SetResult(d, i, v) ==
  LET e == [d EXCEPT ![i] = v]
  IN /\ Typed(e) /\ e # Absent
     /\ DOMAIN e = DOMAIN d /\ e[i] = v
     /\ \A j \in DOMAIN d : j # i => e[j] = d[j]
     /\ i \in {PointerX, PointerY} => Pressed(e) = Pressed(d)
     /\ \A b \in Buttons : i = PointerButton(b) =>
          /\ Pressed(e) \ {b} = Pressed(d) \ {b}
          /\ b \in Pressed(d) <=> d[i] > 0

LEMMA SetFacts ==
  ASSUME NEW d, Typed(d), d # Absent, NEW i \in DOMAIN d, NEW v \in Nat
  PROVE  SetResult(d, i, v)
<1>1. PICK D \in Domains : d \in [D -> Nat]
  BY DEF Typed
<1> DEFINE e == [d EXCEPT ![i] = v]
<1>2. e \in [D -> Nat] /\ DOMAIN d = D
  BY <1>1
<1>3. Typed(e) /\ e # Absent
  BY <1>2, NothingAssumption DEF Typed
<1>4. DOMAIN e = DOMAIN d /\ e[i] = v /\ \A j \in DOMAIN d : j # i => e[j] = d[j]
  BY <1>1
<1>5. ASSUME i \in {PointerX, PointerY}
      PROVE  Pressed(e) = Pressed(d)
  <2>1. \A b \in Buttons : PointerButton(b) # i
    BY <1>5, InputAssumption DEF PointerX, PointerY, PointerButton
  <2> QED BY <2>1, <1>4 DEF Pressed
<1>6. ASSUME NEW b \in Buttons, i = PointerButton(b)
      PROVE  /\ Pressed(e) \ {b} = Pressed(d) \ {b}
             /\ b \in Pressed(d) <=> d[i] > 0
  <2>1. \A a \in Buttons : a # b => PointerButton(a) # i
    BY <1>6, InputAssumption DEF PointerButton
  <2>2. Pressed(e) \ {b} = Pressed(d) \ {b}
    BY <2>1, <1>4 DEF Pressed
  <2>3. b \in Pressed(d) <=> d[i] > 0
    BY <1>6, <1>4 DEF Pressed
  <2> QED BY <2>2, <2>3
<1> QED BY <1>3, <1>4, <1>5, <1>6 DEF SetResult
----------------------------------------------------------------------------
(* Where a handler is, from the step it takes.                             *)

\* The first step and the rest of what is left, for each handler.
DownFacts(c) ==
  LET b == PointerButton(c.button)
  IN /\ Head(DownSteps(c)).op = "connect" /\ Tail(DownSteps(c)) = DownRest(c, 1)
     /\ Head(DownRest(c, 1)).op = "size" /\ Head(DownRest(c, 1)).input = b
     /\ Tail(DownRest(c, 1)) = DownRest(c, 2)
     /\ Head(DownRest(c, 2)).op = "set" /\ Head(DownRest(c, 2)) = SetSilent(PointerX, c.at[1])
     /\ Tail(DownRest(c, 2)) = DownRest(c, 3)
     /\ Head(DownRest(c, 3)).op = "set" /\ Head(DownRest(c, 3)) = SetSilent(PointerY, c.at[2])
     /\ Tail(DownRest(c, 3)) = DownRest(c, 4)
     /\ Head(DownRest(c, 4)).op = "set" /\ Head(DownRest(c, 4)) = Set(b, 1)
     /\ Tail(DownRest(c, 4)) = << >>

UpFacts(c) ==
  LET b == PointerButton(c.button)
  IN /\ Head(UpSteps(c)).op = "connect" /\ Tail(UpSteps(c)) = UpRest(c, 1)
     /\ Head(UpRest(c, 1)).op = "size" /\ Head(UpRest(c, 1)).input = b
     /\ Tail(UpRest(c, 1)) = UpRest(c, 2)
     /\ Head(UpRest(c, 2)).op = "set" /\ Head(UpRest(c, 2)) = Set(PointerX, c.at[1])
     /\ Tail(UpRest(c, 2)) = UpRest(c, 3)
     /\ Head(UpRest(c, 3)).op = "set" /\ Head(UpRest(c, 3)) = Set(PointerY, c.at[2])
     /\ Tail(UpRest(c, 3)) = UpRest(c, 4)
     /\ Head(UpRest(c, 4)).op = "set" /\ Head(UpRest(c, 4)) = Set(b, 0)
     /\ Tail(UpRest(c, 4)) = UpRest(c, 5)
     /\ Head(UpRest(c, 5)).op = "release" /\ Tail(UpRest(c, 5)) = << >>

MoveFacts(c) ==
  /\ Head(MoveSteps(c)).op = "connect" /\ Tail(MoveSteps(c)) = MoveRest(c, 1)
  /\ Head(MoveRest(c, 1)).op = "size" /\ Head(MoveRest(c, 1)).input = PointerY
  /\ Tail(MoveRest(c, 1)) = MoveRest(c, 2)
  /\ Head(MoveRest(c, 2)).op = "set" /\ Head(MoveRest(c, 2)) = Set(PointerX, c.at[1])
  /\ Tail(MoveRest(c, 2)) = MoveRest(c, 3)
  /\ Head(MoveRest(c, 3)).op = "set" /\ Head(MoveRest(c, 3)) = Set(PointerY, c.at[2])
  /\ Tail(MoveRest(c, 3)) = << >>

LEMMA Rests == ASSUME NEW c PROVE DownFacts(c) /\ UpFacts(c) /\ MoveFacts(c)
<1> DEFINE b == PointerButton(c.button)
<1>1. /\ Head(DownSteps(c)) = Connect /\ Tail(DownSteps(c)) = DownRest(c, 1)
      /\ Head(UpSteps(c)) = Connect /\ Tail(UpSteps(c)) = UpRest(c, 1)
      /\ Head(MoveSteps(c)) = Connect /\ Tail(MoveSteps(c)) = MoveRest(c, 1)
  BY Tuples DEF DownSteps, UpSteps, MoveSteps, DownRest, UpRest, MoveRest
<1>2. /\ Head(DownRest(c, 1)) = Size(b) /\ Tail(DownRest(c, 1)) = DownRest(c, 2)
      /\ Head(UpRest(c, 1)) = Size(b) /\ Tail(UpRest(c, 1)) = UpRest(c, 2)
      /\ Head(MoveRest(c, 1)) = Size(PointerY) /\ Tail(MoveRest(c, 1)) = MoveRest(c, 2)
  BY Tuples DEF DownRest, UpRest, MoveRest
<1>3. /\ Head(DownRest(c, 2)) = SetSilent(PointerX, c.at[1])
      /\ Tail(DownRest(c, 2)) = DownRest(c, 3)
      /\ Head(DownRest(c, 3)) = SetSilent(PointerY, c.at[2])
      /\ Tail(DownRest(c, 3)) = DownRest(c, 4)
      /\ Head(DownRest(c, 4)) = Set(b, 1) /\ Tail(DownRest(c, 4)) = << >>
  BY Tuples DEF DownRest
<1>4. /\ Head(UpRest(c, 2)) = Set(PointerX, c.at[1]) /\ Tail(UpRest(c, 2)) = UpRest(c, 3)
      /\ Head(UpRest(c, 3)) = Set(PointerY, c.at[2]) /\ Tail(UpRest(c, 3)) = UpRest(c, 4)
      /\ Head(UpRest(c, 4)) = Set(b, 0) /\ Tail(UpRest(c, 4)) = UpRest(c, 5)
      /\ Head(UpRest(c, 5)) = Release /\ Tail(UpRest(c, 5)) = << >>
  BY Tuples DEF UpRest
<1>5. /\ Head(MoveRest(c, 2)) = Set(PointerX, c.at[1]) /\ Tail(MoveRest(c, 2)) = MoveRest(c, 3)
      /\ Head(MoveRest(c, 3)) = Set(PointerY, c.at[2]) /\ Tail(MoveRest(c, 3)) = << >>
  BY Tuples DEF MoveRest
<1>6. /\ Connect.op = "connect" /\ Release.op = "release"
      /\ Size(b).op = "size" /\ Size(b).input = b
      /\ Size(PointerY).op = "size" /\ Size(PointerY).input = PointerY
      /\ \A i, v : Set(i, v).op = "set" /\ SetSilent(i, v).op = "set"
  BY DEF Connect, Release, Size, Set, SetSilent
<1>7. DownFacts(c)
  BY <1>1, <1>2, <1>3, <1>6 DEF DownFacts
<1>8. UpFacts(c)
  BY <1>1, <1>2, <1>4, <1>6 DEF UpFacts
<1>9. MoveFacts(c)
  BY <1>1, <1>2, <1>5, <1>6 DEF MoveFacts
<1> QED BY <1>7, <1>8, <1>9

LEMMA ConnectFacts ==
  ASSUME HandlerInv, todo # << >>, event = None, Head(todo).op = "connect"
  PROVE  /\ running # None /\ ~broken
         /\ \/ running.kind = "down" /\ Tail(todo) = DownRest(running, 1)
            \/ running.kind = "up"   /\ Tail(todo) = UpRest(running, 1)
            \/ running.kind = "move" /\ Tail(todo) = MoveRest(running, 1)
<1>1. Underway
  BY DEF HandlerInv
<1>2. CASE running.kind = "down" /\ DownInv(running)
  <2>1. DownFacts(running)
    BY Rests
  <2> QED BY <1>1, <1>2, <2>1 DEF Underway, DownInv, DownFacts
<1>3. CASE running.kind = "up" /\ UpInv(running)
  <2>1. UpFacts(running)
    BY Rests
  <2> QED BY <1>1, <1>3, <2>1 DEF Underway, UpInv, UpFacts
<1>4. CASE running.kind = "move" /\ MoveInv(running)
  <2>1. MoveFacts(running)
    BY Rests
  <2> QED BY <1>1, <1>4, <2>1 DEF Underway, MoveInv, MoveFacts
<1> QED BY <1>1, <1>2, <1>3, <1>4 DEF Underway

LEMMA SizeFacts ==
  ASSUME HandlerInv, todo # << >>, event = None, Head(todo).op = "size"
  PROVE  /\ running # None /\ ~broken /\ Device # Absent
         /\ \/ /\ running.kind = "down" /\ Tail(todo) = DownRest(running, 2)
               /\ Head(todo).input = PointerButton(running.button)
            \/ /\ running.kind = "up" /\ Tail(todo) = UpRest(running, 2)
               /\ Head(todo).input = PointerButton(running.button)
            \/ /\ running.kind = "move" /\ Tail(todo) = MoveRest(running, 2)
               /\ Head(todo).input = PointerY
<1>1. Underway
  BY DEF HandlerInv
<1>2. CASE running.kind = "down" /\ DownInv(running)
  <2>1. DownFacts(running)
    BY Rests
  <2> QED BY <1>1, <1>2, <2>1 DEF Underway, DownInv, DownFacts
<1>3. CASE running.kind = "up" /\ UpInv(running)
  <2>1. UpFacts(running)
    BY Rests
  <2> QED BY <1>1, <1>3, <2>1 DEF Underway, UpInv, UpFacts
<1>4. CASE running.kind = "move" /\ MoveInv(running)
  <2>1. MoveFacts(running)
    BY Rests
  <2> QED BY <1>1, <1>4, <2>1 DEF Underway, MoveInv, MoveFacts
<1> QED BY <1>1, <1>2, <1>3, <1>4 DEF Underway

\* The eight places where an input is set.
SetPlace(c) ==
  LET b == PointerButton(c.button)
      s == Head(todo)
  IN \/ /\ c.kind = "down" /\ s = SetSilent(PointerX, c.at[1]) /\ Tail(todo) = DownRest(c, 3)
        /\ HasInput(b)
     \/ /\ c.kind = "down" /\ s = SetSilent(PointerY, c.at[2]) /\ Tail(todo) = DownRest(c, 4)
        /\ HasInput(b) /\ X(c.at[1])
     \/ /\ c.kind = "down" /\ s = Set(b, 1) /\ Tail(todo) = << >>
        /\ HasInput(b) /\ X(c.at[1]) /\ Y(c.at[2])
     \/ /\ c.kind = "up" /\ s = Set(PointerX, c.at[1]) /\ Tail(todo) = UpRest(c, 3)
        /\ HasInput(b)
     \/ /\ c.kind = "up" /\ s = Set(PointerY, c.at[2]) /\ Tail(todo) = UpRest(c, 4)
        /\ HasInput(b) /\ X(c.at[1])
     \/ /\ c.kind = "up" /\ s = Set(b, 0) /\ Tail(todo) = UpRest(c, 5)
        /\ HasInput(b) /\ X(c.at[1]) /\ Y(c.at[2])
     \/ /\ c.kind = "move" /\ s = Set(PointerX, c.at[1]) /\ Tail(todo) = MoveRest(c, 3)
        /\ HasInput(PointerY)
     \/ /\ c.kind = "move" /\ s = Set(PointerY, c.at[2]) /\ Tail(todo) = << >>
        /\ HasInput(PointerY)

LEMMA SetPlaces ==
  ASSUME HandlerInv, todo # << >>, Head(todo).op = "set"
  PROVE  running # None /\ ~broken /\ SetPlace(running)
<1>1. Underway
  BY DEF HandlerInv
<1>2. CASE running.kind = "down" /\ DownInv(running)
  <2>1. DownFacts(running)
    BY Rests
  <2> QED BY <1>1, <1>2, <2>1 DEF Underway, DownInv, DownFacts, SetPlace
<1>3. CASE running.kind = "up" /\ UpInv(running)
  <2>1. UpFacts(running)
    BY Rests
  <2> QED BY <1>1, <1>3, <2>1 DEF Underway, UpInv, UpFacts, SetPlace, Changed, X, Y
<1>4. CASE running.kind = "move" /\ MoveInv(running)
  <2>1. MoveFacts(running)
    BY Rests
  <2> QED BY <1>1, <1>4, <2>1 DEF Underway, MoveInv, MoveFacts, SetPlace
<1> QED BY <1>1, <1>2, <1>3, <1>4 DEF Underway

LEMMA ReleaseFacts ==
  ASSUME HandlerInv, todo # << >>, event = None, Head(todo).op = "release"
  PROVE  /\ running # None /\ ~broken /\ running.kind = "up" /\ Tail(todo) = << >>
         /\ Device # Absent
<1>1. Underway
  BY DEF HandlerInv
<1>2. CASE running.kind = "down" /\ DownInv(running)
  <2>1. DownFacts(running)
    BY Rests
  <2> QED BY <1>1, <1>2, <2>1 DEF Underway, DownInv, DownFacts
<1>3. CASE running.kind = "up" /\ UpInv(running)
  <2>1. UpFacts(running)
    BY Rests
  <2> QED BY <1>1, <1>3, <2>1 DEF Underway, UpInv, UpFacts, Changed, HasInput
<1>4. CASE running.kind = "move" /\ MoveInv(running)
  <2>1. MoveFacts(running)
    BY Rests
  <2> QED BY <1>1, <1>4, <2>1 DEF Underway, MoveInv, MoveFacts
<1> QED BY <1>1, <1>2, <1>3, <1>4 DEF Underway

\* What the systems are being told is what has happened to the device.
LEMMA EventFacts ==
  ASSUME HandlerInv, running \in Calls \cup {None}, event # None
  PROVE  /\ running # None /\ ~broken
         /\ \/ event.kind = "connected" /\ Device # Absent /\ DOMAIN Device = {}
            \/ event.kind = "disconnected" /\ Device = Absent
            \/ /\ event.kind = "changed" /\ event.input \in {PointerX, PointerY}
               /\ HasInput(PointerY)
            \/ /\ event.kind = "changed" /\ running.kind # "move"
               /\ event.input = PointerButton(running.button) /\ HasInput(event.input)
               /\ Device[event.input] = event.current
               /\ X(running.at[1]) /\ Y(running.at[2])
<1>1. Underway
  BY DEF HandlerInv
<1>2. CASE running.kind = "down" /\ DownInv(running)
  BY <1>1, <1>2 DEF Underway, DownInv, NewDevice, Changed
<1>3. CASE running.kind = "up" /\ UpInv(running)
  <2>1. PointerButton(running.button) \in Nat /\ PointerButton(running.button) > 1
    BY <1>1, <1>3, CallFacts DEF Underway
  <2>2. HasInput(PointerButton(running.button)) => HasInput(PointerY)
    BY <2>1 DEF HasInput, PointerY
  <2> QED BY <1>1, <1>3, <2>2 DEF Underway, UpInv, NewDevice, Changed, Gone
<1>4. CASE running.kind = "move" /\ MoveInv(running)
  BY <1>1, <1>4 DEF Underway, MoveInv, NewDevice, Changed
<1> QED BY <1>1, <1>2, <1>3, <1>4 DEF Underway
----------------------------------------------------------------------------
(* The steps.                                                              *)

InputsOK == DOMAIN inputs = Pointers /\ \A p \in Pointers : Typed(inputs[p])

LEMMA InputsTyped == TypeOK => InputsOK
BY DEF TypeOK, InputsOK, Typed

\* Between events every live system agrees with every device.
LEMMA AllAgree ==
  ASSUME IInv, event = None
  PROVE  untold = {} /\ (~broken => \A s \in Live, p \in Pointers : Agree(s, p))
<1>1. untold = {}
  BY DEF IInv, TypeOK
<1> QED BY <1>1 DEF IInv, SeenInv

\* One device is another now.
LEMMA DeviceStep ==
  ASSUME InputsOK, NEW p \in Pointers, NEW d, Typed(d), inputs' = [inputs EXCEPT ![p] = d]
  PROVE  InputsOK' /\ inputs'[p] = d /\ \A q \in Pointers : q # p => inputs'[q] = inputs[q]
<1>1. DOMAIN inputs' = Pointers
  BY DEF InputsOK
<1>2. inputs'[p] = d /\ \A q \in Pointers : q # p => inputs'[q] = inputs[q]
  BY DEF InputsOK
<1>3. \A q \in Pointers : Typed(inputs'[q])
  BY <1>2 DEF InputsOK
<1>4. \A q \in Pointers : Typed(inputs[q])'
  BY <1>3 DEF Typed
<1> QED BY <1>1, <1>2, <1>4 DEF InputsOK

LEMMA RaiseFacts ==
  ASSUME NEW e \in Events, Raise(e)
  PROVE  /\ e # None /\ (event' = None \/ event' = e) /\ untold' = Live
         /\ event' \in Events \cup {None}
         /\ untold' \in SUBSET Systems /\ (untold' = {} <=> event' = None)
<1>1. e # None
  BY NothingAssumption
<1>2. Live \in SUBSET Systems
  BY DEF Live
<1> QED BY <1>1, <1>2 DEF Raise

\* What a step of the handler leaves alone, and the types after it.
LEMMA StepTypes ==
  ASSUME IInv, NEW op, Step(op), InputsOK',
         event' \in Events \cup {None}, untold' \in SUBSET Systems,
         untold' = {} <=> event' = None
  PROVE  TypeOK'
<1>1. /\ calls' \in Seq(Calls) /\ running' \in Calls \cup {None}
      /\ stage' \in [Systems -> {"none", "live", "disposed"}]
      /\ seen' \in [Systems -> [Pointers -> Views]]
      /\ broken' \in BOOLEAN /\ host' \in [Pointers -> (SUBSET Buttons) \cup {Absent}]
  BY DEF IInv, TypeOK, Step
<1>2. /\ DOMAIN inputs' = Pointers
      /\ \A p \in Pointers : inputs'[p] = Absent \/ \E D \in Domains : inputs'[p] \in [D -> Nat]
  BY DEF InputsOK, Typed
<1>3. (untold' = {}) = (event' = None)
  OBVIOUS
<1>4. OnlyLiveKnow'
  BY DEF IInv, TypeOK, Step, OnlyLiveKnow, Live
<1> QED BY <1>1, <1>2, <1>3, <1>4 DEF TypeOK

\* The systems agree again, or are about to be told.
LEMMA StepSeen ==
  ASSUME IInv, NEW op, Step(op), running \in Calls, ~broken,
         \A q \in Pointers : q # running.pointer => inputs'[q] = inputs[q],
         \/ untold' = {} /\ \A s \in Live : Agree(s, running.pointer)'
         \/ untold' = Live /\ \A s \in Live : Before(s, running.pointer)'
  PROVE  SeenInv'
<1>1. Live' = Live /\ running' = running
  BY DEF Step, Live
<1>2. \A s \in Live, p \in Pointers : Agree(s, p)
  BY AllAgree DEF Step
<1>3. \A s \in Live, p \in Pointers : p # running.pointer => Agree(s, p)'
  BY <1>2 DEF Agree, View, Step, Pressed
<1>4. CASE untold' = {} /\ \A s \in Live : Agree(s, running.pointer)'
  <2>1. ASSUME NEW s \in Live, NEW p \in Pointers
        PROVE  Agree(s, p)'
    BY <1>1, <1>3, <1>4
  <2> QED BY <1>1, <1>4, <2>1 DEF SeenInv
<1>5. CASE untold' = Live /\ \A s \in Live : Before(s, running.pointer)'
  <2>1. ASSUME NEW s \in Live, NEW p \in Pointers
        PROVE  IF p = running.pointer THEN Before(s, p)' ELSE Agree(s, p)'
    BY <1>1, <1>3, <1>5
  <2> QED BY <1>1, <1>5, <2>1 DEF SeenInv
<1> QED BY <1>4, <1>5

LEMMA ConnectStep == ASSUME IInv, GetOrCreate PROVE IInv'
<1>1. /\ running \in Calls /\ running.pointer \in Pointers /\ ~broken
      /\ event = None /\ todo' = Tail(todo) /\ running' = running /\ broken' = broken
      /\ \/ running.kind = "down" /\ todo' = DownRest(running, 1)
         \/ running.kind = "up"   /\ todo' = UpRest(running, 1)
         \/ running.kind = "move" /\ todo' = MoveRest(running, 1)
  <2>1. /\ todo # << >> /\ event = None /\ Head(todo).op = "connect" /\ todo' = Tail(todo)
        /\ running' = running /\ broken' = broken
    BY DEF GetOrCreate, Step
  <2>2. /\ running # None /\ ~broken
        /\ \/ running.kind = "down" /\ Tail(todo) = DownRest(running, 1)
           \/ running.kind = "up"   /\ Tail(todo) = UpRest(running, 1)
           \/ running.kind = "move" /\ Tail(todo) = MoveRest(running, 1)
    BY <2>1, ConnectFacts DEF IInv
  <2>3. running \in Calls
    BY <2>2 DEF IInv, TypeOK
  <2> QED BY <2>1, <2>2, <2>3, CallFacts
<1>2. InputsOK
  BY InputsTyped DEF IInv
<1>3. Unsized(running.pointer)'
  <2>1. todo' # << >> /\ Head(todo').op = "size"
    <3>1. DownFacts(running) /\ UpFacts(running) /\ MoveFacts(running)
      BY Rests
    <3>2. /\ DownRest(running, 1) # << >> /\ UpRest(running, 1) # << >>
          /\ MoveRest(running, 1) # << >>
      BY DEF DownRest, UpRest, MoveRest
    <3> QED BY <1>1, <3>1, <3>2 DEF DownFacts, UpFacts, MoveFacts
  <2>2. running # None
    BY <1>1, CallFacts
  <2> QED BY <1>1, <2>1, <2>2 DEF Unsized
<1>4. ASSUME Device' # Absent, NewDevice'
      PROVE  HandlerInv'
  <2>1. running # None
    BY <1>1, CallFacts
  <2> QED BY <1>1, <1>4, <2>1 DEF HandlerInv, Underway, DownInv, UpInv, MoveInv
<1>5. CASE Device # Absent
  <2>1. inputs' = inputs /\ event' = None /\ untold' = untold
    BY <1>1, <1>5 DEF GetOrCreate, Silent
  <2>2. InputsOK' /\ untold' = {}
    BY <1>1, <1>2, <2>1, AllAgree DEF InputsOK, Typed
  <2>3. TypeOK'
    BY <2>1, <2>2, StepTypes DEF GetOrCreate
  <2>4. HandlerInv'
    BY <1>1, <1>4, <1>5, <2>1 DEF NewDevice, Device
  <2>5. PositionInv'
    BY <1>1, <2>1, <1>3 DEF IInv, PositionInv, Unsized, GetOrCreate, Step
  <2>6. SeenInv'
    <3>1. \A s \in Live : Agree(s, running.pointer)'
      BY <1>1, <2>1, AllAgree DEF Agree, View, Pressed, GetOrCreate, Step
    <3> QED BY <1>1, <2>1, <2>2, <3>1, StepSeen DEF GetOrCreate
  <2> QED BY <2>3, <2>4, <2>5, <2>6 DEF IInv
<1>6. CASE Device = Absent
  <2> DEFINE d == [i \in {} |-> 0]
             e == [kind |-> "connected"]
  <2>1. inputs' = [inputs EXCEPT ![running.pointer] = d] /\ Raise(e)
    BY <1>6 DEF GetOrCreate
  <2>2. {} \in Domains /\ d \in [{} -> Nat] /\ DOMAIN d = {}
    BY DEF Domains
  <2>3. Typed(d) /\ d # Absent
    BY <2>2, NothingAssumption DEF Typed
  <2>4. /\ InputsOK' /\ inputs'[running.pointer] = d
        /\ \A q \in Pointers : q # running.pointer => inputs'[q] = inputs[q]
    BY <1>1, <1>2, <2>1, <2>3, DeviceStep
  <2>5. e \in Events
    BY DEF Events
  <2>6. /\ (event' = None \/ event' = e) /\ untold' = Live
        /\ event' \in Events \cup {None}
        /\ untold' \in SUBSET Systems /\ (untold' = {} <=> event' = None)
    BY <2>1, <2>5, RaiseFacts
  <2>7. TypeOK'
    BY <2>4, <2>6, StepTypes DEF GetOrCreate
  <2>8. HandlerInv'
    <3>1. Device' = d
      BY <1>1, <2>4 DEF Device
    <3>2. event' = None \/ event'.kind = "connected"
      BY <2>6
    <3> QED BY <1>4, <2>2, <2>3, <3>1, <3>2 DEF NewDevice
  <2>9. PositionInv'
    BY <1>1, <1>3, <2>4 DEF IInv, PositionInv, Unsized, GetOrCreate, Step
  <2>10. SeenInv'
    <3>1. Pressed(d) = {}
      BY <2>2 DEF Pressed
    <3>2. View(running.pointer)' = {}
      BY <1>1, <2>3, <2>4, <3>1 DEF View, Pressed
    <3>3. \A s \in Live : seen'[s][running.pointer] = Absent
      <4>1. \A s \in Live : Agree(s, running.pointer)
        BY <1>1, AllAgree
      <4>2. seen' = seen
        BY DEF GetOrCreate, Step
      <4> QED BY <1>6, <4>1, <4>2 DEF Agree, View, Device
    <3>4. \A s \in Live : event' = e => Before(s, running.pointer)'
      BY <1>1, <3>2, <3>3 DEF Before
    <3>5. CASE Live = {}
      BY <1>1, <2>4, <2>6, <3>5, StepSeen DEF GetOrCreate
    <3>6. CASE Live # {}
      BY <1>1, <2>4, <2>6, <3>4, <3>6, StepSeen DEF GetOrCreate
    <3> QED BY <3>5, <3>6
  <2> QED BY <2>7, <2>8, <2>9, <2>10 DEF IInv
<1> QED BY <1>5, <1>6

LEMMA SizeStep == ASSUME IInv, Resize PROVE IInv'
<1> DEFINE i == Head(todo).input
           d == Sized(Device, i)
<1>1. /\ running \in Calls /\ running.pointer \in Pointers /\ ~broken /\ Device # Absent
      /\ event = None /\ event' = None /\ untold' = untold /\ running' = running
      /\ broken' = broken /\ running # None
      /\ \/ /\ running.kind = "down" /\ todo' = DownRest(running, 2)
            /\ i = PointerButton(running.button)
         \/ /\ running.kind = "up" /\ todo' = UpRest(running, 2)
            /\ i = PointerButton(running.button)
         \/ /\ running.kind = "move" /\ todo' = MoveRest(running, 2)
            /\ i = PointerY
  <2>1. /\ todo # << >> /\ event = None /\ Head(todo).op = "size" /\ todo' = Tail(todo)
        /\ running' = running /\ broken' = broken /\ event' = event /\ untold' = untold
    BY DEF Resize, Step, Silent
  <2>2. /\ running # None /\ ~broken /\ Device # Absent
        /\ \/ /\ running.kind = "down" /\ Tail(todo) = DownRest(running, 2)
              /\ Head(todo).input = PointerButton(running.button)
           \/ /\ running.kind = "up" /\ Tail(todo) = UpRest(running, 2)
              /\ Head(todo).input = PointerButton(running.button)
           \/ /\ running.kind = "move" /\ Tail(todo) = MoveRest(running, 2)
              /\ Head(todo).input = PointerY
    BY <2>1, SizeFacts DEF IInv
  <2>3. running \in Calls
    BY <2>2 DEF IInv, TypeOK
  <2> QED BY <2>1, <2>2, <2>3, CallFacts
<1>2. i \in Nat /\ (i = PointerY \/ \E b \in Buttons : i = PointerButton(b))
  BY <1>1, CallFacts DEF PointerY
<1>3. InputsOK /\ Typed(Device)
  BY <1>1, InputsTyped DEF IInv, InputsOK, Device
<1>4. /\ Typed(d) /\ d # Absent
      /\ 0 .. i \subseteq DOMAIN d /\ {PointerX, PointerY} \subseteq DOMAIN d
      /\ Pressed(d) = Pressed(Device)
  BY <1>1, <1>2, <1>3, SizedFacts
<1>5. inputs' = [inputs EXCEPT ![running.pointer] = d]
  BY DEF Resize, Device
<1>6. /\ InputsOK' /\ inputs'[running.pointer] = d
      /\ \A q \in Pointers : q # running.pointer => inputs'[q] = inputs[q]
  BY <1>1, <1>3, <1>4, <1>5, DeviceStep
<1>7. Device' = d
  BY <1>1, <1>6 DEF Device
<1>8. TypeOK'
  BY <1>1, <1>6, AllAgree, StepTypes DEF Resize
<1>9. HandlerInv'
  <2>1. \A j : j = i => HasInput(j)'
    BY <1>1, <1>4, <1>7 DEF HasInput
  <2>2. CASE running.kind = "down"
    <3>1. HasInput(PointerButton(running.button))'
      BY <1>1, <2>1, <2>2 DEF HasInput
    <3> QED BY <1>1, <2>2, <3>1 DEF HandlerInv, Underway, DownInv
  <2>3. CASE running.kind = "up"
    <3>1. HasInput(PointerButton(running.button))'
      BY <1>1, <2>1, <2>3 DEF HasInput
    <3> QED BY <1>1, <2>3, <3>1 DEF HandlerInv, Underway, UpInv
  <2>4. CASE running.kind = "move"
    <3>1. HasInput(PointerY)'
      BY <1>1, <2>1, <2>4 DEF HasInput
    <3> QED BY <1>1, <2>4, <3>1 DEF HandlerInv, Underway, MoveInv
  <2> QED BY <1>1, <2>2, <2>3, <2>4
<1>10. PositionInv'
  BY <1>1, <1>4, <1>6 DEF IInv, PositionInv, Unsized
<1>11. SeenInv'
  <2>1. \A s \in Live : Agree(s, running.pointer)
    BY <1>1, AllAgree
  <2>2. seen' = seen
    BY DEF Resize, Step
  <2>3. View(running.pointer)' = View(running.pointer)
    BY <1>1, <1>4, <1>6 DEF View, Pressed, Device
  <2>4. \A s \in Live : Agree(s, running.pointer)'
    BY <1>1, <1>4, <1>6, <2>1, <2>2, <2>3 DEF Agree, Device
  <2> QED BY <1>1, <1>6, <2>4, AllAgree, StepSeen DEF Resize
<1> QED BY <1>8, <1>9, <1>10, <1>11 DEF IInv

LEMMA ReleaseStep == ASSUME IInv, ReleaseDevice PROVE IInv'
<1>1. /\ running \in Calls /\ running.pointer \in Pointers /\ ~broken /\ Device # Absent
      /\ running # None /\ running.kind = "up"
      /\ todo # << >> /\ Head(todo).op = "release" /\ todo' = << >>
      /\ event = None /\ running' = running /\ broken' = broken /\ seen' = seen
  <2>1. /\ todo # << >> /\ event = None /\ Head(todo).op = "release" /\ todo' = Tail(todo)
        /\ running' = running /\ broken' = broken /\ seen' = seen
    BY DEF ReleaseDevice, Step
  <2>2. /\ running # None /\ ~broken /\ running.kind = "up" /\ Tail(todo) = << >>
        /\ Device # Absent
    BY <2>1, ReleaseFacts DEF IInv
  <2>3. running \in Calls
    BY <2>2 DEF IInv, TypeOK
  <2> QED BY <2>1, <2>2, <2>3, CallFacts
<1>2. InputsOK /\ Typed(Device)
  BY <1>1, InputsTyped DEF IInv, InputsOK, Device
<1>3. HandlerInv' <=> Gone'
  BY <1>1 DEF HandlerInv, Underway, UpInv, UpSteps, UpRest, Gone
<1>4. \A p \in Pointers : inputs[p] = Absent \/ {PointerX, PointerY} \subseteq DOMAIN inputs[p]
  BY <1>1 DEF IInv, PositionInv, Unsized
<1>5. CASE \E j \in DOMAIN Device : j \notin {PointerX, PointerY} /\ Device[j] > 0
  <2>1. inputs' = inputs /\ event' = None /\ untold' = untold
    BY <1>1, <1>5 DEF ReleaseDevice, Silent
  <2>2. InputsOK' /\ untold' = {}
    BY <1>1, <1>2, <2>1, AllAgree DEF InputsOK, Typed
  <2>3. TypeOK'
    BY <2>1, <2>2, StepTypes DEF ReleaseDevice
  <2>4. HandlerInv'
    BY <1>3, <2>1 DEF Gone
  <2>5. PositionInv'
    BY <1>4, <2>1 DEF PositionInv
  <2>6. SeenInv'
    <3>1. \A s \in Live : Agree(s, running.pointer)'
      BY <1>1, <2>1, AllAgree DEF Agree, View, Pressed
    <3> QED BY <1>1, <2>1, <2>2, <3>1, StepSeen DEF ReleaseDevice
  <2> QED BY <2>3, <2>4, <2>5, <2>6 DEF IInv
<1>6. CASE ~ \E j \in DOMAIN Device : j \notin {PointerX, PointerY} /\ Device[j] > 0
  <2> DEFINE e == [kind |-> "disconnected"]
  <2>1. inputs' = [inputs EXCEPT ![running.pointer] = Absent] /\ Raise(e)
    BY <1>6 DEF ReleaseDevice
  <2>2. /\ InputsOK' /\ inputs'[running.pointer] = Absent
        /\ \A q \in Pointers : q # running.pointer => inputs'[q] = inputs[q]
    BY <1>1, <1>2, <2>1, DeviceStep DEF Typed
  <2>3. e \in Events
    BY DEF Events
  <2>4. /\ (event' = None \/ event' = e) /\ untold' = Live
        /\ event' \in Events \cup {None}
        /\ untold' \in SUBSET Systems /\ (untold' = {} <=> event' = None)
    BY <2>1, <2>3, RaiseFacts
  <2>5. TypeOK'
    BY <2>2, <2>4, StepTypes DEF ReleaseDevice
  <2>6. HandlerInv'
    BY <1>1, <1>3, <2>2, <2>4 DEF Gone, Device
  <2>7. PositionInv'
    BY <1>1, <1>4, <2>2 DEF PositionInv
  <2>8. SeenInv'
    <3>1. Pressed(Device) = {}
      BY <1>6, ButtonFacts DEF Pressed
    <3>2. \A s \in Live : seen'[s][running.pointer] \in {{}, Older}
      <4>1. \A s \in Live : Agree(s, running.pointer)
        BY <1>1, AllAgree
      <4> QED BY <1>1, <3>1, <4>1 DEF Agree, View, Device
    <3>3. \A s \in Live : event' = e => Before(s, running.pointer)'
      BY <1>1, <3>2 DEF Before
    <3>4. CASE Live = {}
      BY <1>1, <2>2, <2>4, <3>4, StepSeen DEF ReleaseDevice
    <3>5. CASE Live # {}
      BY <1>1, <2>2, <2>4, <3>3, <3>5, StepSeen DEF ReleaseDevice
    <3> QED BY <3>4, <3>5
  <2> QED BY <2>5, <2>6, <2>7, <2>8 DEF IInv
<1> QED BY <1>5, <1>6

\* An input that is set exists, and is one of the position or the button of the call.
LEMMA SetPlaceFacts ==
  ASSUME running \in Calls, SetPlace(running)
  PROVE  LET s == Head(todo)
         IN /\ Device # Absent /\ s.input \in DOMAIN Device
            /\ {PointerX, PointerY} \subseteq DOMAIN Device
            /\ s.input \in Nat /\ s.value \in Nat /\ s.loud \in BOOLEAN
            /\ s.input \in {PointerX, PointerY} \/
                 /\ running.kind # "move" /\ running.button \in Buttons
                 /\ s.input = PointerButton(running.button) /\ s.loud
<1> DEFINE s == Head(todo)
           at == running.at
           b == PointerButton(running.button)
<1>1. \A i, v : /\ Set(i, v).input = i /\ Set(i, v).value = v /\ Set(i, v).loud
                /\ Set(i, v).loud \in BOOLEAN
                /\ SetSilent(i, v).input = i /\ SetSilent(i, v).value = v
                /\ SetSilent(i, v).loud \in BOOLEAN
  BY DEF Set, SetSilent
<1>2. /\ at[1] \in Nat /\ at[2] \in Nat
      /\ running.kind # "move" => running.button \in Buttons /\ b \in Nat /\ b > 1
  BY CallFacts
<1>3. /\ PointerX \in Nat /\ PointerY \in Nat
      /\ \A n \in Nat : n > 0 => {PointerX, PointerY, n} \subseteq 0 .. n
  BY DEF PointerX, PointerY
<1>4. CASE running.kind # "move"
  <2>1. HasInput(b) /\ {PointerX, PointerY, b} \subseteq DOMAIN Device
    BY <1>2, <1>3, <1>4 DEF SetPlace, HasInput
  <2>2. \/ s = SetSilent(PointerX, at[1]) \/ s = SetSilent(PointerY, at[2])
        \/ s = Set(PointerX, at[1]) \/ s = Set(PointerY, at[2])
        \/ s = Set(b, 0) \/ s = Set(b, 1)
    BY <1>4 DEF SetPlace
  <2> QED BY <1>1, <1>2, <1>3, <1>4, <2>1, <2>2 DEF HasInput
<1>5. CASE running.kind = "move"
  <2>1. Device # Absent /\ {PointerX, PointerY} \subseteq DOMAIN Device
    BY <1>5 DEF SetPlace, HasInput, PointerX, PointerY
  <2>2. s = Set(PointerX, at[1]) \/ s = Set(PointerY, at[2])
    BY <1>5 DEF SetPlace
  <2> QED BY <1>1, <1>2, <1>3, <2>1, <2>2
<1> QED BY <1>4, <1>5

\* The handler after an input has been set, whether it was another value or not.
LEMMA SetHandler ==
  ASSUME running \in Calls, running # None, ~broken, SetPlace(running),
         running' = running, broken' = broken, todo' = Tail(todo),
         Device' # Absent, DOMAIN Device' = DOMAIN Device,
         Device'[Head(todo).input] = Head(todo).value,
         \A j \in DOMAIN Device : j # Head(todo).input => Device'[j] = Device[j],
         \/ event' = None
         \/ /\ Head(todo).loud
            /\ event'.kind = "changed" /\ event'.input = Head(todo).input
            /\ event'.current = Head(todo).value
  PROVE  HandlerInv'
<1> DEFINE c == running
           b == PointerButton(running.button)
<1>1. \A i, v : /\ Set(i, v).input = i /\ Set(i, v).value = v
                /\ SetSilent(i, v).input = i /\ SetSilent(i, v).value = v
                /\ ~SetSilent(i, v).loud
  BY DEF Set, SetSilent
<1>2. /\ Device # Absent /\ {PointerX, PointerY} \subseteq DOMAIN Device
  BY SetPlaceFacts
<1>3. c.kind # "move" => b # PointerX /\ b # PointerY
  BY CallFacts DEF PointerX, PointerY
<1>4. PointerX # PointerY
  BY DEF PointerX, PointerY
<1>5. CASE c.kind = "down"
  <2>1. CASE /\ Head(todo) = SetSilent(PointerX, c.at[1]) /\ Tail(todo) = DownRest(c, 3)
             /\ HasInput(b)
    BY <1>1, <1>2, <1>5, <2>1 DEF HandlerInv, Underway, DownInv, HasInput, X
  <2>2. CASE /\ Head(todo) = SetSilent(PointerY, c.at[2]) /\ Tail(todo) = DownRest(c, 4)
             /\ HasInput(b) /\ X(c.at[1])
    BY <1>1, <1>2, <1>4, <1>5, <2>2 DEF HandlerInv, Underway, DownInv, HasInput, X, Y
  <2>3. CASE /\ Head(todo) = Set(b, 1) /\ Tail(todo) = << >>
             /\ HasInput(b) /\ X(c.at[1]) /\ Y(c.at[2])
    BY <1>1, <1>2, <1>3, <1>5, <2>3 DEF HandlerInv, Underway, DownInv, HasInput, X, Y, Changed
  <2> QED BY <1>5, <2>1, <2>2, <2>3 DEF SetPlace
<1>6. CASE c.kind = "up"
  <2>1. CASE /\ Head(todo) = Set(PointerX, c.at[1]) /\ Tail(todo) = UpRest(c, 3)
             /\ HasInput(b)
    <3>1. HasInput(PointerX)
      BY <1>2 DEF HasInput, PointerX
    <3> QED BY <1>1, <1>2, <1>6, <2>1, <3>1 DEF HandlerInv, Underway, UpInv, HasInput, Changed
  <2>2. CASE /\ Head(todo) = Set(PointerY, c.at[2]) /\ Tail(todo) = UpRest(c, 4)
             /\ HasInput(b) /\ X(c.at[1])
    <3>1. HasInput(PointerY)
      BY <1>2 DEF HasInput, PointerX, PointerY
    <3> QED BY <1>1, <1>2, <1>4, <1>6, <2>2, <3>1
            DEF HandlerInv, Underway, UpInv, HasInput, X, Changed
  <2>3. CASE /\ Head(todo) = Set(b, 0) /\ Tail(todo) = UpRest(c, 5)
             /\ HasInput(b) /\ X(c.at[1]) /\ Y(c.at[2])
    BY <1>1, <1>2, <1>3, <1>6, <2>3 DEF HandlerInv, Underway, UpInv, HasInput, X, Y, Changed
  <2> QED BY <1>6, <2>1, <2>2, <2>3 DEF SetPlace
<1>7. CASE c.kind = "move"
  <2>1. CASE /\ Head(todo) = Set(PointerX, c.at[1]) /\ Tail(todo) = MoveRest(c, 3)
             /\ HasInput(PointerY)
    <3>1. HasInput(PointerX)
      BY <1>2 DEF HasInput, PointerX
    <3> QED BY <1>1, <1>2, <1>7, <2>1, <3>1 DEF HandlerInv, Underway, MoveInv, HasInput, Changed
  <2>2. CASE /\ Head(todo) = Set(PointerY, c.at[2]) /\ Tail(todo) = << >>
             /\ HasInput(PointerY)
    BY <1>1, <1>2, <1>7, <2>2 DEF HandlerInv, Underway, MoveInv, HasInput, Changed
  <2> QED BY <1>7, <2>1, <2>2 DEF SetPlace
<1> QED BY <1>5, <1>6, <1>7, CallFacts

LEMMA SetStep == ASSUME IInv, SetInput PROVE IInv'
<1> DEFINE i == Head(todo).input
           v == Head(todo).value
           loud == Head(todo).loud
<1>1. /\ running \in Calls /\ running.pointer \in Pointers /\ ~broken /\ running # None
      /\ todo # << >> /\ Head(todo).op = "set" /\ todo' = Tail(todo) /\ event = None
      /\ running' = running /\ broken' = broken /\ seen' = seen /\ SetPlace(running)
  <2>1. /\ todo # << >> /\ event = None /\ Head(todo).op = "set" /\ todo' = Tail(todo)
        /\ running' = running /\ broken' = broken /\ seen' = seen
    BY DEF SetInput, Step
  <2>2. running # None /\ ~broken /\ SetPlace(running)
    BY <2>1, SetPlaces DEF IInv
  <2>3. running \in Calls
    BY <2>2 DEF IInv, TypeOK
  <2> QED BY <2>1, <2>2, <2>3, CallFacts
<1>2. /\ Device # Absent /\ i \in DOMAIN Device
      /\ {PointerX, PointerY} \subseteq DOMAIN Device
      /\ i \in Nat /\ v \in Nat /\ loud \in BOOLEAN
      /\ i \in {PointerX, PointerY} \/
           /\ running.kind # "move" /\ running.button \in Buttons
           /\ i = PointerButton(running.button) /\ loud
  BY <1>1, SetPlaceFacts
<1>3. InputsOK /\ Typed(Device)
  BY <1>1, InputsTyped DEF IInv, InputsOK, Device
<1>4. \A p \in Pointers : inputs[p] = Absent \/ {PointerX, PointerY} \subseteq DOMAIN inputs[p]
  BY <1>1 DEF IInv, PositionInv, Unsized
<1>5. \A s \in Live : Agree(s, running.pointer)
  BY <1>1, AllAgree
<1>6. CASE Device[i] = v
  <2>1. inputs' = inputs /\ event' = None /\ untold' = untold
    BY <1>1, <1>6 DEF SetInput, Silent
  <2>2. InputsOK' /\ untold' = {}
    BY <1>1, <1>3, <2>1, AllAgree DEF InputsOK, Typed
  <2>3. TypeOK'
    BY <2>1, <2>2, StepTypes DEF SetInput
  <2>4. HandlerInv'
    <3>1. Device' = Device
      BY <1>1, <2>1 DEF Device
    <3> QED BY <1>1, <1>2, <1>6, <2>1, <3>1, SetHandler
  <2>5. PositionInv'
    BY <1>4, <2>1 DEF PositionInv
  <2>6. SeenInv'
    <3>1. \A s \in Live : Agree(s, running.pointer)'
      BY <1>1, <1>5, <2>1 DEF Agree, View, Pressed
    <3> QED BY <1>1, <2>1, <2>2, <3>1, StepSeen DEF SetInput
  <2> QED BY <2>3, <2>4, <2>5, <2>6 DEF IInv
<1>7. CASE Device[i] # v
  <2> DEFINE d == [Device EXCEPT ![i] = v]
             e == [kind |-> "changed", input |-> i, previous |-> Device[i], current |-> v]
  <2>1. /\ inputs' = [inputs EXCEPT ![running.pointer] = d]
        /\ IF loud THEN Raise(e) ELSE Silent
    BY <1>7 DEF SetInput, Device
  <2>2. /\ Typed(d) /\ d # Absent
        /\ DOMAIN d = DOMAIN Device /\ d[i] = v
        /\ \A j \in DOMAIN Device : j # i => d[j] = Device[j]
        /\ i \in {PointerX, PointerY} => Pressed(d) = Pressed(Device)
        /\ \A b \in Buttons : i = PointerButton(b) =>
             /\ Pressed(d) \ {b} = Pressed(Device) \ {b}
             /\ b \in Pressed(Device) <=> Device[i] > 0
    <3>1. SetResult(Device, i, v)
      BY <1>2, <1>3, SetFacts
    <3> QED BY <3>1 DEF SetResult
  <2>3. /\ InputsOK' /\ inputs'[running.pointer] = d
        /\ \A q \in Pointers : q # running.pointer => inputs'[q] = inputs[q]
    BY <1>1, <1>3, <2>1, <2>2, DeviceStep
  <2>4. Device[i] \in Nat
    BY <1>2, <1>3 DEF Typed
  <2>5. e \in Events
    BY <1>2, <2>4 DEF Events
  <2>6. /\ \/ ~loud /\ event' = None /\ untold' = {}
           \/ loud /\ (event' = None \/ event' = e) /\ untold' = Live
        /\ event' \in Events \cup {None}
        /\ untold' \in SUBSET Systems /\ (untold' = {} <=> event' = None)
    <3>1. CASE loud
      BY <2>1, <2>5, <3>1, RaiseFacts
    <3>2. CASE ~loud
      BY <1>1, <2>1, <3>2, AllAgree DEF Silent
    <3> QED BY <3>1, <3>2
  <2>7. TypeOK'
    BY <2>3, <2>6, StepTypes DEF SetInput
  <2>8. HandlerInv'
    <3>1. Device' = d
      BY <1>1, <2>3 DEF Device
    <3>2. \/ event' = None
          \/ /\ loud
             /\ event'.kind = "changed" /\ event'.input = i /\ event'.current = v
      BY <2>6
    <3> QED BY <1>1, <1>2, <2>2, <3>1, <3>2, SetHandler
  <2>9. PositionInv'
    BY <1>2, <1>4, <2>2, <2>3 DEF PositionInv
  <2>10. SeenInv'
    <3>1. View(running.pointer) = Pressed(Device) /\ inputs[running.pointer] # Absent
      BY <1>2 DEF View, Device
    <3>2. View(running.pointer)' = Pressed(d) /\ inputs'[running.pointer] # Absent
      BY <1>1, <2>2, <2>3 DEF View, Pressed
    <3>3. i \in {PointerX, PointerY} => \A s \in Live : Agree(s, running.pointer)'
      BY <1>1, <1>5, <2>2, <3>1, <3>2 DEF Agree
    <3>4. ASSUME event' = e, NEW s \in Live
          PROVE  Before(s, running.pointer)'
      <4>1. CASE i \in {PointerX, PointerY}
        BY <1>1, <3>3, <3>4, <4>1 DEF Before
      <4>2. CASE i \notin {PointerX, PointerY}
        <5> DEFINE b == running.button
        <5>1. b \in Buttons /\ i = PointerButton(b) /\ i - 2 = b
          BY <1>2, <4>2, ButtonFacts
        <5>2. /\ Pressed(d) \ {b} = Pressed(Device) \ {b}
              /\ b \in Pressed(Device) <=> Device[i] > 0
          BY <2>2, <5>1
        <5>3. seen'[s][running.pointer] \in {Pressed(Device), Older}
          BY <1>1, <1>5, <3>1 DEF Agree
        <5>4. Pressed(d) = Pressed(inputs'[running.pointer])
          BY <2>3
        <5>5. Pressed(Device) \in SUBSET Buttons
          BY DEF Pressed
        <5>6. \A p \in Pointers : p = running.pointer => Before(s, p)'
          BY <1>1, <3>2, <3>4, <4>2, <5>1, <5>2, <5>3, <5>4, <5>5 DEF Before, Pressed
        <5> QED BY <1>1, <5>6
      <4> QED BY <4>1, <4>2
    <3>5. CASE ~loud
      BY <1>1, <1>2, <2>3, <2>6, <3>3, <3>5, StepSeen DEF SetInput
    <3>6. CASE loud /\ Live = {}
      BY <1>1, <2>3, <2>6, <3>6, StepSeen DEF SetInput
    <3>7. CASE loud /\ Live # {}
      BY <1>1, <2>3, <2>6, <3>4, <3>7, StepSeen DEF SetInput
    <3> QED BY <3>5, <3>6, <3>7
  <2> QED BY <2>7, <2>8, <2>9, <2>10 DEF IInv
<1> QED BY <1>6, <1>7

\* The place of the handler outlasts the telling of an event.
LEMMA HandlerStays ==
  ASSUME HandlerInv, UNCHANGED <<inputs, running, todo, broken>>, event' = event \/ event' = None
  PROVE  HandlerInv'
<1>1. ASSUME Underway, NEW c, c = running
      PROVE  /\ DownInv(c) => DownInv(c)'
             /\ UpInv(c) => UpInv(c)'
             /\ MoveInv(c) => MoveInv(c)'
  <2>1. Device' = Device
    BY DEF Device
  <2>2. DownInv(c) => DownInv(c)'
    BY <2>1 DEF DownInv, NewDevice, Changed, HasInput, X, Y
  <2>3. UpInv(c) => UpInv(c)'
    BY <2>1 DEF UpInv, NewDevice, Changed, HasInput, X, Y, Gone
  <2>4. MoveInv(c) => MoveInv(c)'
    BY <2>1 DEF MoveInv, NewDevice, Changed, HasInput
  <2> QED BY <2>2, <2>3, <2>4
<1>2. CASE Underway
  BY <1>1, <1>2 DEF HandlerInv, Underway
<1>3. CASE running = None /\ todo = << >> /\ event = None
  BY <1>3 DEF HandlerInv
<1> QED BY <1>2, <1>3 DEF HandlerInv

\* What a system may believe, and that it agrees with the device once it has been told.
LEMMA TellFacts ==
  ASSUME IInv, NEW s \in untold, stage[s] = "live"
  PROVE  /\ running.pointer \in Pointers
         /\ Believes(s) \in Views
         /\ \/ Believes(s) = View(running.pointer)
            \/ Believes(s) = Older /\ inputs[running.pointer] # Absent
<1> DEFINE p == running.pointer
           now == seen[s][p]
           b == running.button
<1>1. event # None /\ event \in Events /\ s \in Systems
  BY DEF IInv, TypeOK
<1>2. /\ running \in Calls /\ ~broken
      /\ \/ event.kind = "connected" /\ Device # Absent /\ DOMAIN Device = {}
         \/ event.kind = "disconnected" /\ Device = Absent
         \/ /\ event.kind = "changed" /\ event.input \in {PointerX, PointerY}
            /\ HasInput(PointerY)
         \/ /\ event.kind = "changed" /\ running.kind # "move"
            /\ event.input = PointerButton(running.button) /\ HasInput(event.input)
            /\ Device[event.input] = event.current
            /\ X(running.at[1]) /\ Y(running.at[2])
  BY <1>1, EventFacts DEF IInv, TypeOK
<1>3. p \in Pointers
  BY <1>2, CallFacts
<1>4. Before(s, p)
  BY <1>1, <1>2, <1>3 DEF IInv, SeenInv, Live
<1>5. now \in Views
  BY <1>1, <1>3 DEF IInv, TypeOK
<1>6. CASE event.kind = "connected"
  BY <1>3, <1>4, <1>6 DEF Believes, Before, Views
<1>7. CASE event.kind = "disconnected"
  BY <1>2, <1>3, <1>7 DEF Believes, Views, View, Device
<1>8. CASE event.kind = "changed" /\ event.input \in {PointerX, PointerY}
  <2>1. Believes(s) = now
    BY <1>8 DEF Believes
  <2>2. Agree(s, p)
    BY <1>4, <1>8 DEF Before
  <2> QED BY <1>3, <1>5, <2>1, <2>2 DEF Agree
<1>9. CASE event.kind = "changed" /\ event.input \notin {PointerX, PointerY}
  <2>1. /\ running.kind # "move" /\ event.input = PointerButton(b)
        /\ Device # Absent /\ 0 .. event.input \subseteq DOMAIN Device
        /\ Device[event.input] = event.current
    BY <1>2, <1>9 DEF HasInput
  <2>2. b \in Buttons /\ event.input - 2 = b /\ event.input \in Nat
    BY <1>2, <2>1, CallFacts, ButtonFacts
  <2>3. b \in Pressed(Device) <=> event.current > 0
    BY <2>1, <2>2 DEF Pressed
  <2>4. CASE now = Older
    <3>1. Believes(s) = Older
      BY <1>9, <2>4 DEF Believes
    <3> QED BY <1>3, <2>1, <3>1 DEF Views, Device
  <2>5. CASE now # Older
    <3>1. /\ now \in SUBSET Buttons
          /\ now \ {b} = Pressed(Device) \ {b}
      BY <1>4, <1>9, <2>2, <2>5 DEF Before, Device
    <3>2. Believes(s) = IF event.current > 0 THEN now \cup {b} ELSE now \ {b}
      BY <1>9, <2>2, <3>1, InputAssumption DEF Believes
    <3>3. Believes(s) = Pressed(Device)
      BY <2>3, <3>1, <3>2
    <3>4. Pressed(Device) \in SUBSET Buttons
      BY DEF Pressed
    <3> QED BY <1>3, <2>1, <3>3, <3>4 DEF View, Views, Device
  <2> QED BY <2>4, <2>5
<1> QED BY <1>2, <1>6, <1>7, <1>8, <1>9

LEMMA TellStep == ASSUME IInv, NEW s \in Systems, Tell(s) PROVE IInv'
<1> DEFINE p == running.pointer
<1>1. /\ s \in untold /\ untold' = untold \ {s}
      /\ event' = (IF untold' = {} THEN None ELSE event)
      /\ UNCHANGED <<inputs, calls, running, todo, stage, broken, host>>
  BY DEF Tell, Told
<1>2. event # None /\ running \in Calls /\ ~broken /\ p \in Pointers
  <2>1. event # None
    BY <1>1 DEF IInv, TypeOK
  <2>2. running # None /\ ~broken
    BY <2>1, EventFacts DEF IInv, TypeOK
  <2> QED BY <2>1, <2>2, CallFacts DEF IInv, TypeOK
<1>3. /\ seen' \in [Systems -> [Pointers -> Views]]
      /\ \A t \in Systems : t # s => seen'[t] = seen[t]
      /\ \A q \in Pointers : q # p => seen'[s][q] = seen[s][q]
      /\ stage[s] = "live" =>
           \/ seen'[s][p] = View(p)
           \/ seen'[s][p] = Older /\ inputs[p] # Absent
  <2>1. seen \in [Systems -> [Pointers -> Views]]
    BY DEF IInv, TypeOK
  <2>2. CASE stage[s] = "live"
    <3>1. seen' = [seen EXCEPT ![s][p] = Believes(s)]
      BY <2>2 DEF Tell
    <3>2. /\ Believes(s) \in Views
          /\ Believes(s) = View(p) \/ (Believes(s) = Older /\ inputs[p] # Absent)
      BY <1>1, <2>2, TellFacts
    <3>3. seen'[s][p] = Believes(s)
      BY <1>2, <2>1, <3>1
    <3> QED BY <1>2, <2>1, <3>1, <3>2, <3>3
  <2>3. CASE stage[s] # "live"
    BY <2>1, <2>3 DEF Tell
  <2> QED BY <2>2, <2>3
<1>4. TypeOK'
  <2>1. /\ untold' \in SUBSET Systems /\ event' \in Events \cup {None}
        /\ (untold' = {}) = (event' = None)
    BY <1>1, <1>2 DEF IInv, TypeOK
  <2>2. OnlyLiveKnow'
    <3>1. OnlyLiveKnow /\ Live' = Live
      BY <1>1 DEF IInv, TypeOK, Live
    <3>2. CASE stage[s] = "live"
      <4>1. s \in Live /\ (listed' = listed \/ listed' = listed \cup {s})
        BY <3>2 DEF Tell, Live
      <4> QED BY <1>3, <3>1, <4>1 DEF OnlyLiveKnow
    <3>3. CASE stage[s] # "live"
      BY <3>1, <3>3 DEF Tell, OnlyLiveKnow
    <3> QED BY <3>2, <3>3
  <2> QED BY <1>1, <1>3, <2>1, <2>2 DEF IInv, TypeOK
<1>5. HandlerInv'
  BY <1>1, HandlerStays DEF IInv
<1>6. PositionInv'
  BY <1>1 DEF IInv, PositionInv, Unsized
<1>7. Live' = Live
  BY <1>1 DEF Live
<1>8. View(p)' = View(p) /\ \A q \in Pointers : View(q)' = View(q)
  BY <1>1 DEF View, Pressed
<1>9. ASSUME NEW t \in Live, t \notin untold', NEW q \in Pointers
      PROVE  Agree(t, q)'
  <2>1. CASE t = s
    <3>1. stage[s] = "live"
      BY <2>1 DEF Live
    <3>2. q # p => Agree(s, q)
      BY <1>1, <1>2, <1>9, <2>1 DEF IInv, SeenInv
    <3>3. CASE q = p
      BY <1>1, <1>3, <1>8, <2>1, <3>1, <3>3 DEF Agree
    <3>4. CASE q # p
      BY <1>1, <1>3, <1>8, <2>1, <3>2, <3>4 DEF Agree
    <3> QED BY <3>3, <3>4
  <2>2. CASE t # s
    <3>1. Agree(t, q) /\ t \in Systems
      BY <1>1, <1>2, <1>9, <2>2 DEF IInv, SeenInv, Live
    <3> QED BY <1>1, <1>3, <1>8, <2>2, <3>1 DEF Agree
  <2> QED BY <2>1, <2>2
<1>10. ASSUME NEW t \in Live, t \in untold', NEW q \in Pointers
       PROVE  IF q = p THEN Before(t, q)' ELSE Agree(t, q)'
  <2>1. /\ IF q = p THEN Before(t, q) ELSE Agree(t, q)
        /\ t \in Systems /\ t # s
    BY <1>1, <1>2, <1>10 DEF IInv, SeenInv, Live
  <2>2. event' = event /\ seen'[t] = seen[t]
    BY <1>1, <1>3, <1>10, <2>1
  <2>3. Agree(t, q) => Agree(t, q)'
    BY <1>1, <1>8, <2>2 DEF Agree
  <2>4. Before(t, q) => Before(t, q)'
    BY <1>1, <1>8, <2>2, <2>3 DEF Before, Pressed
  <2> QED BY <2>1, <2>3, <2>4
<1>11. SeenInv'
  BY <1>1, <1>7, <1>9, <1>10 DEF SeenInv
<1> QED BY <1>4, <1>5, <1>6, <1>11 DEF IInv

LEMMA ThrowStep == ASSUME IInv, NEW s \in Systems, TellThrows(s) PROVE IInv'
<1>1. /\ broken' = TRUE /\ running' = None /\ todo' = << >> /\ event' = None /\ untold' = {}
      /\ UNCHANGED <<inputs, calls, stage, seen, listed, host>>
  BY DEF TellThrows
<1>2. TypeOK'
  <2>1. OnlyLiveKnow'
    BY <1>1 DEF IInv, TypeOK, OnlyLiveKnow, Live
  <2> QED BY <1>1, <2>1 DEF IInv, TypeOK
<1>3. HandlerInv' /\ PositionInv' /\ SeenInv'
  BY <1>1 DEF HandlerInv, PositionInv, SeenInv
<1> QED BY <1>2, <1>3 DEF IInv

\* A step of JavaScript or of the host that leaves the devices and the handler alone.
LEMMA QuietStep ==
  ASSUME IInv, UNCHANGED <<inputs, running, todo, event, untold, stage, seen, listed, broken>>,
         calls' \in Seq(Calls), host' \in [Pointers -> (SUBSET Buttons) \cup {Absent}]
  PROVE  IInv'
<1>1. TypeOK'
  <2>1. OnlyLiveKnow'
    BY DEF IInv, TypeOK, OnlyLiveKnow, Live
  <2> QED BY <2>1 DEF IInv, TypeOK
<1>2. HandlerInv'
  BY HandlerStays DEF IInv
<1>3. PositionInv'
  BY DEF IInv, PositionInv, Unsized
<1>4. SeenInv'
  <2>1. Live' = Live
    BY DEF Live
  <2>2. \A s, p : (Agree(s, p) => Agree(s, p)') /\ (Before(s, p) => Before(s, p)')
    BY DEF Agree, Before, View, Pressed
  <2> QED BY <2>1, <2>2 DEF IInv, SeenInv
<1> QED BY <1>1, <1>2, <1>3, <1>4 DEF IInv

LEMMA CreateStep == ASSUME IInv, NEW s \in Systems, Create(s) PROVE IInv'
<1> DEFINE fresh == [p \in Pointers |-> IF inputs[p] = Absent THEN Absent ELSE Older]
<1>1. /\ running = None /\ ~broken
      /\ stage' = [stage EXCEPT ![s] = "live"] /\ seen' = [seen EXCEPT ![s] = fresh]
      /\ UNCHANGED <<inputs, calls, running, todo, event, untold, listed, broken, host>>
  BY DEF Create
<1>2. event = None /\ untold = {}
  <2>1. event = None
    BY <1>1 DEF IInv, HandlerInv, Underway
  <2> QED BY <2>1, AllAgree
<1>3. fresh \in [Pointers -> Views]
  BY DEF Views
<1>4. TypeOK'
  <2>1. OnlyLiveKnow'
    BY <1>1 DEF IInv, TypeOK, OnlyLiveKnow, Live
  <2> QED BY <1>1, <1>3, <2>1 DEF IInv, TypeOK
<1>5. HandlerInv'
  BY <1>1, HandlerStays DEF IInv
<1>6. PositionInv'
  BY <1>1 DEF IInv, PositionInv, Unsized
<1>7. ASSUME NEW t \in Live', NEW p \in Pointers
      PROVE  Agree(t, p)'
  <2>1. CASE t = s
    <3>1. seen'[s][p] = IF inputs[p] = Absent THEN Absent ELSE Older
      BY <1>1 DEF IInv, TypeOK
    <3> QED BY <1>1, <2>1, <3>1 DEF Agree, View
  <2>2. CASE t # s
    <3>1. t \in Live /\ seen'[t] = seen[t]
      BY <1>1, <2>2 DEF IInv, TypeOK, Live
    <3>2. Agree(t, p)
      BY <1>1, <1>2, <3>1, AllAgree
    <3> QED BY <1>1, <3>1, <3>2 DEF Agree, View, Pressed
  <2> QED BY <2>1, <2>2
<1>8. SeenInv'
  BY <1>1, <1>2, <1>7 DEF SeenInv
<1> QED BY <1>4, <1>5, <1>6, <1>8 DEF IInv

LEMMA DisposeStep == ASSUME IInv, NEW s \in Systems, Dispose(s) PROVE IInv'
<1> DEFINE fresh == [p \in Pointers |-> Absent]
<1>1. /\ stage' = [stage EXCEPT ![s] = "disposed"] /\ seen' = [seen EXCEPT ![s] = fresh]
      /\ listed' = listed \ {s}
      /\ UNCHANGED <<inputs, calls, running, todo, event, untold, broken, host>>
  BY DEF Dispose
<1>2. fresh \in [Pointers -> Views]
  BY DEF Views
<1>3. TypeOK'
  <2>1. OnlyLiveKnow'
    BY <1>1 DEF IInv, TypeOK, OnlyLiveKnow, Live
  <2> QED BY <1>1, <1>2, <2>1 DEF IInv, TypeOK
<1>4. HandlerInv'
  BY <1>1, HandlerStays DEF IInv
<1>5. PositionInv'
  BY <1>1 DEF IInv, PositionInv, Unsized
<1>6. \A t \in Live' : t \in Live /\ seen'[t] = seen[t]
  BY <1>1 DEF IInv, TypeOK, Live
<1>7. ASSUME NEW t \in Live', NEW p \in Pointers
      PROVE  /\ Agree(t, p) => Agree(t, p)'
             /\ Before(t, p) => Before(t, p)'
  BY <1>1, <1>6 DEF Agree, Before, View, Pressed
<1>8. SeenInv'
  BY <1>1, <1>6, <1>7 DEF IInv, SeenInv
<1> QED BY <1>3, <1>4, <1>5, <1>8 DEF IInv

LEMMA BeginStep == ASSUME IInv, Begin PROVE IInv'
<1>1. /\ running = None /\ calls # << >> /\ ~broken
      /\ running' = Head(calls) /\ calls' = Tail(calls)
      /\ \/ running'.kind = "down" /\ todo' = DownSteps(running')
         \/ running'.kind = "up"   /\ todo' = UpSteps(running')
         \/ running'.kind = "move" /\ todo' = MoveSteps(running')
      /\ UNCHANGED <<inputs, event, untold, stage, seen, listed, broken, host>>
  BY DEF Begin
<1>2. running' \in Calls /\ calls' \in Seq(Calls)
  BY <1>1 DEF IInv, TypeOK
<1>3. event = None /\ untold = {}
  <2>1. event = None
    BY <1>1 DEF IInv, HandlerInv, Underway
  <2> QED BY <2>1, AllAgree
<1>4. TypeOK'
  <2>1. OnlyLiveKnow'
    BY <1>1 DEF IInv, TypeOK, OnlyLiveKnow, Live
  <2> QED BY <1>1, <1>2, <2>1 DEF IInv, TypeOK
<1>5. HandlerInv'
  <2>1. running' # None
    BY <1>2, NothingAssumption
  <2> QED BY <1>1, <1>3, <2>1 DEF HandlerInv, Underway, DownInv, UpInv, MoveInv
<1>6. PositionInv'
  BY <1>1 DEF IInv, PositionInv, Unsized
<1>7. SeenInv'
  <2>1. \A s \in Live, p \in Pointers : Agree(s, p)
    BY <1>1, <1>3, AllAgree
  <2>2. Live' = Live /\ \A s \in Live, p \in Pointers : Agree(s, p)'
    BY <1>1, <2>1 DEF Live, Agree, View, Pressed
  <2> QED BY <1>1, <1>3, <2>2 DEF SeenInv
<1> QED BY <1>4, <1>5, <1>6, <1>7 DEF IInv

LEMMA ReturnStep == ASSUME IInv, Return PROVE IInv'
<1>1. /\ todo = << >> /\ event = None /\ running' = None
      /\ UNCHANGED <<inputs, calls, todo, event, untold, stage, seen, listed, broken, host>>
  BY DEF Return
<1>2. untold = {}
  BY <1>1, AllAgree
<1>3. TypeOK'
  <2>1. OnlyLiveKnow'
    BY <1>1 DEF IInv, TypeOK, OnlyLiveKnow, Live
  <2> QED BY <1>1, <2>1 DEF IInv, TypeOK
<1>4. HandlerInv'
  BY <1>1 DEF HandlerInv
<1>5. PositionInv'
  BY <1>1 DEF IInv, PositionInv, Unsized
<1>6. SeenInv'
  <2>1. ~broken => \A s \in Live, p \in Pointers : Agree(s, p)
    BY <1>1, AllAgree
  <2>2. Live' = Live /\ (~broken => \A s \in Live, p \in Pointers : Agree(s, p)')
    BY <1>1, <2>1 DEF Live, Agree, View, Pressed
  <2> QED BY <1>1, <1>2, <2>2 DEF SeenInv
<1> QED BY <1>3, <1>4, <1>5, <1>6 DEF IInv

LEMMA HostStep == ASSUME IInv, Host PROVE IInv'
<1>1. host \in [Pointers -> (SUBSET Buttons) \cup {Absent}] /\ calls \in Seq(Calls)
  BY DEF IInv, TypeOK
<1>2. \A p \in Pointers : HostButtons(p) \in SUBSET Buttons
  BY <1>1 DEF HostButtons
<1>3. ASSUME NEW c \in Calls, Post(c), host' \in [Pointers -> (SUBSET Buttons) \cup {Absent}]
      PROVE  IInv'
  <2>1. /\ UNCHANGED <<inputs, running, todo, event, untold, stage, seen, listed, broken>>
        /\ calls' \in Seq(Calls)
    BY <1>1, <1>3 DEF Post
  <2> QED BY <1>3, <2>1, QuietStep
<1>4. ASSUME NEW p \in Pointers, NEW at \in Points, PointerMove(p, at)
      PROVE  IInv'
  <2>1. [kind |-> "move", pointer |-> p, at |-> at] \in Calls
    BY DEF Calls
  <2>2. host' \in [Pointers -> (SUBSET Buttons) \cup {Absent}]
    BY <1>1, <1>2, <1>4 DEF PointerMove
  <2> QED BY <1>3, <1>4, <2>1, <2>2 DEF PointerMove
<1>5. ASSUME NEW p \in Pointers, NEW at \in Points, NEW b \in Buttons, PointerDown(p, b, at)
      PROVE  IInv'
  <2>1. [kind |-> "down", pointer |-> p, button |-> b, at |-> at] \in Calls
    BY DEF Calls
  <2>2. host' \in [Pointers -> (SUBSET Buttons) \cup {Absent}]
    BY <1>1, <1>2, <1>5 DEF PointerDown
  <2> QED BY <1>3, <1>5, <2>1, <2>2 DEF PointerDown
<1>6. ASSUME NEW p \in Pointers, NEW at \in Points, NEW b \in Buttons, PointerUp(p, b, at)
      PROVE  IInv'
  <2>1. [kind |-> "up", pointer |-> p, button |-> b, at |-> at] \in Calls
    BY DEF Calls
  <2>2. host' \in [Pointers -> (SUBSET Buttons) \cup {Absent}]
    <3>1. ~(HostButtons(p) \subseteq {b}) => host[p] \in SUBSET Buttons
      BY <1>1 DEF HostButtons
    <3>2. (IF HostButtons(p) \subseteq {b} THEN Absent ELSE host[p] \ {b})
            \in (SUBSET Buttons) \cup {Absent}
      BY <3>1
    <3>3. host' = [host EXCEPT ![p] = IF HostButtons(p) \subseteq {b} THEN Absent
                                                                     ELSE host[p] \ {b}]
      BY <1>6 DEF PointerUp
    <3> QED BY <1>1, <3>2, <3>3
  <2> QED BY <1>3, <1>6, <2>1, <2>2 DEF PointerUp
<1> QED BY <1>4, <1>5, <1>6 DEF Host

\* Nothing is pressed and nobody knows of anything.
LEMMA InitIInv == Init => IInv
<1> SUFFICES ASSUME Init PROVE IInv
  OBVIOUS
<1>1. TypeOK
  <2>1. /\ seen \in [Systems -> [Pointers -> Views]]
        /\ host \in [Pointers -> (SUBSET Buttons) \cup {Absent}]
    BY DEF Init, Views
  <2>2. /\ calls \in Seq(Calls)
        /\ stage \in [Systems -> {"none", "live", "disposed"}]
    BY DEF Init
  <2>3. DOMAIN inputs = Pointers /\ \A p \in Pointers : inputs[p] = Absent
    BY DEF Init
  <2>4. /\ running \in Calls \cup {None} /\ event \in Events \cup {None}
        /\ untold \in SUBSET Systems /\ ((untold = {}) = (event = None))
    BY DEF Init
  <2>5. broken \in BOOLEAN
    BY DEF Init
  <2>6. OnlyLiveKnow
    BY DEF Init, OnlyLiveKnow, Live
  <2> QED BY <2>1, <2>2, <2>3, <2>4, <2>5, <2>6 DEF TypeOK
<1>2. HandlerInv
  BY DEF Init, HandlerInv
<1>3. PositionInv
  BY DEF Init, PositionInv
<1>4. SeenInv
  BY DEF Init, SeenInv, Live
<1> QED BY <1>1, <1>2, <1>3, <1>4 DEF IInv

LEMMA NextIInv == IInv /\ [Next]_vars => IInv'
<1> SUFFICES ASSUME IInv, [Next]_vars PROVE IInv'
  OBVIOUS
<1>1. CASE Host
  BY <1>1, HostStep
<1>2. CASE Begin
  BY <1>2, BeginStep
<1>3. CASE Return
  BY <1>3, ReturnStep
<1>4. CASE GetOrCreate
  BY <1>4, ConnectStep
<1>5. CASE Resize
  BY <1>5, SizeStep
<1>6. CASE SetInput
  BY <1>6, SetStep
<1>7. CASE ReleaseDevice
  BY <1>7, ReleaseStep
<1>8. CASE Skip
  <2>1. /\ UNCHANGED <<inputs, running, todo, event, untold, stage, seen, listed, broken, host>>
        /\ calls' \in Seq(Calls)
    BY <1>8 DEF Skip, IInv, TypeOK
  <2>2. host' \in [Pointers -> (SUBSET Buttons) \cup {Absent}]
    BY <2>1 DEF IInv, TypeOK
  <2> QED BY <2>1, <2>2, QuietStep
<1>9. ASSUME NEW s \in Systems, Tell(s) \/ TellThrows(s) \/ Create(s) \/ Dispose(s)
      PROVE  IInv'
  BY <1>9, TellStep, ThrowStep, CreateStep, DisposeStep
<1>10. CASE UNCHANGED vars
  <2>1. /\ UNCHANGED <<inputs, running, todo, event, untold, stage, seen, listed, broken>>
        /\ calls' \in Seq(Calls) /\ host' \in [Pointers -> (SUBSET Buttons) \cup {Absent}]
    BY <1>10 DEF vars, IInv, TypeOK
  <2> QED BY <2>1, QuietStep
<1> QED BY <1>1, <1>2, <1>3, <1>4, <1>5, <1>6, <1>7, <1>8, <1>9, <1>10
        DEF Next, Handler, JavaScript
----------------------------------------------------------------------------
(* The theorems.                                                           *)

(* What is left of the handler, the device it works on, the event the        *)
(* systems hear of and what they believe stay in step (NativeInput.cpp:58).  *)
THEOREM Invariant == Spec => []IInv
BY InitIInv, NextIInv, PTL DEF Spec

(* The state keeps its types, whatever JavaScript does in between: a device  *)
(* has inputs for its position or up to some button (NativeInput.cpp:144).   *)
THEOREM TypesHold == Spec => []TypeOK
<1>1. IInv => TypeOK
  BY DEF IInv
<1> QED BY Invariant, <1>1, PTL

(* SetInputState never reads or writes past the inputs of a device, and the  *)
(* device is there (NativeInput.cpp:176).                                    *)
THEOREM InputsStayInRange == Spec => []InputsInRange
<1>1. IInv => InputsInRange
  <2> SUFFICES ASSUME IInv, todo # << >>, Head(todo).op = "set"
               PROVE  Device # Absent /\ Head(todo).input \in DOMAIN Device
    BY DEF InputsInRange
  <2>1. running # None /\ SetPlace(running)
    BY SetPlaces DEF IInv
  <2>2. running \in Calls
    BY <2>1 DEF IInv, TypeOK
  <2> QED BY <2>1, <2>2, SetPlaceFacts
<1> QED BY Invariant, <1>1, PTL

(* When the systems are told that a button has changed, they can read the    *)
(* position of that very call (NativeInput.cpp:69).                          *)
THEOREM PositionOfTheCall == Spec => []DownPosition
<1>1. IInv => DownPosition
  <2> SUFFICES ASSUME IInv, event # None, event.kind = "changed",
                      event.input \notin {PointerX, PointerY}
               PROVE  <<Device[PointerX], Device[PointerY]>> = running.at
    BY DEF DownPosition
  <2>1. running # None /\ X(running.at[1]) /\ Y(running.at[2])
    BY EventFacts DEF IInv, TypeOK
  <2>2. running.at \in Points
    BY <2>1 DEF IInv, TypeOK, Calls
  <2>3. running.at = <<running.at[1], running.at[2]>>
    BY <2>2, InputAssumption
  <2> QED BY <2>1, <2>3 DEF X, Y
<1> QED BY Invariant, <1>1, PTL

(* No system is told of a device twice, of a button that has not changed, or *)
(* of the end of a device with a button down (NativeInput.cpp:87-96).        *)
THEOREM EventsAlwaysMakeSense == Spec => []EventsMakeSense
<1>1. IInv => EventsMakeSense
  <2> SUFFICES ASSUME IInv, NEW s \in untold \cap Live
               PROVE  LET now == seen[s][running.pointer]
                      IN /\ event.kind = "connected"    => now = Absent
                         /\ event.kind = "disconnected" => now \in {{}, Older}
                         /\ event.kind = "changed" =>
                              \/ now = Older
                              \/ /\ now # Absent
                                 /\ event.input \notin {PointerX, PointerY} =>
                                      (event.previous > 0) = (event.input - 2 \in now)
    BY DEF EventsMakeSense
  <2> DEFINE p == running.pointer
             now == seen[s][p]
  <2>1. event # None
    BY DEF IInv, TypeOK
  <2>2. /\ running # None /\ ~broken
        /\ event.kind = "changed" => Device # Absent
    BY <2>1, EventFacts DEF IInv, TypeOK, HasInput
  <2>3. p \in Pointers
    BY <2>2, CallFacts DEF IInv, TypeOK
  <2>4. Before(s, p)
    BY <2>2, <2>3 DEF IInv, SeenInv
  <2>5. \A q : Pressed(inputs[q]) # Absent
    BY InputAssumption DEF Pressed
  <2>6. CASE event.kind = "changed" /\ event.input \in {PointerX, PointerY}
    <3>1. Agree(s, p)
      BY <2>4, <2>6 DEF Before
    <3>2. now = Older \/ now = Pressed(inputs[p])
      BY <2>2, <2>6, <3>1 DEF Agree, View, Device
    <3> QED BY <2>5, <2>6, <3>2
  <2>7. CASE event.kind = "changed" /\ event.input \notin {PointerX, PointerY}
    <3>1. \/ now = Older
          \/ now \in SUBSET Buttons /\ (event.previous > 0 <=> event.input - 2 \in now)
      BY <2>4, <2>7 DEF Before
    <3>2. event.previous \in Nat
      BY <2>1, <2>7 DEF IInv, TypeOK, Events
    <3>3. now \in SUBSET Buttons => now # Absent
      BY InputAssumption
    <3> QED BY <2>7, <3>1, <3>2, <3>3
  <2>8. CASE event.kind # "changed"
    BY <2>4, <2>8 DEF Before
  <2> QED BY <2>6, <2>7, <2>8
<1> QED BY Invariant, <1>1, PTL

(* A system can poll the position of every device it knows, between handlers *)
(* and in every callback of an input change (NativeInput.cpp:99).            *)
THEOREM KnownDevicesPollable == Spec => []Pollable
<1>1. IInv => Pollable
  <2> SUFFICES ASSUME IInv, ~broken,
                      running = None \/ (event # None /\ event.kind = "changed"),
                      NEW s \in Live, NEW p \in Pointers, seen[s][p] # Absent
               PROVE  inputs[p] # Absent /\ {PointerX, PointerY} \subseteq DOMAIN inputs[p]
    BY DEF Pollable
  <2>1. CASE running # None /\ p = running.pointer
    <3>1. HasInput(PointerY) \/ (running.kind # "move" /\ HasInput(PointerButton(running.button)))
      BY <2>1, EventFacts DEF IInv, TypeOK
    <3>2. running.kind # "move" =>
            PointerButton(running.button) \in Nat /\ PointerButton(running.button) > 1
      BY <2>1, CallFacts DEF IInv, TypeOK
    <3>3. Device # Absent /\ {PointerX, PointerY} \subseteq DOMAIN Device
      BY <3>1, <3>2 DEF HasInput, PointerX, PointerY
    <3> QED BY <2>1, <3>3 DEF Device
  <2>2. CASE ~(running # None /\ p = running.pointer)
    <3>1. running = None => event = None /\ untold = {}
      BY DEF IInv, HandlerInv, Underway, TypeOK
    <3>2. Agree(s, p)
      BY <2>2, <3>1 DEF IInv, SeenInv
    <3>3. inputs[p] # Absent
      BY <3>2 DEF Agree, View
    <3> QED BY <2>2, <3>3 DEF IInv, PositionInv, Unsized
  <2> QED BY <2>1, <2>2
<1> QED BY Invariant, <1>1, PTL
=============================================================================
