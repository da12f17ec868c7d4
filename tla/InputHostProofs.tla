-------------------------- MODULE InputHostProofs --------------------------
(***************************************************************************)
(* What the host has reported is what becomes of the devices.  Calls wait, *)
(* so the proof needs what they will do: a button is decided by the last   *)
(* call that waits about it, whether a device stays by the last call that  *)
(* waits about its pointer, and what no call that waits is about by the    *)
(* handler that runs.                                                      *)
(***************************************************************************)
EXTENDS InputProofs

\* The calls about a button, about a pointer, of a kind.
OnButton(p, b) == {c \in Calls : c.kind # "move" /\ c.pointer = p /\ c.button = b}
On(p) == {c \in Calls : c.pointer = p}
Kind(k) == {c \in Calls : c.kind = k}

\* Some call of q is in S; the last one that is in S is in T.
Some(q, S) == \E i \in 1 .. Len(q) : q[i] \in S
Last(q, S, T) == \E i \in 1 .. Len(q) : /\ q[i] \in S /\ q[i] \in T
                                        /\ \A j \in 1 .. Len(q) : i < j => q[j] \notin S

\* The buttons that are down, and those that are once the handler has run.
Down(p) == IF inputs[p] = Absent THEN {} ELSE Pressed(inputs[p])
Handled(p) == running # None /\ running.pointer = p /\ todo # << >>
Future(p) == IF Handled(p) /\ running.kind = "down" THEN Down(p) \cup {running.button}
             ELSE IF Handled(p) /\ running.kind = "up" THEN Down(p) \ {running.button}
             ELSE Down(p)

\* The device is there once the handler has run.
Stays(p) == IF Handled(p) THEN running.kind = "up" => Future(p) # {} ELSE inputs[p] # Absent

ButtonAgrees(p, b) ==
  b \in HostButtons(p) <=> IF Some(calls, OnButton(p, b))
                             THEN Last(calls, OnButton(p, b), Kind("down"))
                             ELSE b \in Future(p)

DeviceAgrees(p) ==
  host[p] # Absent <=> IF Some(calls, On(p))
                         THEN Last(calls, On(p), Kind("up")) => HostButtons(p) # {}
                         ELSE Stays(p)

ReportInv == ~broken => \A p \in Pointers : /\ \A b \in Buttons : ButtonAgrees(p, b)
                                            /\ DeviceAgrees(p)

\* Only buttons and the position of a device are ever set.
OnlyButtons(d) == \A i \in DOMAIN d : i \notin {PointerX, PointerY} /\ d[i] > 0 =>
                    \E b \in Buttons : i = PointerButton(b)
ButtonsInv == \A p \in Pointers : inputs[p] = Absent \/ OnlyButtons(inputs[p])
----------------------------------------------------------------------------
LEMMA Appended ==
  ASSUME NEW q \in Seq(Calls), NEW c, NEW S, NEW T
  PROVE  /\ Some(Append(q, c), S) <=> Some(q, S) \/ c \in S
         /\ Last(Append(q, c), S, T) <=> IF c \in S THEN c \in T ELSE Last(q, S, T)
<1> DEFINE r == Append(q, c)
           n == Len(q) + 1
<1>1. /\ Len(q) \in Nat /\ Len(r) = n /\ r[n] = c /\ \A i \in 1 .. Len(q) : r[i] = q[i]
  OBVIOUS
<1>2. Some(r, S) <=> Some(q, S) \/ c \in S
  <2>1. ASSUME Some(q, S) \/ c \in S PROVE Some(r, S)
    BY <1>1, <2>1 DEF Some
  <2>2. ASSUME Some(r, S), c \notin S PROVE Some(q, S)
    BY <1>1, <2>2 DEF Some
  <2> QED BY <2>1, <2>2
<1>3. CASE c \in S
  <2>1. ASSUME Last(r, S, T) PROVE c \in T
    <3>1. PICK i \in 1 .. n : r[i] \in T /\ \A j \in 1 .. n : i < j => r[j] \notin S
      BY <1>1, <2>1 DEF Last
    <3>2. i = n
      BY <1>1, <1>3, <3>1
    <3> QED BY <1>1, <3>1, <3>2
  <2>2. ASSUME c \in T PROVE Last(r, S, T)
    BY <1>1, <1>3, <2>2 DEF Last
  <2> QED BY <1>2, <1>3, <2>1, <2>2
<1>4. CASE c \notin S
  <2>1. ASSUME Last(r, S, T) PROVE Last(q, S, T)
    <3>1. PICK i \in 1 .. n : /\ r[i] \in S /\ r[i] \in T
                              /\ \A j \in 1 .. n : i < j => r[j] \notin S
      BY <1>1, <2>1 DEF Last
    <3>2. i \in 1 .. Len(q)
      BY <1>1, <1>4, <3>1
    <3> QED BY <1>1, <3>1, <3>2 DEF Last
  <2>2. ASSUME Last(q, S, T) PROVE Last(r, S, T)
    <3>1. PICK i \in 1 .. Len(q) : /\ q[i] \in S /\ q[i] \in T
                                   /\ \A j \in 1 .. Len(q) : i < j => q[j] \notin S
      BY <2>2 DEF Last
    <3>2. \A j \in 1 .. n : i < j => r[j] \notin S
      BY <1>1, <1>4, <3>1
    <3> QED BY <1>1, <3>1, <3>2 DEF Last
  <2> QED BY <1>2, <1>4, <2>1, <2>2
<1> QED BY <1>3, <1>4, <1>2

LEMMA Taken ==
  ASSUME NEW q \in Seq(Calls), q # << >>, NEW S, NEW T
  PROVE  /\ Some(q, S) <=> Some(Tail(q), S) \/ Head(q) \in S
         /\ Last(q, S, T) <=> \/ Last(Tail(q), S, T)
                              \/ ~Some(Tail(q), S) /\ Head(q) \in S /\ Head(q) \in T
<1> DEFINE r == Tail(q)
           m == Len(r)
<1>1. /\ m \in Nat /\ Len(q) = m + 1 /\ Head(q) = q[1] /\ \A i \in 1 .. m : r[i] = q[i + 1]
  OBVIOUS
<1>2. \A j \in 1 .. Len(q) : j = 1 \/ (j - 1 \in 1 .. m /\ r[j - 1] = q[j])
  <2> SUFFICES ASSUME NEW j \in 1 .. Len(q), j # 1
               PROVE  j - 1 \in 1 .. m /\ r[j - 1] = q[j]
    OBVIOUS
  <2>1. j - 1 \in 1 .. m /\ j - 1 + 1 = j
    BY <1>1
  <2> QED BY <1>1, <2>1
<1>3. Some(q, S) <=> Some(r, S) \/ q[1] \in S
  <2>1. ASSUME Some(q, S), q[1] \notin S PROVE Some(r, S)
    BY <1>1, <1>2, <2>1 DEF Some
  <2>2. ASSUME Some(r, S) PROVE Some(q, S)
    <3>1. PICK i \in 1 .. m : r[i] \in S
      BY <2>2 DEF Some
    <3>2. i + 1 \in 1 .. Len(q) /\ q[i + 1] \in S
      BY <1>1, <3>1
    <3> QED BY <3>2 DEF Some
  <2>3. q[1] \in S => Some(q, S)
    BY <1>1 DEF Some
  <2> QED BY <2>1, <2>2, <2>3
<1>4. ASSUME Last(r, S, T) PROVE Last(q, S, T)
  <2>1. PICK i \in 1 .. m : /\ r[i] \in S /\ r[i] \in T
                            /\ \A j \in 1 .. m : i < j => r[j] \notin S
    BY <1>4 DEF Last
  <2>2. i + 1 \in 1 .. Len(q) /\ q[i + 1] \in S /\ q[i + 1] \in T
    BY <1>1, <2>1
  <2>3. \A j \in 1 .. Len(q) : i + 1 < j => q[j] \notin S
    BY <1>1, <1>2, <2>1
  <2> QED BY <2>2, <2>3 DEF Last
<1>5. ASSUME ~Some(r, S), q[1] \in S, q[1] \in T PROVE Last(q, S, T)
  <2>1. \A j \in 1 .. Len(q) : 1 < j => q[j] \notin S
    BY <1>1, <1>2, <1>5 DEF Some
  <2> QED BY <1>1, <1>5, <2>1 DEF Last
<1>6. ASSUME Last(q, S, T) PROVE Last(r, S, T) \/ (~Some(r, S) /\ q[1] \in S /\ q[1] \in T)
  <2>1. PICK i \in 1 .. Len(q) : /\ q[i] \in S /\ q[i] \in T
                                 /\ \A j \in 1 .. Len(q) : i < j => q[j] \notin S
    BY <1>6 DEF Last
  <2>2. \A k \in 1 .. m : i - 1 < k => r[k] \notin S
    <3> SUFFICES ASSUME NEW k \in 1 .. m, i - 1 < k PROVE r[k] \notin S
      OBVIOUS
    <3>1. k + 1 \in 1 .. Len(q) /\ i < k + 1
      BY <1>1, <2>1
    <3> QED BY <1>1, <2>1, <3>1
  <2>3. CASE i = 1
    BY <2>1, <2>2, <2>3 DEF Some
  <2>4. CASE i # 1
    <3>1. i - 1 \in 1 .. m /\ r[i - 1] = q[i]
      BY <1>2, <2>4
    <3> QED BY <2>1, <2>2, <3>1 DEF Last
  <2> QED BY <2>3, <2>4
<1> QED BY <1>1, <1>3, <1>4, <1>5, <1>6

LEMMA NoneLeft == ASSUME NEW S PROVE ~Some(<< >>, S)
BY DEF Some
----------------------------------------------------------------------------
(* The host reports.                                                       *)

\* What a report of c does to the calls that wait.
LEMMA Posted ==
  ASSUME IInv, NEW c \in Calls, Post(c), NEW S, NEW T
  PROVE  /\ Some(calls', S) <=> Some(calls, S) \/ c \in S
         /\ Last(calls', S, T) <=> IF c \in S THEN c \in T ELSE Last(calls, S, T)
<1>1. calls \in Seq(Calls) /\ calls' = Append(calls, c)
  BY DEF IInv, TypeOK, Post
<1> QED BY <1>1, Appended

LEMMA PostKeeps ==
  ASSUME NEW c, Post(c)
  PROVE  \A p \in Pointers : Future(p)' = Future(p) /\ (Stays(p)' <=> Stays(p))
BY DEF Post, Future, Stays, Handled, Down, Pressed

\* Pointers other than that of the report.
LEMMA PostOther ==
  ASSUME IInv, NEW c \in Calls, Post(c), NEW p \in Pointers, c.pointer # p,
         host'[p] = host[p], \A b \in Buttons : ButtonAgrees(p, b), DeviceAgrees(p)
  PROVE  (\A b \in Buttons : ButtonAgrees(p, b)') /\ DeviceAgrees(p)'
<1>1. HostButtons(p)' = HostButtons(p)
  BY DEF HostButtons
<1>2. c \notin On(p) /\ \A b : c \notin OnButton(p, b)
  BY DEF On, OnButton
<1>3. ASSUME NEW b \in Buttons PROVE ButtonAgrees(p, b)'
  <2>1. /\ Some(calls', OnButton(p, b)) <=> Some(calls, OnButton(p, b))
        /\ Last(calls', OnButton(p, b), Kind("down"))
             <=> Last(calls, OnButton(p, b), Kind("down"))
    BY <1>2, Posted
  <2> QED BY <1>1, <2>1, PostKeeps DEF ButtonAgrees
<1>4. DeviceAgrees(p)'
  <2>1. /\ Some(calls', On(p)) <=> Some(calls, On(p))
        /\ Last(calls', On(p), Kind("up")) <=> Last(calls, On(p), Kind("up"))
    BY <1>2, Posted
  <2> QED BY <1>1, <2>1, PostKeeps DEF DeviceAgrees
<1> QED BY <1>3, <1>4

\* The pointer of the report: its buttons are as before but for that of the report.
LEMMA PostOwn ==
  ASSUME IInv, NEW c \in Calls, Post(c), NEW p \in Pointers, c.pointer = p,
         \A b \in Buttons : ButtonAgrees(p, b),
         c.kind = "move" => HostButtons(p)' = HostButtons(p) /\ host'[p] # Absent,
         c.kind = "down" => HostButtons(p)' = HostButtons(p) \cup {c.button} /\ host'[p] # Absent,
         c.kind = "up" => /\ HostButtons(p)' = HostButtons(p) \ {c.button}
                          /\ host'[p] # Absent <=> HostButtons(p)' # {}
  PROVE  (\A b \in Buttons : ButtonAgrees(p, b)') /\ DeviceAgrees(p)'
<1>1. /\ c \in On(p) /\ c.kind \in {"down", "up", "move"}
      /\ c \in Kind("up") <=> c.kind = "up"
      /\ c \in Kind("down") <=> c.kind = "down"
      /\ \A b : c \in OnButton(p, b) <=> c.kind # "move" /\ b = c.button
  BY CallFacts DEF On, OnButton, Kind
<1>2. ASSUME NEW b \in Buttons PROVE ButtonAgrees(p, b)'
  <2>1. CASE c \in OnButton(p, b)
    <3>1. Some(calls', OnButton(p, b))
          /\ (Last(calls', OnButton(p, b), Kind("down")) <=> c \in Kind("down"))
      BY <2>1, Posted
    <3>2. b \in HostButtons(p)' <=> c.kind = "down"
      BY <1>1, <2>1
    <3> QED BY <1>1, <3>1, <3>2 DEF ButtonAgrees
  <2>2. CASE c \notin OnButton(p, b)
    <3>1. /\ Some(calls', OnButton(p, b)) <=> Some(calls, OnButton(p, b))
          /\ Last(calls', OnButton(p, b), Kind("down"))
               <=> Last(calls, OnButton(p, b), Kind("down"))
      BY <2>2, Posted
    <3>2. b \in HostButtons(p)' <=> b \in HostButtons(p)
      BY <1>1, <2>2
    <3> QED BY <3>1, <3>2, PostKeeps DEF ButtonAgrees
  <2> QED BY <2>1, <2>2
<1>3. DeviceAgrees(p)'
  <2>1. /\ Some(calls', On(p))
        /\ Last(calls', On(p), Kind("up")) <=> c.kind = "up"
    BY <1>1, Posted
  <2> QED BY <1>1, <2>1 DEF DeviceAgrees
<1> QED BY <1>2, <1>3

LEMMA HostReports == ASSUME IInv, ReportInv, Host PROVE ReportInv'
<1>1. /\ host \in [Pointers -> (SUBSET Buttons) \cup {Absent}]
      /\ \A bs \in SUBSET Buttons : bs # Absent
  BY InputAssumption DEF IInv, TypeOK
<1>2. ASSUME NEW c \in Calls, NEW p \in Pointers, Post(c), c.pointer = p,
             \A q \in Pointers : q # p => host'[q] = host[q],
             c.kind = "move" => HostButtons(p)' = HostButtons(p) /\ host'[p] # Absent,
             c.kind = "down" => HostButtons(p)' = HostButtons(p) \cup {c.button}
                                /\ host'[p] # Absent,
             c.kind = "up" => /\ HostButtons(p)' = HostButtons(p) \ {c.button}
                              /\ host'[p] # Absent <=> HostButtons(p)' # {}
      PROVE  ReportInv'
  <2>1. broken' = broken
    BY <1>2 DEF Post
  <2>2. ASSUME ~broken, NEW q \in Pointers
        PROVE  (\A b \in Buttons : ButtonAgrees(q, b)') /\ DeviceAgrees(q)'
    <3>1. (\A b \in Buttons : ButtonAgrees(q, b)) /\ DeviceAgrees(q)
      BY <2>2 DEF ReportInv
    <3>2. CASE q = p
      BY <1>2, <3>1, <3>2, PostOwn
    <3>3. CASE q # p
      BY <1>2, <3>1, <3>3, PostOther
    <3> QED BY <3>2, <3>3
  <2> QED BY <2>1, <2>2 DEF ReportInv
<1>3. ASSUME NEW p \in Pointers, NEW at \in Points, PointerMove(p, at) PROVE ReportInv'
  <2> DEFINE c == [kind |-> "move", pointer |-> p, at |-> at]
  <2>1. c \in Calls /\ c.pointer = p /\ c.kind = "move" /\ Post(c)
    BY <1>3 DEF Calls, PointerMove
  <2>2. /\ \A q \in Pointers : q # p => host'[q] = host[q]
        /\ HostButtons(p)' = HostButtons(p) /\ host'[p] # Absent
    BY <1>1, <1>3 DEF PointerMove, HostButtons
  <2> QED BY <1>2, <2>1, <2>2
<1>4. ASSUME NEW p \in Pointers, NEW at \in Points, NEW b \in Buttons, PointerDown(p, b, at)
      PROVE  ReportInv'
  <2> DEFINE c == [kind |-> "down", pointer |-> p, button |-> b, at |-> at]
  <2>1. c \in Calls /\ c.pointer = p /\ c.kind = "down" /\ c.button = b /\ Post(c)
    BY <1>4 DEF Calls, PointerDown
  <2>2. /\ \A q \in Pointers : q # p => host'[q] = host[q]
        /\ HostButtons(p)' = HostButtons(p) \cup {b} /\ host'[p] # Absent
    BY <1>1, <1>4 DEF PointerDown, HostButtons
  <2> QED BY <1>2, <2>1, <2>2
<1>5. ASSUME NEW p \in Pointers, NEW at \in Points, NEW b \in Buttons, PointerUp(p, b, at)
      PROVE  ReportInv'
  <2> DEFINE c == [kind |-> "up", pointer |-> p, button |-> b, at |-> at]
  <2>1. c \in Calls /\ c.pointer = p /\ c.kind = "up" /\ c.button = b /\ Post(c)
    BY <1>5 DEF Calls, PointerUp
  <2>2. /\ \A q \in Pointers : q # p => host'[q] = host[q]
        /\ host'[p] = IF HostButtons(p) \subseteq {b} THEN Absent ELSE host[p] \ {b}
    BY <1>1, <1>5 DEF PointerUp
  <2>3. /\ HostButtons(p)' = HostButtons(p) \ {b}
        /\ host'[p] # Absent <=> HostButtons(p)' # {}
    <3>1. HostButtons(p)' = IF host'[p] = Absent THEN {} ELSE host'[p]
      BY DEF HostButtons
    <3>2. CASE HostButtons(p) \subseteq {b}
      BY <2>2, <3>1, <3>2
    <3>3. CASE ~(HostButtons(p) \subseteq {b})
      <4>1. host[p] = HostButtons(p) /\ host[p] \in SUBSET Buttons
        BY <1>1, <3>3 DEF HostButtons
      <4>2. host'[p] = host[p] \ {b} /\ host'[p] # Absent
        BY <1>1, <2>2, <3>3, <4>1
      <4> QED BY <3>1, <3>3, <4>1, <4>2
    <3> QED BY <3>2, <3>3
  <2> QED BY <1>2, <2>1, <2>2, <2>3
<1> QED BY <1>3, <1>4, <1>5 DEF Host
----------------------------------------------------------------------------
(* The handlers.                                                           *)

Kept == \A p \in Pointers : Future(p)' = Future(p) /\ (Stays(p)' <=> Stays(p))

\* Pointers other than the one of the handler.
LEMMA OtherKept ==
  ASSUME NEW p \in Pointers, running # None, running.pointer # p, running' = running,
         inputs'[p] = inputs[p]
  PROVE  Future(p)' = Future(p) /\ (Stays(p)' <=> Stays(p))
BY DEF Future, Stays, Handled, Down, Pressed

\* What a step leaves of the waiting calls and of the host.
LEMMA KeptAgrees ==
  ASSUME ReportInv, Kept, UNCHANGED <<calls, host>>, broken' = broken
  PROVE  ReportInv'
<1>1. ASSUME ~broken, NEW p \in Pointers
      PROVE  (\A b \in Buttons : ButtonAgrees(p, b)') /\ DeviceAgrees(p)'
  <2>1. (\A b \in Buttons : ButtonAgrees(p, b)) /\ DeviceAgrees(p)
    BY <1>1 DEF ReportInv
  <2>2. HostButtons(p)' = HostButtons(p) /\ host'[p] = host[p]
    BY DEF HostButtons
  <2>3. \A b \in Buttons : ButtonAgrees(p, b)'
    BY <2>1, <2>2 DEF ButtonAgrees, Kept
  <2>4. DeviceAgrees(p)'
    BY <2>1, <2>2 DEF DeviceAgrees, Kept
  <2> QED BY <2>3, <2>4
<1> QED BY <1>1 DEF ReportInv

LEMMA DownNext ==
  ASSUME NEW p
  PROVE  Down(p)' = IF inputs'[p] = Absent THEN {} ELSE Pressed(inputs'[p])
BY DEF Down, Pressed

LEMMA ButtonsNext ==
  ASSUME \A p \in Pointers : inputs'[p] = Absent \/ OnlyButtons(inputs'[p])
  PROVE  ButtonsInv'
BY DEF ButtonsInv, OnlyButtons

\* A step that does not end the handler and leaves what is down as it was.
LEMMA GoesOn ==
  ASSUME NEW p \in Pointers, Handled(p), running' = running, todo' # << >>,
         Down(p)' = Down(p)
  PROVE  Future(p)' = Future(p) /\ (Stays(p)' <=> Stays(p))
<1>1. Handled(p)'
  BY DEF Handled
<1>2. Future(p)' = Future(p)
  BY <1>1 DEF Future
<1> QED BY <1>1, <1>2 DEF Stays

\* A new device has no inputs, and a device that is given inputs the same buttons.
LEMMA GrowKept ==
  ASSUME IInv, ReportInv, ButtonsInv, GetOrCreate \/ Resize
  PROVE  ReportInv' /\ ButtonsInv'
<1>1. /\ todo # << >> /\ event = None /\ running' = running /\ todo' = Tail(todo)
      /\ UNCHANGED <<calls, host, broken>>
      /\ GetOrCreate => Head(todo).op = "connect"
      /\ Resize => Head(todo).op = "size"
  BY DEF GetOrCreate, Resize, Step
<1>2. running # None /\ Tail(todo) # << >>
  <2>1. CASE GetOrCreate
    BY <1>1, <2>1, ConnectFacts DEF IInv, DownRest, UpRest, MoveRest
  <2>2. CASE Resize
    BY <1>1, <2>2, SizeFacts DEF IInv, DownRest, UpRest, MoveRest
  <2> QED BY <2>1, <2>2
<1>3. running.pointer \in Pointers /\ InputsOK /\ Typed(Device) /\ running \in Calls
  BY <1>2, CallFacts, InputsTyped DEF IInv, TypeOK, InputsOK, Device
<1>p. PICK p \in Pointers : p = running.pointer
  BY <1>3
<1>4. /\ Down(p)' = Down(p)
      /\ inputs'[p] = Absent \/ OnlyButtons(inputs'[p])
      /\ \A q \in Pointers : q # p => inputs'[q] = inputs[q]
  <2>0. Device = inputs[p]
    BY <1>p DEF Device
  <2>1. CASE GetOrCreate /\ Device = Absent
    <3> DEFINE d == [i \in {} |-> 0]
    <3>1. inputs' = [inputs EXCEPT ![p] = d]
      BY <2>1, <1>p DEF GetOrCreate
    <3>2. Typed(d) /\ DOMAIN d = {}
      <4>1. {} \in Domains
        BY DEF Domains
      <4>2. d \in [{} -> Nat]
        OBVIOUS
      <4> QED BY <4>1, <4>2 DEF Typed
    <3>3. inputs'[p] = d /\ \A q \in Pointers : q # p => inputs'[q] = inputs[q]
      BY <1>3, <3>1, <3>2, DeviceStep
    <3>4. Pressed(d) = {} /\ OnlyButtons(d)
      BY <3>2 DEF Pressed, OnlyButtons
    <3>5. Down(p) = {}
      BY <2>0, <2>1 DEF Down
    <3>6. Down(p)' = {}
      BY <3>3, <3>4, DownNext
    <3> QED BY <3>3, <3>4, <3>5, <3>6
  <2>2. CASE GetOrCreate /\ Device # Absent
    <3>1. inputs' = inputs
      BY <2>2 DEF GetOrCreate
    <3>2. Down(p)' = Down(p)
      BY <3>1, DownNext DEF Down
    <3>3. inputs[p] = Absent \/ OnlyButtons(inputs[p])
      BY DEF ButtonsInv
    <3> QED BY <3>1, <3>2, <3>3
  <2>3. CASE Resize
    <3> DEFINE i == Head(todo).input
               d == Sized(Device, i)
    <3>1. /\ Device # Absent
          /\ i \in Nat /\ (i = PointerY \/ \E b \in Buttons : i = PointerButton(b))
      BY <1>1, <1>3, <2>3, SizeFacts, CallFacts DEF IInv, PointerY
    <3>2. inputs' = [inputs EXCEPT ![p] = d]
      BY <2>3, <1>p DEF Resize, Device
    <3>3. Typed(d) /\ d # Absent /\ Pressed(d) = Pressed(Device)
      BY <1>3, <3>1, SizedFacts
    <3>4. inputs'[p] = d /\ \A q \in Pointers : q # p => inputs'[q] = inputs[q]
      BY <1>3, <3>2, <3>3, DeviceStep
    <3>5. OnlyButtons(d)
      <4>1. OnlyButtons(Device)
        BY <2>0, <3>1 DEF ButtonsInv
      <4>2. \A j \in DOMAIN d : d[j] = IF j \in DOMAIN Device THEN Device[j] ELSE 0
        BY DEF Sized
      <4> QED BY <4>1, <4>2 DEF OnlyButtons
    <3>6. Down(p) = Pressed(Device)
      BY <2>0, <3>1 DEF Down
    <3>7. Down(p)' = Pressed(d)
      BY <3>3, <3>4, DownNext
    <3> QED BY <3>3, <3>4, <3>5, <3>6, <3>7
  <2> QED BY <2>1, <2>2, <2>3
<1>5. Future(p)' = Future(p) /\ (Stays(p)' <=> Stays(p))
  <2>1. Handled(p) /\ todo' # << >>
    BY <1>1, <1>2, <1>p DEF Handled
  <2> QED BY <1>1, <1>4, <2>1, GoesOn
<1>6. Kept
  BY <1>1, <1>2, <1>p, <1>4, <1>5, OtherKept DEF Kept
<1>7. ButtonsInv'
  <2>1. \A q \in Pointers : inputs'[q] = Absent \/ OnlyButtons(inputs'[q])
    BY <1>4 DEF ButtonsInv
  <2> QED BY <2>1, ButtonsNext
<1> QED BY <1>1, <1>6, <1>7, KeptAgrees

\* What is set is the position, or the button the handler is about.
LEMMA SetKept ==
  ASSUME IInv, ReportInv, ButtonsInv, SetInput
  PROVE  ReportInv' /\ ButtonsInv'
<1> DEFINE s == Head(todo)
           b == running.button
<1>1. /\ todo # << >> /\ Head(todo).op = "set" /\ running' = running /\ todo' = Tail(todo)
      /\ UNCHANGED <<calls, host, broken>>
  BY DEF SetInput, Step
<1>2. running # None /\ SetPlace(running)
  BY <1>1, SetPlaces DEF IInv
<1>3. running.pointer \in Pointers /\ InputsOK /\ Typed(Device) /\ running \in Calls
  BY <1>2, CallFacts, InputsTyped DEF IInv, TypeOK, InputsOK, Device
<1>p. PICK p \in Pointers : p = running.pointer
  BY <1>3
<1>d. Device = inputs[p]
  BY <1>p DEF Device
<1>4. /\ Device # Absent /\ s.input \in DOMAIN Device /\ s.value \in Nat
      /\ \/ s.input \in {PointerX, PointerY}
         \/ running.kind # "move" /\ b \in Buttons /\ s.input = PointerButton(b)
  BY <1>2, <1>3, SetPlaceFacts
<1>5. \A q \in Pointers : q # p => inputs'[q] = inputs[q]
  BY <1>3, <1>p DEF SetInput, InputsOK
<1>6. /\ inputs'[p] # Absent /\ OnlyButtons(inputs'[p])
      /\ s.input \in {PointerX, PointerY} => Pressed(inputs'[p]) = Pressed(Device)
      /\ s.input = PointerButton(b) /\ b \in Buttons =>
           /\ Pressed(inputs'[p]) \ {b} = Pressed(Device) \ {b}
           /\ b \in Pressed(inputs'[p]) <=> s.value > 0
  <2>1. OnlyButtons(Device)
    BY <1>d, <1>4 DEF ButtonsInv
  <2>2. CASE Device[s.input] = s.value
    <3>1. inputs' = inputs
      BY <2>2 DEF SetInput
    <3>2. SetResult(Device, s.input, s.value)
      BY <1>3, <1>4, SetFacts
    <3> QED BY <1>4, <1>d, <2>1, <2>2, <3>1, <3>2 DEF SetResult
  <2>3. CASE Device[s.input] # s.value
    <3> DEFINE d == [Device EXCEPT ![s.input] = s.value]
    <3>1. inputs' = [inputs EXCEPT ![p] = d]
      BY <1>3, <1>p, <2>3 DEF SetInput, Device, InputsOK
    <3>2. SetResult(Device, s.input, s.value)
      BY <1>3, <1>4, SetFacts
    <3>3. inputs'[p] = d
      BY <1>3, <3>1 DEF InputsOK
    <3>4. OnlyButtons(d)
      BY <1>4, <2>1, <3>2 DEF OnlyButtons, SetResult
    <3>5. s.input = PointerButton(b) /\ b \in Buttons => (b \in Pressed(d) <=> s.value > 0)
      BY <1>4, <3>2 DEF SetResult, Pressed
    <3> QED BY <3>2, <3>3, <3>4, <3>5 DEF SetResult
  <2> QED BY <2>2, <2>3
<1>7. Down(p) = Pressed(Device) /\ Down(p)' = Pressed(inputs'[p]) /\ Handled(p)
  <2>1. Down(p) = Pressed(Device)
    BY <1>4, <1>d DEF Down
  <2>2. Down(p)' = Pressed(inputs'[p])
    BY <1>6, DownNext
  <2> QED BY <1>1, <1>2, <1>p, <2>1, <2>2 DEF Handled
<1>8. \/ running.kind = "down" /\ s.value = 1 /\ s.input = PointerButton(b)
      \/ running.kind = "up" /\ s.value = 0 /\ s.input = PointerButton(b) /\ Tail(todo) # << >>
      \/ s.input \in {PointerX, PointerY} /\ Tail(todo) # << >>
      \/ s.input \in {PointerX, PointerY} /\ running.kind = "move"
  <2> DEFINE at == running.at
             i == PointerButton(b)
  <2>1. /\ DownRest(running, 3) # << >> /\ DownRest(running, 4) # << >>
        /\ UpRest(running, 3) # << >> /\ UpRest(running, 4) # << >> /\ UpRest(running, 5) # << >>
        /\ MoveRest(running, 3) # << >>
    BY DEF DownRest, UpRest, MoveRest
  <2>2. \A j, v : /\ Set(j, v).input = j /\ Set(j, v).value = v
                  /\ SetSilent(j, v).input = j
    BY DEF Set, SetSilent
  <2>3. \/ running.kind = "down" /\ s = Set(i, 1)
        \/ running.kind = "up" /\ s = Set(i, 0) /\ Tail(todo) # << >>
        \/ s = SetSilent(PointerX, at[1]) /\ Tail(todo) # << >>
        \/ s = SetSilent(PointerY, at[2]) /\ Tail(todo) # << >>
        \/ s = Set(PointerX, at[1]) /\ Tail(todo) # << >>
        \/ s = Set(PointerY, at[2]) /\ (Tail(todo) # << >> \/ running.kind = "move")
    BY <1>2, <2>1 DEF SetPlace
  <2> QED BY <2>2, <2>3
<1>9. b \in Buttons \/ running.kind = "move"
  BY <1>3, CallFacts
<1>10. Future(p)' = Future(p) /\ (Stays(p)' <=> Stays(p))
  <2>1. running.pointer = p /\ running # None /\ inputs'[p] # Absent
    BY <1>2, <1>6, <1>p
  <2>2. CASE running.kind = "down" /\ s.value = 1 /\ s.input = PointerButton(b)
    <3>1. Down(p)' = Down(p) \cup {b} /\ b \in Down(p)'
      BY <1>6, <1>7, <1>9, <2>2
    <3>2. Future(p)' = Future(p)
      BY <1>1, <1>7, <2>2, <3>1 DEF Future
    <3>3. Stays(p) /\ Stays(p)'
      BY <1>1, <1>7, <2>1, <2>2 DEF Stays
    <3> QED BY <3>2, <3>3
  <2>3. CASE running.kind = "up" /\ s.value = 0 /\ s.input = PointerButton(b) /\ Tail(todo) # << >>
    <3>1. Down(p)' \ {b} = Down(p) \ {b}
      BY <1>6, <1>7, <1>9, <2>3
    <3>2. Handled(p)'
      BY <1>1, <2>1, <2>3 DEF Handled
    <3>3. Future(p)' = Future(p)
      BY <1>1, <1>7, <2>3, <3>1, <3>2 DEF Future
    <3> QED BY <1>1, <1>7, <2>3, <3>2, <3>3 DEF Stays
  <2>4. CASE s.input \in {PointerX, PointerY} /\ Tail(todo) # << >>
    BY <1>1, <1>6, <1>7, <2>4, GoesOn
  <2>5. CASE s.input \in {PointerX, PointerY} /\ running.kind = "move"
    <3>1. Down(p)' = Down(p)
      BY <1>6, <1>7, <2>5
    <3>2. Future(p)' = Future(p)
      BY <1>1, <2>5, <3>1 DEF Future
    <3>3. Stays(p) /\ Stays(p)'
      BY <1>1, <1>4, <1>d, <2>1, <2>5 DEF Stays
    <3> QED BY <3>2, <3>3
  <2> QED BY <1>8, <2>2, <2>3, <2>4, <2>5
<1>11. Kept
  BY <1>1, <1>2, <1>p, <1>5, <1>10, OtherKept DEF Kept
<1>12. ButtonsInv'
  <2>1. \A q \in Pointers : inputs'[q] = Absent \/ OnlyButtons(inputs'[q])
    BY <1>5, <1>6 DEF ButtonsInv
  <2> QED BY <2>1, ButtonsNext
<1> QED BY <1>1, <1>11, <1>12, KeptAgrees

\* The device goes when none of its buttons is down, and stays when one is.
LEMMA ReleaseKept ==
  ASSUME IInv, ReportInv, ButtonsInv, ReleaseDevice
  PROVE  ReportInv' /\ ButtonsInv'
<1> DEFINE b == running.button
           held == \E i \in DOMAIN Device : i \notin {PointerX, PointerY} /\ Device[i] > 0
<1>1. /\ todo # << >> /\ Head(todo).op = "release" /\ event = None
      /\ running' = running /\ todo' = Tail(todo)
      /\ UNCHANGED <<calls, host, broken>>
  BY DEF ReleaseDevice, Step
<1>2. running # None /\ running.kind = "up" /\ Tail(todo) = << >> /\ Device # Absent
  BY <1>1, ReleaseFacts DEF IInv
<1>3. running.pointer \in Pointers /\ InputsOK /\ Typed(Device) /\ running \in Calls
  BY <1>2, CallFacts, InputsTyped DEF IInv, TypeOK, InputsOK, Device
<1>p. PICK p \in Pointers : p = running.pointer
  BY <1>3
<1>d. Device = inputs[p]
  BY <1>p DEF Device
<1>4. b \notin Pressed(Device)
  <2>1. UpFacts(running) /\ UpInv(running)
    BY <1>2, Rests DEF IInv, HandlerInv, Underway
  <2>2. Changed(PointerButton(b), 0)
    BY <1>1, <2>1 DEF UpInv, UpFacts
  <2> QED BY <2>2 DEF Changed, Pressed
<1>5. Down(p) = Pressed(Device) /\ Handled(p) /\ ~Handled(p)'
  BY <1>1, <1>2, <1>p, <1>d DEF Down, Handled
<1>6. Future(p) = Down(p) /\ (Stays(p) <=> Down(p) # {})
  <2>1. Future(p) = Down(p) \ {b}
    BY <1>2, <1>5 DEF Future
  <2>2. Future(p) = Down(p)
    BY <1>4, <1>5, <2>1
  <2> QED BY <1>2, <1>5, <2>2 DEF Stays
<1>7. Future(p)' = Down(p)' /\ (Stays(p)' <=> inputs'[p] # Absent)
  BY <1>5 DEF Future, Stays
<1>8. /\ Down(p)' = Down(p) /\ (inputs'[p] # Absent <=> Down(p) # {})
      /\ inputs'[p] = Absent \/ OnlyButtons(inputs'[p])
      /\ \A q \in Pointers : q # p => inputs'[q] = inputs[q]
  <2>1. CASE held
    <3>1. inputs' = inputs
      BY <2>1 DEF ReleaseDevice
    <3>2. OnlyButtons(Device)
      BY <1>2, <1>d DEF ButtonsInv
    <3>3. PICK i \in DOMAIN Device : i \notin {PointerX, PointerY} /\ Device[i] > 0
      BY <2>1
    <3>4. PICK a \in Buttons : i = PointerButton(a)
      BY <3>2, <3>3 DEF OnlyButtons
    <3>5. a \in Pressed(Device)
      BY <3>3, <3>4 DEF Pressed
    <3>6. Down(p)' = Pressed(Device)
      BY <1>2, <1>d, <3>1, DownNext
    <3> QED BY <1>2, <1>5, <1>d, <3>1, <3>2, <3>5, <3>6
  <2>2. CASE ~held
    <3>1. inputs' = [inputs EXCEPT ![p] = Absent]
      BY <1>p, <2>2 DEF ReleaseDevice
    <3>2. inputs'[p] = Absent /\ \A q \in Pointers : q # p => inputs'[q] = inputs[q]
      BY <1>3, <3>1 DEF InputsOK
    <3>3. Pressed(Device) = {}
      BY <2>2, ButtonFacts DEF Pressed
    <3>4. Down(p)' = {}
      BY <3>2, DownNext
    <3> QED BY <1>5, <3>2, <3>3, <3>4
  <2> QED BY <2>1, <2>2
<1>9. Future(p)' = Future(p) /\ (Stays(p)' <=> Stays(p))
  BY <1>6, <1>7, <1>8
<1>10. Kept
  BY <1>1, <1>2, <1>p, <1>8, <1>9, OtherKept DEF Kept
<1>11. ButtonsInv'
  <2>1. \A q \in Pointers : inputs'[q] = Absent \/ OnlyButtons(inputs'[q])
    BY <1>8 DEF ButtonsInv
  <2> QED BY <2>1, ButtonsNext
<1> QED BY <1>1, <1>10, <1>11, KeptAgrees

\* A handler that has nothing left to do returns.
LEMMA ReturnKept == ASSUME ReportInv, ButtonsInv, Return PROVE ReportInv' /\ ButtonsInv'
<1>1. /\ todo = << >> /\ todo' = << >>
      /\ UNCHANGED <<inputs, calls, broken, host>>
  BY DEF Return
<1>2. Kept
  BY <1>1 DEF Kept, Future, Stays, Handled, Down, Pressed
<1>3. ButtonsInv'
  BY <1>1 DEF ButtonsInv, OnlyButtons
<1> QED BY <1>1, <1>2, <1>3, KeptAgrees

\* JavaScript changes neither the devices nor the calls.
LEMMA QuietKept ==
  ASSUME ReportInv, ButtonsInv, UNCHANGED <<inputs, calls, running, todo, broken, host>>
  PROVE  ReportInv' /\ ButtonsInv'
<1>1. Kept
  BY DEF Kept, Future, Stays, Handled, Down, Pressed
<1>2. ButtonsInv'
  BY DEF ButtonsInv, OnlyButtons
<1> QED BY <1>1, <1>2, KeptAgrees

\* Nothing is promised once a callback has thrown.
LEMMA BrokenKept ==
  ASSUME ButtonsInv, inputs' = inputs, broken' PROVE ReportInv' /\ ButtonsInv'
BY DEF ReportInv, ButtonsInv, OnlyButtons
----------------------------------------------------------------------------
(* The next call is taken: what it was to decide, its handler decides.     *)

LEMMA LastSome == ASSUME NEW q, NEW S, NEW T, Last(q, S, T) PROVE Some(q, S)
BY DEF Last, Some

LEMMA BeginKept ==
  ASSUME IInv, ReportInv, ButtonsInv, Begin
  PROVE  ReportInv' /\ ButtonsInv'
<1> DEFINE c == Head(calls)
<1>1. /\ running = None /\ calls # << >> /\ ~broken
      /\ running' = c /\ calls' = Tail(calls)
      /\ UNCHANGED <<inputs, broken, host>>
  BY DEF Begin
<1>2. calls \in Seq(Calls) /\ c \in Calls
  BY <1>1 DEF IInv, TypeOK
<1>3. c # None /\ c.kind \in {"down", "up", "move"} /\ (c.kind # "move" => c.button \in Buttons)
  BY <1>2, CallFacts
<1>4. todo' # << >>
  <2>1. DownSteps(c) # << >> /\ UpSteps(c) # << >> /\ MoveSteps(c) # << >>
    BY DEF DownSteps, UpSteps, MoveSteps
  <2> QED BY <2>1 DEF Begin
<1>5. \A S, T :
        /\ Some(calls, S) <=> Some(Tail(calls), S) \/ c \in S
        /\ Last(calls, S, T) <=> \/ Last(Tail(calls), S, T)
                                 \/ ~Some(Tail(calls), S) /\ c \in S /\ c \in T
  BY <1>1, <1>2, Taken
<1>6. \A p \in Pointers : /\ Future(p) = Down(p) /\ (Stays(p) <=> inputs[p] # Absent)
                          /\ Handled(p)' <=> c.pointer = p
  BY <1>1, <1>3, <1>4 DEF Future, Stays, Handled
<1>7. \A p : Down(p)' = Down(p) /\ HostButtons(p)' = HostButtons(p)
  BY <1>1 DEF Down, Pressed, HostButtons
<1>8. /\ c \in Kind("up") <=> c.kind = "up"
      /\ c \in Kind("down") <=> c.kind = "down"
      /\ \A p : c \in On(p) <=> c.pointer = p
      /\ \A p, b : c \in OnButton(p, b) <=> c.kind # "move" /\ c.pointer = p /\ c.button = b
  BY <1>2 DEF Kind, On, OnButton
<1>9. ASSUME NEW p \in Pointers
      PROVE  (\A b \in Buttons : ButtonAgrees(p, b)') /\ DeviceAgrees(p)'
  <2>1. (\A b \in Buttons : ButtonAgrees(p, b)) /\ DeviceAgrees(p)
    BY <1>1 DEF ReportInv
  <2>2. Future(p)' = IF c.pointer = p /\ c.kind = "down" THEN Down(p) \cup {c.button}
                     ELSE IF c.pointer = p /\ c.kind = "up" THEN Down(p) \ {c.button}
                     ELSE Down(p)
    BY <1>1, <1>6, <1>7 DEF Future
  <2>3. ASSUME NEW b \in Buttons PROVE ButtonAgrees(p, b)'
    <3> DEFINE S == OnButton(p, b)
    <3>1. b \in HostButtons(p) <=> IF Some(calls, S) THEN Last(calls, S, Kind("down"))
                                   ELSE b \in Down(p)
      BY <1>6, <2>1 DEF ButtonAgrees
    <3>2. b \in HostButtons(p) <=> IF Some(calls', S) THEN Last(calls', S, Kind("down"))
                                   ELSE b \in Future(p)'
      <4>1. CASE Some(Tail(calls), S)
        BY <1>1, <1>5, <3>1, <4>1
      <4>2. CASE ~Some(Tail(calls), S) /\ c \in S
        <5>1. ~Last(Tail(calls), S, Kind("down"))
          BY <4>2, LastSome
        <5>2. b \in HostButtons(p) <=> c.kind = "down"
          BY <1>5, <1>8, <3>1, <4>2, <5>1
        <5>3. b \in Future(p)' <=> c.kind = "down"
          BY <1>3, <1>8, <2>2, <4>2
        <5> QED BY <1>1, <4>2, <5>2, <5>3
      <4>3. CASE ~Some(Tail(calls), S) /\ c \notin S
        <5>1. b \in HostButtons(p) <=> b \in Down(p)
          BY <1>5, <3>1, <4>3
        <5>2. b \in Future(p)' <=> b \in Down(p)
          BY <1>3, <1>8, <2>2, <4>3
        <5> QED BY <1>1, <4>3, <5>1, <5>2
      <4> QED BY <4>1, <4>2, <4>3
    <3> QED BY <1>7, <3>2 DEF ButtonAgrees
  <2>4. DeviceAgrees(p)'
    <3>1. host[p] # Absent <=> IF Some(calls, On(p))
                                 THEN Last(calls, On(p), Kind("up")) => HostButtons(p) # {}
                                 ELSE inputs[p] # Absent
      BY <1>6, <2>1 DEF DeviceAgrees
    <3>2. CASE Some(Tail(calls), On(p))
      BY <1>1, <1>5, <1>7, <3>1, <3>2 DEF DeviceAgrees
    <3>3. CASE ~Some(Tail(calls), On(p)) /\ c.pointer # p
      <4>1. ~Some(calls, On(p)) /\ ~Some(calls', On(p))
        BY <1>1, <1>5, <1>8, <3>3
      <4>2. Stays(p)' <=> inputs[p] # Absent
        BY <1>1, <1>6, <3>3 DEF Stays
      <4> QED BY <1>1, <3>1, <4>1, <4>2 DEF DeviceAgrees
    <3>4. CASE ~Some(Tail(calls), On(p)) /\ c.pointer = p
      <4>1. ~Last(Tail(calls), On(p), Kind("up"))
        BY <3>4, LastSome
      <4>2. host[p] # Absent <=> (c.kind = "up" => HostButtons(p) # {})
        BY <1>5, <1>8, <3>1, <3>4, <4>1
      <4>3. Stays(p)' <=> (c.kind = "up" => Future(p)' # {})
        BY <1>1, <1>6, <3>4 DEF Stays
      <4>4. HostButtons(p) = Future(p)'
        <5>1. \A b \in Buttons : b \in HostButtons(p) <=> b \in Future(p)'
          <6> SUFFICES ASSUME NEW b \in Buttons
                       PROVE  b \in HostButtons(p) <=> b \in Future(p)'
            OBVIOUS
          <6>1. ~Some(calls', OnButton(p, b))
            BY <1>1, <3>4 DEF Some, On, OnButton
          <6>2. ButtonAgrees(p, b)'
            BY <2>3
          <6> QED BY <1>7, <6>1, <6>2 DEF ButtonAgrees
        <5>2. HostButtons(p) \subseteq Buttons
          BY DEF HostButtons, IInv, TypeOK
        <5>3. Future(p)' \subseteq Buttons
          BY <1>3, <2>2 DEF Down, Pressed
        <5> QED BY <5>1, <5>2, <5>3
      <4>5. ~Some(calls', On(p)) /\ host'[p] = host[p]
        BY <1>1, <3>4
      <4> QED BY <4>2, <4>3, <4>4, <4>5 DEF DeviceAgrees
    <3> QED BY <3>2, <3>3, <3>4
  <2> QED BY <2>3, <2>4
<1>10. ReportInv'
  BY <1>9 DEF ReportInv
<1>11. ButtonsInv'
  BY <1>1 DEF ButtonsInv, OnlyButtons
<1> QED BY <1>10, <1>11
----------------------------------------------------------------------------
(* The theorem.                                                            *)

LEMMA InitReport == Init => ReportInv /\ ButtonsInv
<1> SUFFICES ASSUME Init PROVE ReportInv /\ ButtonsInv
  OBVIOUS
<1>1. /\ calls = << >> /\ running = None
      /\ \A p \in Pointers : inputs[p] = Absent /\ host[p] = Absent
  BY DEF Init
<1>2. \A p \in Pointers : /\ HostButtons(p) = {} /\ Down(p) = {} /\ Future(p) = {}
                          /\ ~Stays(p)
  BY <1>1 DEF HostButtons, Down, Future, Stays, Handled
<1>3. \A S : ~Some(calls, S)
  BY <1>1, NoneLeft
<1> QED BY <1>1, <1>2, <1>3 DEF ReportInv, ButtonsInv, ButtonAgrees, DeviceAgrees

LEMMA NextReport ==
  IInv /\ ReportInv /\ ButtonsInv /\ [Next]_vars => ReportInv' /\ ButtonsInv'
<1> SUFFICES ASSUME IInv, ReportInv, ButtonsInv, [Next]_vars PROVE ReportInv' /\ ButtonsInv'
  OBVIOUS
<1>1. CASE Host
  <2>1. inputs' = inputs
    BY <1>1 DEF Host, PointerMove, PointerDown, PointerUp, Post
  <2>2. ButtonsInv'
    BY <2>1 DEF ButtonsInv, OnlyButtons
  <2> QED BY <1>1, <2>2, HostReports
<1>2. CASE Begin
  BY <1>2, BeginKept
<1>3. CASE Return
  BY <1>3, ReturnKept
<1>4. CASE GetOrCreate \/ Resize
  BY <1>4, GrowKept
<1>5. CASE SetInput
  BY <1>5, SetKept
<1>6. CASE ReleaseDevice
  BY <1>6, ReleaseKept
<1>7. CASE Skip
  BY <1>7, BrokenKept DEF Skip
<1>8. ASSUME NEW s \in Systems, TellThrows(s) PROVE ReportInv' /\ ButtonsInv'
  BY <1>8, BrokenKept DEF TellThrows
<1>9. ASSUME NEW s \in Systems, Tell(s) \/ Create(s) \/ Dispose(s)
      PROVE  ReportInv' /\ ButtonsInv'
  BY <1>9, QuietKept DEF Tell, Told, Create, Dispose
<1>10. CASE UNCHANGED vars
  BY <1>10, QuietKept DEF vars
<1> QED BY <1>1, <1>2, <1>3, <1>4, <1>5, <1>6, <1>7, <1>8, <1>9, <1>10
        DEF Next, Handler, JavaScript

LEMMA ReportsAgree == IInv /\ ReportInv => HostAgrees
<1> SUFFICES ASSUME IInv, ReportInv, running = None, calls = << >>, ~broken, NEW p \in Pointers
             PROVE  /\ host[p] = IF inputs[p] = Absent THEN Absent ELSE Pressed(inputs[p])
                    /\ \A s \in Live : \/ seen[s][p] = host[p]
                                       \/ seen[s][p] = Older /\ host[p] # Absent
  BY DEF HostAgrees
<1>1. /\ Future(p) = Down(p) /\ (Stays(p) <=> inputs[p] # Absent)
      /\ \A S : ~Some(calls, S)
  BY NoneLeft DEF Future, Stays, Handled
<1>2. /\ \A b \in Buttons : b \in HostButtons(p) <=> b \in Down(p)
      /\ host[p] # Absent <=> inputs[p] # Absent
  BY <1>1 DEF ReportInv, ButtonAgrees, DeviceAgrees
<1>3. HostButtons(p) \subseteq Buttons /\ Down(p) \subseteq Buttons
  BY DEF HostButtons, Down, Pressed, IInv, TypeOK
<1>4. host[p] = View(p)
  BY <1>2, <1>3 DEF HostButtons, Down, View
<1>5. event = None
  BY DEF IInv, HandlerInv, Underway
<1>6. \A s \in Live : Agree(s, p)
  BY <1>5, AllAgree
<1> QED BY <1>2, <1>4, <1>6 DEF Agree, View

(* Once every call has been handled, the devices, the buttons that are down  *)
(* and what the systems have been told are what the host has reported, in    *)
(* the order of its calls (NativeInput.cpp:58).                              *)
THEOREM HostAgreesHolds == Spec => []HostAgrees
<1>1. IInv /\ ReportInv /\ ButtonsInv /\ IInv' /\ [Next]_vars => ReportInv' /\ ButtonsInv'
  BY NextReport
<1> QED BY Invariant, InitReport, <1>1, ReportsAgree, PTL DEF Spec
=============================================================================
