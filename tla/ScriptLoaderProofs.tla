------------------------- MODULE ScriptLoaderProofs -------------------------
(***************************************************************************)
(* Proofs about ScriptLoader, for any number of scripts and sources.       *)
(***************************************************************************)
EXTENDS ScriptLoader, TLAPS

\* The items that are past the continuation that m_task holds for them.
Dispatched(i) == stage[i] \notin {"new", "chained"}

\* Tickets number the items in the order of the calls.
TicketInv ==
  /\ \A i \in Items : stage[i] = "new" <=> ticket[i] = 0
  /\ \A i \in Items : ticket[i] <= issued
  /\ \A i, j \in Items : ticket[i] = ticket[j] /\ ticket[i] > 0 => i = j

\* m_task is the task of the last call, and every item continues the one before.
ChainInv ==
  /\ IF last = None THEN issued = 0 ELSE ticket[last] = issued /\ issued > 0
  /\ \A i \in Items :
       stage[i] # "new" => IF pred[i] = None THEN ticket[i] = 1
                           ELSE ticket[i] = ticket[pred[i]] + 1 /\ ticket[pred[i]] > 0

\* What is dispatched has its text, and all items before it are complete.
OrderInv ==
  \A i \in Items : Dispatched(i) =>
     /\ fetch[i] # "pending"
     /\ \A j \in Items : 0 < ticket[j] /\ ticket[j] < ticket[i] => stage[j] = "complete"

\* The JavaScript thread evaluates one item at a time.
OneInv == \A i, j \in Items : stage[i] = "evaluating" /\ stage[j] = "evaluating" => i = j

IInv == TypeOK /\ TicketInv /\ ChainInv /\ OrderInv /\ OneInv
----------------------------------------------------------------------------
\* The invariant holds initially: no call has been made.
LEMMA InitInv == Init => IInv
<1> SUFFICES ASSUME Init PROVE IInv
  OBVIOUS
<1> USE DEF Init
<1>1. TypeOK
  BY ScriptLoaderAssumption DEF TypeOK, Stages, Items
<1>2. TicketInv /\ ChainInv
  BY DEF TicketInv, ChainInv
<1>3. OrderInv /\ OneInv
  BY DEF OrderInv, Dispatched, OneInv
<1>4. QED
  BY <1>1, <1>2, <1>3 DEF IInv

\* A call: the item is new, and becomes the end of the chain.
CallStep(i) == /\ Chain(i)
               /\ Continue([stage EXCEPT ![i] = "chained"], fetch', pred')
               /\ fetch' = IF i \in Scripts THEN [fetch EXCEPT ![i] = "pending"] ELSE fetch
               /\ UNCHANGED broken

\* Every step is of one of a few kinds.
LEMMA StepKinds ==
  ASSUME TypeOK, [Next]_vars
  PROVE  \/ \E i \in Items : CallStep(i)
         \/ \E i \in Items, r \in {"ok", "failed"} : Answer(i, r)
         \/ \E i \in Items : JsEval(i) \/ JsReturn(i) \/ JsThrow(i) \/ JsSkip(i)
         \/ UNCHANGED <<stage, fetch, pred, last, ticket, issued>> /\ broken' \in BOOLEAN
  BY ScriptLoaderAssumption DEF TypeOK, Next, Calls, Requests, JavaScript, LoadScript, Eval, CallStep, Items,
         OtherThrow, Quiet, vars

\* Every step keeps the types.
LEMMA TypeStep == TypeOK /\ [Next]_vars => TypeOK'
<1> SUFFICES ASSUME TypeOK, [Next]_vars PROVE TypeOK'
  OBVIOUS
<1> USE DEF TypeOK
<1>1. ASSUME NEW i \in Items, CallStep(i) PROVE TypeOK'
  <2>1. stage' \in [Items -> Stages]
    BY <1>1 DEF Continue, Released, CallStep, Stages
  <2>2. fetch' \in [Items -> {"none", "pending", "ok", "failed"}]
    BY <1>1 DEF CallStep
  <2>3. last' \in Items \cup {None} /\ pred' \in [Items -> Items \cup {None}]
    BY <1>1 DEF CallStep, Chain
  <2>4. ticket' \in [Items -> Nat] /\ issued' \in Nat
    BY <1>1 DEF CallStep, Chain
  <2>5. \A j \in Items : fetch'[j] = "none" <=> j \in Sources \/ stage'[j] = "new"
    BY <1>1, ScriptLoaderAssumption DEF CallStep, Chain, Continue, Released, Items
  <2>6. QED
    BY <1>1, <2>1, <2>2, <2>3, <2>4, <2>5 DEF CallStep
<1>2. ASSUME NEW i \in Items, NEW r \in {"ok", "failed"}, Answer(i, r) PROVE TypeOK'
  <2>1. stage' \in [Items -> Stages]
    BY <1>2 DEF Continue, Released, Answer, Stages
  <2>2. \A j \in Items : stage'[j] = "new" <=> stage[j] = "new"
    BY <1>2 DEF Continue, Released, Answer
  <2>3. QED
    BY <1>2, <2>1, <2>2 DEF Answer
<1>3. ASSUME NEW i \in Items, JsReturn(i) PROVE TypeOK'
  <2>1. stage' \in [Items -> Stages]
    BY <1>3 DEF Continue, Released, JsReturn, Stages, Over
  <2>2. \A j \in Items : stage'[j] = "new" <=> stage[j] = "new"
    BY <1>3 DEF Continue, Released, JsReturn
  <2>3. QED
    BY <1>3, <2>1, <2>2 DEF JsReturn
<1>4. ASSUME NEW i \in Items, JsEval(i) \/ JsThrow(i) \/ JsSkip(i) PROVE TypeOK'
  BY <1>4 DEF JsEval, JsThrow, JsSkip, Stages, Over
<1>5. CASE UNCHANGED <<stage, fetch, pred, last, ticket, issued>> /\ broken' \in BOOLEAN
  BY <1>5
<1>6. QED
  BY <1>1, <1>2, <1>3, <1>4, <1>5, StepKinds

\* Every step keeps the numbers and the chain of the calls.
LEMMA ChainStep == IInv /\ [Next]_vars => TicketInv' /\ ChainInv'
<1> SUFFICES ASSUME IInv, [Next]_vars PROVE TicketInv' /\ ChainInv'
  OBVIOUS
<1>0. TypeOK /\ TypeOK'
  BY TypeStep DEF IInv
<1>1. ASSUME NEW i \in Items, CallStep(i) PROVE TicketInv' /\ ChainInv'
  <2>2. /\ \A k \in Items \ {i} : stage'[k] = "new" <=> stage[k] = "new"
        /\ stage'[i] # "new"
    BY <1>0, <1>1 DEF Continue, Released, CallStep, TypeOK
  <2>3. TicketInv'
    BY <1>0, <1>1, <2>2 DEF CallStep, Chain, TypeOK, IInv, TicketInv
  <2>4. IF last' = None THEN issued' = 0 ELSE ticket'[last'] = issued' /\ issued' > 0
    BY <1>0, <1>1, ScriptLoaderAssumption DEF CallStep, Chain, TypeOK, Items
  <2>5. ASSUME NEW k \in Items, stage'[k] # "new"
        PROVE  IF pred'[k] = None THEN ticket'[k] = 1
               ELSE ticket'[k] = ticket'[pred'[k]] + 1 /\ ticket'[pred'[k]] > 0
    <3>1. CASE k = i
      <4>1. pred'[k] = last /\ ticket'[k] = issued + 1
        BY <1>0, <1>1, <3>1 DEF CallStep, Chain, TypeOK
      <4>2. CASE last = None
        BY <4>1, <4>2 DEF IInv, ChainInv
      <4>3. CASE last # None
        <5>1. last \in Items /\ ticket[last] = issued /\ issued > 0 /\ ticket[i] = 0
          BY <1>0, <1>1, <4>3 DEF IInv, ChainInv, TicketInv, TypeOK, CallStep, Chain
        <5>2. ticket'[last] = issued
          BY <1>0, <1>1, <5>1 DEF TypeOK, CallStep, Chain
        <5>3. QED
          BY <4>1, <4>3, <5>1, <5>2
      <4>4. QED
        BY <4>2, <4>3
    <3>2. CASE k # i
      <4>1. stage[k] # "new" /\ pred'[k] = pred[k] /\ ticket'[k] = ticket[k]
        BY <1>0, <1>1, <2>2, <2>5, <3>2 DEF CallStep, Chain, TypeOK
      <4>2. pred[k] # None => /\ pred[k] \in Items
                              /\ pred[k] # i
        BY <1>0, <1>1, <4>1 DEF IInv, ChainInv, TicketInv, TypeOK, CallStep, Chain
      <4>3. pred[k] # None => ticket'[pred[k]] = ticket[pred[k]]
        BY <1>0, <1>1, <4>2 DEF CallStep, Chain, TypeOK
      <4>4. QED
        BY <4>1, <4>3 DEF IInv, ChainInv
    <3>3. QED
      BY <3>1, <3>2
  <2>6. QED
    BY <2>3, <2>4, <2>5 DEF ChainInv
<1>2. ASSUME UNCHANGED <<pred, last, ticket, issued>>,
             \A k \in Items : stage'[k] = "new" <=> stage[k] = "new"
      PROVE  TicketInv' /\ ChainInv'
  BY <1>0, <1>2 DEF IInv, TicketInv, ChainInv, TypeOK
<1>3. ASSUME NEW i \in Items, NEW r \in {"ok", "failed"}, Answer(i, r)
      PROVE  TicketInv' /\ ChainInv'
  <2>1. \A k \in Items : stage'[k] = "new" <=> stage[k] = "new"
    BY <1>0, <1>3 DEF Continue, Released, Answer, TypeOK
  <2>2. QED
    BY <1>2, <1>3, <2>1 DEF Answer
<1>4. ASSUME NEW i \in Items, JsReturn(i) PROVE TicketInv' /\ ChainInv'
  <2>1. \A k \in Items : stage'[k] = "new" <=> stage[k] = "new"
    BY <1>0, <1>4 DEF Continue, Released, JsReturn, TypeOK
  <2>2. QED
    BY <1>2, <1>4, <2>1 DEF JsReturn
<1>5. ASSUME NEW i \in Items, JsEval(i) \/ JsThrow(i) \/ JsSkip(i)
      PROVE  TicketInv' /\ ChainInv'
  BY <1>0, <1>2, <1>5 DEF JsEval, JsThrow, JsSkip, TypeOK
<1>6. CASE UNCHANGED <<stage, fetch, pred, last, ticket, issued>>
  BY <1>2, <1>6
<1>7. QED
  BY <1>0, <1>1, <1>3, <1>4, <1>5, <1>6, StepKinds

(* What no step does: undo a completion or an evaluation, take back a call,  *)
(* ask again for a text that was there, or release an item out of its turn.  *)
Progress ==
  \A k \in Items :
    /\ stage[k] = "complete" => stage'[k] = "complete"
    /\ stage'[k] = "complete" => Dispatched(k)
    /\ ticket'[k] = ticket[k] \/ (stage[k] = "new" /\ ticket'[k] = issued + 1)
    /\ Dispatched(k) => fetch'[k] = fetch[k] \/ fetch'[k] # "pending"
    /\ Dispatched(k)' => \/ Dispatched(k)
                         \/ /\ fetch'[k] # "pending" /\ stage'[k] # "new"
                            /\ pred'[k] = None \/ stage'[pred'[k]] = "complete"

LEMMA StepProgress == IInv /\ [Next]_vars => Progress
<1> SUFFICES ASSUME IInv, [Next]_vars PROVE Progress
  OBVIOUS
<1>0. TypeOK
  BY DEF IInv
<1> USE <1>0 DEF Progress, Dispatched, TypeOK
<1>1. ASSUME NEW i \in Items, CallStep(i) PROVE Progress
  BY <1>1, ScriptLoaderAssumption DEF CallStep, Chain, Continue, Released
<1>2. ASSUME NEW i \in Items, NEW r \in {"ok", "failed"}, Answer(i, r) PROVE Progress
  BY <1>2 DEF Answer, Continue, Released
<1>3. ASSUME NEW i \in Items, JsReturn(i) PROVE Progress
  BY <1>3 DEF JsReturn, Continue, Released
<1>4. ASSUME NEW i \in Items, JsEval(i) \/ JsThrow(i) \/ JsSkip(i) PROVE Progress
  BY <1>4 DEF JsEval, JsThrow, JsSkip
<1>5. CASE UNCHANGED <<stage, fetch, pred, last, ticket, issued>>
  BY <1>5
<1>6. QED
  BY <1>1, <1>2, <1>3, <1>4, <1>5, StepKinds

\* An item that is dispatched has only complete ones before it, after a step too.
LEMMA OrderStep == IInv /\ [Next]_vars => OrderInv'
<1> SUFFICES ASSUME IInv, [Next]_vars, NEW k \in Items, Dispatched(k)'
             PROVE  /\ fetch'[k] # "pending"
                    /\ \A j \in Items : 0 < ticket'[j] /\ ticket'[j] < ticket'[k]
                                         => stage'[j] = "complete"
  BY DEF OrderInv
<1>0. TypeOK /\ TypeOK' /\ TicketInv /\ TicketInv' /\ ChainInv' /\ OrderInv /\ Progress
  BY TypeStep, ChainStep, StepProgress DEF IInv
<1>1. ASSUME NEW i \in Items, Dispatched(i), NEW j \in Items,
             0 < ticket'[j], ticket'[j] < ticket[i]
      PROVE  stage'[j] = "complete"
  <2>1. ticket'[j] = ticket[j]
    <3>1. ticket[i] <= issued /\ ticket[i] \in Nat /\ issued \in Nat
      BY <1>0 DEF TypeOK, TicketInv
    <3>2. QED
      BY <1>0, <1>1, <3>1 DEF Progress
  <2>2. stage[j] = "complete"
    BY <1>0, <1>1, <2>1 DEF OrderInv
  <2>3. QED
    BY <1>0, <2>2 DEF Progress
<1>2. CASE Dispatched(k)
  <2>1. fetch'[k] # "pending"
    BY <1>0, <1>2 DEF Progress, OrderInv
  <2>2. ticket'[k] = ticket[k]
    BY <1>0, <1>2 DEF Progress, Dispatched
  <2>3. QED
    BY <1>1, <1>2, <2>1, <2>2
<1>3. CASE ~Dispatched(k)
  <2>1. /\ fetch'[k] # "pending" /\ stage'[k] # "new"
        /\ pred'[k] = None \/ stage'[pred'[k]] = "complete"
    BY <1>0, <1>3 DEF Progress
  <2>2. CASE pred'[k] = None
    <3>1. ticket'[k] = 1
      BY <1>0, <2>1, <2>2 DEF ChainInv
    <3>2. \A j \in Items : ticket'[j] \in Nat
      BY <1>0 DEF TypeOK
    <3>3. QED
      BY <2>1, <3>1, <3>2
  <2>3. CASE pred'[k] # None
    <3> DEFINE p == pred'[k]
    <3>1. p \in Items /\ stage'[p] = "complete"
      BY <1>0, <2>1, <2>3 DEF TypeOK
    <3>2. Dispatched(p) /\ ticket'[p] = ticket[p]
      BY <1>0, <3>1 DEF Progress, Dispatched
    <3>3. ticket'[k] = ticket'[p] + 1 /\ ticket'[p] > 0
      BY <1>0, <2>1, <2>3 DEF ChainInv
    <3>4. ASSUME NEW j \in Items, 0 < ticket'[j], ticket'[j] < ticket'[k]
          PROVE  stage'[j] = "complete"
      <4>1. ticket'[j] \in Nat /\ ticket'[p] \in Nat
        BY <1>0, <3>1 DEF TypeOK
      <4>2. CASE ticket'[j] = ticket'[p]
        <5>1. j = p
          BY <1>0, <3>1, <3>4, <4>2 DEF TicketInv
        <5>2. QED
          BY <3>1, <5>1
      <4>3. CASE ticket'[j] < ticket'[p]
        BY <1>1, <3>1, <3>2, <3>4, <4>3
      <4>4. QED
        BY <3>3, <3>4, <4>1, <4>2, <4>3
    <3>5. QED
      BY <2>1, <3>4
  <2>4. QED
    BY <2>2, <2>3
<1>4. QED
  BY <1>2, <1>3

\* JsEval waits for the JavaScript thread to be idle.
LEMMA OneStep == IInv /\ [Next]_vars => OneInv'
<1> SUFFICES ASSUME IInv, [Next]_vars PROVE OneInv'
  OBVIOUS
<1>0. TypeOK /\ OneInv
  BY DEF IInv
<1> USE <1>0 DEF OneInv, TypeOK
<1>1. ASSUME \A i \in Items : stage'[i] = "evaluating" => stage[i] = "evaluating"
      PROVE  OneInv'
  BY <1>1
<1>2. ASSUME NEW i \in Items, JsEval(i) PROVE OneInv'
  BY <1>2 DEF JsEval, JsIdle
<1>3. ASSUME NEW i \in Items, CallStep(i) \/ JsReturn(i) \/ JsThrow(i) \/ JsSkip(i)
      PROVE  OneInv'
  BY <1>1, <1>3 DEF CallStep, JsReturn, JsThrow, JsSkip, Continue, Released
<1>4. ASSUME NEW i \in Items, NEW r \in {"ok", "failed"}, Answer(i, r) PROVE OneInv'
  BY <1>1, <1>4 DEF Answer, Continue, Released
<1>5. CASE UNCHANGED stage
  BY <1>5
<1>6. QED
  BY <1>2, <1>3, <1>4, <1>5, StepKinds

(* The inductive invariant: the chain of calls numbers the items, and the    *)
(* items that are past the chain have only complete ones before them.        *)
THEOREM Invariance == Spec => []IInv
<1>1. IInv /\ [Next]_vars => IInv'
  BY TypeStep, ChainStep, OrderStep, OneStep DEF IInv
<1>2. QED
  BY InitInv, <1>1, PTL DEF Spec
----------------------------------------------------------------------------
\* The variables keep their types, for any scripts and sources.
THEOREM TypeCorrect == Spec => []TypeOK
<1>1. IInv => TypeOK
  BY DEF IInv
<1>2. QED
  BY Invariance, <1>1, PTL

(* No script is dispatched to be evaluated before its request is over, in    *)
(* whatever order the requests of any number of scripts end.                 *)
THEOREM TextArrivedAlways == Spec => []TextArrived
<1>1. IInv => TextArrived
  BY DEF IInv, OrderInv, TextArrived, Dispatched, Over
<1>2. QED
  BY Invariance, <1>1, PTL

(* Nothing that was handed to the loader after an item that threw, or that   *)
(* was skipped, gets past the chain.                                         *)
THEOREM ThrowHaltsAlways == Spec => []ThrowHalts
<1>1. IInv => ThrowHalts
  <2> SUFFICES ASSUME IInv, NEW i \in Items, NEW j \in Items,
                      stage[i] \in {"threw", "skipped"}, ticket[i] < ticket[j]
               PROVE  stage[j] = "chained"
    BY DEF ThrowHalts
  <2>1. ticket[i] > 0 /\ ticket[i] \in Nat /\ ticket[j] \in Nat
    BY DEF IInv, TypeOK, TicketInv
  <2>2. ~Dispatched(j)
    BY <2>1 DEF IInv, OrderInv
  <2>3. stage[j] # "new"
    BY <2>1 DEF IInv, TicketInv
  <2>4. QED
    BY <2>2, <2>3 DEF Dispatched
<1>2. QED
  BY Invariance, <1>1, PTL
----------------------------------------------------------------------------
phases == [i \in Items |-> ItemPhase(i)]

\* Before an item that is dispatched all items are over.
LEMMA DispatchedIsNext ==
  ASSUME IInv, NEW i \in Items, Dispatched(i)
  PROVE  Order!EarlierOver(i)
<1> SUFFICES ASSUME NEW j \in Items, 0 < ticket[j], ticket[j] < ticket[i]
             PROVE  phases[j] = "over"
  BY DEF Order!EarlierOver, phases
<1>1. stage[j] = "complete"
  BY DEF IInv, OrderInv
<1>2. QED
  BY <1>1 DEF phases, ItemPhase

(* The loader implements the contract of a dispatch queue: items are taken   *)
(* in the order of the calls of LoadScript and Eval, each begins when the    *)
(* one before has fully completed, and none is evaluated twice.              *)
THEOREM Implementation == Spec => EvaluatesInOrder
<1>1. Init => Order!Init
  BY DEF Init, Order!Init, ItemPhase
<1>2. IInv /\ IInv' /\ [Next]_vars => [Order!Next]_(Order!contractVars)
  <2> SUFFICES ASSUME IInv, IInv', [Next]_vars
               PROVE  Order!Next \/ UNCHANGED <<phases, ticket, issued>>
    BY DEF Order!contractVars, phases
  <2>0. TypeOK /\ TypeOK'
    BY DEF IInv
  <2>1. ASSUME NEW i \in Items, CallStep(i) PROVE Order!Dispatch(i)
    <3>1. phases[i] = "new" /\ phases' = [phases EXCEPT ![i] = "pending"]
      BY <2>0, <2>1 DEF CallStep, Chain, Continue, Released, phases, ItemPhase, TypeOK
    <3>2. QED
      BY <2>1, <3>1 DEF CallStep, Chain, Order!Dispatch, phases
  <2>2. ASSUME NEW i \in Items, NEW r \in {"ok", "failed"}, Answer(i, r)
        PROVE  UNCHANGED <<phases, ticket, issued>>
    BY <2>0, <2>2 DEF Answer, Continue, Released, phases, ItemPhase, TypeOK
  <2>3. ASSUME NEW i \in Items, JsEval(i) PROVE Order!Start(i)
    <3>1. /\ phases[i] = "pending"
          /\ \A j \in Items : phases[j] # "running"
          /\ phases' = [phases EXCEPT ![i] = "running"]
      BY <2>0, <2>3 DEF JsEval, JsIdle, phases, ItemPhase, TypeOK
    <3>2. Order!EarlierOver(i)
      BY <2>3, DispatchedIsNext DEF JsEval, Dispatched
    <3>3. QED
      BY <2>3, <3>1, <3>2 DEF JsEval, Order!Start, phases
  <2>4. ASSUME NEW i \in Items, JsReturn(i) \/ JsThrow(i) PROVE Order!Finish(i)
    <3>1. phases[i] = "running" /\ phases' = [phases EXCEPT ![i] = "over"]
      <4>1. stage \in [Items -> Stages]
        BY <2>0 DEF TypeOK
      <4>2. CASE JsReturn(i)
        BY <4>1, <4>2 DEF JsReturn, Continue, Released, phases, ItemPhase
      <4>3. CASE JsThrow(i)
        BY <4>1, <4>3 DEF JsThrow, phases, ItemPhase
      <4>4. QED
        BY <2>4, <4>2, <4>3
    <3>2. QED
      BY <2>4, <3>1 DEF JsReturn, JsThrow, Order!Finish, phases
  <2>5. ASSUME NEW i \in Items, JsSkip(i) PROVE Order!Discard(i)
    <3>1. phases[i] = "pending" /\ phases' = [phases EXCEPT ![i] = "over"]
      BY <2>0, <2>5 DEF JsSkip, phases, ItemPhase, TypeOK
    <3>2. Order!EarlierOver(i)
      BY <2>5, DispatchedIsNext DEF JsSkip, Dispatched
    <3>3. QED
      BY <2>5, <3>1, <3>2 DEF JsSkip, Order!Discard, phases
  <2>6. CASE UNCHANGED <<stage, fetch, pred, last, ticket, issued>>
    BY <2>6 DEF phases, ItemPhase
  <2>7. QED
    BY <2>0, <2>1, <2>2, <2>3, <2>4, <2>5, <2>6, StepKinds DEF Order!Next
<1>3. QED
  BY <1>1, <1>2, Invariance, PTL DEF Spec, EvaluatesInOrder, Order!Spec
----------------------------------------------------------------------------
(* No item is forgotten: the part of EventuallyEvaluated that does not       *)
(* depend on scheduling.                                                     *)

\* Every number up to the number of the calls is the ticket of an item.
CountInv == \A n \in 1 .. issued : \E i \in Items : ticket[i] = n

\* The items that are past the chain are the first ones.
PrefixInv == \E k \in 0 .. issued :
                \A i \in Items : Dispatched(i) <=> 0 < ticket[i] /\ ticket[i] <= k

\* No continuation that could run has yet to, and nothing throws unnoticed.
ReleasedInv == /\ Released(stage, fetch, pred) = {}
               /\ \A i \in Items : stage[i] \in {"threw", "skipped"} => broken

KeptInv == CountInv /\ PrefixInv /\ ReleasedInv

(* What a chained item waits for: a request or an evaluation, its own or one *)
(* of an item before it, unless something threw.                             *)
Forgotten(i) ==
  /\ stage[i] = "chained" /\ ~broken
  /\ \A j \in Items : ticket[j] <= ticket[i] =>
        fetch[j] # "pending" /\ stage[j] \notin {"dispatched", "evaluating"}

LEMMA KeptInit == Init => KeptInv
<1> SUFFICES ASSUME Init PROVE KeptInv
  OBVIOUS
<1>1. issued = 0 /\ \A i \in Items : stage[i] = "new" /\ ticket[i] = 0
  BY DEF Init
<1>2. CountInv /\ ReleasedInv
  BY <1>1 DEF CountInv, ReleasedInv, Released
<1>3. PrefixInv
  <2>1. 0 \in 0 .. issued /\ \A i \in Items : Dispatched(i) <=> 0 < ticket[i] /\ ticket[i] <= 0
    BY <1>1 DEF Dispatched
  <2>2. QED
    BY <2>1 DEF PrefixInv
<1>4. QED
  BY <1>2, <1>3 DEF KeptInv

\* The continuations that could run have run.
LEMMA ContinueReleases ==
  ASSUME NEW stg \in [Items -> Stages], NEW ftch, NEW prd \in [Items -> Items \cup {None}],
         Continue(stg, ftch, prd)
  PROVE  Released(stage', ftch, prd) = {}
<1> SUFFICES ASSUME NEW i \in Items, stage'[i] = "chained", ftch[i] # "pending",
                    prd[i] = None \/ stage'[prd[i]] = "complete"
             PROVE  FALSE
  BY DEF Released
<1>1. \A k \in Items : stage'[k] = IF k \in Released(stg, ftch, prd) THEN "dispatched" ELSE stg[k]
  BY DEF Continue
<1>2. stg[i] = "chained" /\ i \notin Released(stg, ftch, prd)
  BY <1>1
<1>3. prd[i] # None => prd[i] \in Items
  OBVIOUS
<1>4. prd[i] = None \/ stg[prd[i]] = "complete"
  BY <1>1, <1>3
<1>5. QED
  BY <1>2, <1>4 DEF Released

LEMMA ReleasedStep == IInv /\ ReleasedInv /\ [Next]_vars => ReleasedInv'
<1> SUFFICES ASSUME IInv, ReleasedInv, [Next]_vars PROVE ReleasedInv'
  OBVIOUS
<1>0. TypeOK /\ TypeOK'
  BY TypeStep DEF IInv
<1>1. ASSUME NEW stg \in [Items -> Stages], Continue(stg, fetch', pred'), broken' = broken,
             \A k \in Items : stg[k] \in {"threw", "skipped"} => stage[k] = stg[k]
      PROVE  ReleasedInv'
  <2>1. Released(stage', fetch', pred') = {}
    BY <1>0, <1>1, ContinueReleases DEF TypeOK
  <2>2. \A k \in Items : stage'[k] \in {"threw", "skipped"} => stage[k] = stage'[k]
    BY <1>1 DEF Continue
  <2>3. QED
    BY <1>1, <2>1, <2>2 DEF ReleasedInv
<1>2. ASSUME NEW i \in Items, CallStep(i) PROVE ReleasedInv'
  <2> DEFINE stg == [stage EXCEPT ![i] = "chained"]
  <2>1. stg \in [Items -> Stages] /\ Continue(stg, fetch', pred') /\ broken' = broken
    BY <1>0, <1>2 DEF CallStep, TypeOK, Stages
  <2>2. \A k \in Items : stg[k] \in {"threw", "skipped"} => stage[k] = stg[k]
    BY <1>0 DEF TypeOK
  <2>3. QED
    BY <1>1, <2>1, <2>2
<1>3. ASSUME NEW i \in Items, NEW r \in {"ok", "failed"}, Answer(i, r) PROVE ReleasedInv'
  <2>1. stage \in [Items -> Stages] /\ Continue(stage, fetch', pred') /\ broken' = broken
    BY <1>0, <1>3 DEF Answer, TypeOK, Continue
  <2>2. QED
    BY <1>1, <2>1
<1>4. ASSUME NEW i \in Items, JsReturn(i) PROVE ReleasedInv'
  <2> DEFINE stg == [stage EXCEPT ![i] = "complete"]
  <2>1. stg \in [Items -> Stages] /\ Continue(stg, fetch', pred') /\ broken' = broken
    BY <1>0, <1>4 DEF JsReturn, TypeOK, Stages, Over, Continue
  <2>2. \A k \in Items : stg[k] \in {"threw", "skipped"} => stage[k] = stg[k]
    BY <1>0 DEF TypeOK
  <2>3. QED
    BY <1>1, <2>1, <2>2
<1>5. ASSUME UNCHANGED <<fetch, pred>>, broken => broken',
             \A k \in Items : /\ stage'[k] = "chained" <=> stage[k] = "chained"
                              /\ stage'[k] = "complete" <=> stage[k] = "complete"
                              /\ stage'[k] \in {"threw", "skipped"} =>
                                   broken' \/ stage[k] \in {"threw", "skipped"}
      PROVE  ReleasedInv'
  <2>1. \A k \in Items : pred[k] = None \/ pred[k] \in Items
    BY <1>0 DEF TypeOK
  <2>2. Released(stage', fetch', pred') = {}
    BY <1>5, <2>1 DEF ReleasedInv, Released
  <2>3. QED
    BY <1>5, <2>2 DEF ReleasedInv
<1>6. ASSUME NEW i \in Items, JsEval(i) \/ JsThrow(i) \/ JsSkip(i) PROVE ReleasedInv'
  BY <1>0, <1>5, <1>6 DEF JsEval, JsThrow, JsSkip, TypeOK
<1>7. CASE UNCHANGED <<stage, fetch, pred, last, ticket, issued>>
  <2>1. broken => broken'
    BY DEF Next, Calls, Requests, JavaScript, LoadScript, Eval, Answer, JsEval, JsReturn,
           JsThrow, JsSkip, OtherThrow, Quiet, vars
  <2>2. QED
    BY <1>5, <1>7, <2>1 DEF ReleasedInv
<1>8. QED
  BY <1>0, <1>2, <1>3, <1>4, <1>6, <1>7, StepKinds

LEMMA CountStep == IInv /\ CountInv /\ [Next]_vars => CountInv'
<1> SUFFICES ASSUME IInv, CountInv, [Next]_vars, NEW n \in 1 .. issued'
             PROVE  \E k \in Items : ticket'[k] = n
  BY DEF CountInv
<1>0. TypeOK /\ TicketInv
  BY DEF IInv
<1>1. ASSUME NEW i \in Items, CallStep(i) PROVE \E k \in Items : ticket'[k] = n
  <2>1. /\ issued' = issued + 1 /\ ticket[i] = 0 /\ issued \in Nat
        /\ \A k \in Items : ticket'[k] = IF k = i THEN issued + 1 ELSE ticket[k]
    BY <1>0, <1>1 DEF CallStep, Chain, TypeOK, TicketInv
  <2>2. CASE n = issued + 1
    BY <2>1, <2>2
  <2>3. CASE n # issued + 1
    <3>1. PICK k \in Items : ticket[k] = n
      BY <2>1, <2>3 DEF CountInv
    <3>2. QED
      BY <2>1, <3>1
  <2>4. QED
    BY <2>2, <2>3
<1>2. CASE UNCHANGED <<ticket, issued>>
  BY <1>2 DEF CountInv
<1>3. QED
  BY <1>0, <1>1, <1>2, StepKinds DEF Answer, JsEval, JsReturn, JsThrow, JsSkip

\* What is past the chain stays past it.
LEMMA StaysDispatched ==
  ASSUME TypeOK, [Next]_vars, NEW k \in Items, Dispatched(k)
  PROVE  Dispatched(k)'
<1> USE DEF Dispatched, TypeOK
<1>1. ASSUME NEW i \in Items, CallStep(i) PROVE Dispatched(k)'
  BY <1>1 DEF CallStep, Chain, Continue
<1>2. ASSUME NEW i \in Items, NEW r \in {"ok", "failed"}, Answer(i, r) PROVE Dispatched(k)'
  BY <1>2 DEF Answer, Continue
<1>3. ASSUME NEW i \in Items, JsEval(i) \/ JsReturn(i) \/ JsThrow(i) \/ JsSkip(i)
      PROVE  Dispatched(k)'
  BY <1>3 DEF JsEval, JsReturn, JsThrow, JsSkip, Continue
<1>4. CASE UNCHANGED stage
  BY <1>4
<1>5. QED
  BY <1>1, <1>2, <1>3, <1>4, StepKinds

LEMMA PrefixStep == IInv /\ PrefixInv /\ [Next]_vars => PrefixInv'
<1> SUFFICES ASSUME IInv, PrefixInv, [Next]_vars PROVE PrefixInv'
  OBVIOUS
<1>0. /\ TypeOK /\ TypeOK' /\ TicketInv /\ TicketInv' /\ ChainInv' /\ Progress
      /\ issued \in Nat /\ issued' \in Nat
      /\ \A i \in Items : ticket[i] \in Nat /\ ticket'[i] \in Nat
  BY TypeStep, ChainStep, StepProgress DEF IInv, TypeOK
<1>1. PICK k \in 0 .. issued :
        \A i \in Items : Dispatched(i) <=> 0 < ticket[i] /\ ticket[i] <= k
  BY DEF PrefixInv
<1>2. k \in Nat /\ k <= issued /\ issued <= issued'
  <2>1. issued' = issued \/ issued' = issued + 1
    BY <1>0, StepKinds DEF CallStep, Chain, Answer, JsEval, JsReturn, JsThrow, JsSkip
  <2>2. QED
    BY <1>0, <1>1, <2>1
\* The old prefix: a call gets a number beyond it.
<1>3. ASSUME NEW i \in Items
      PROVE  /\ Dispatched(i) => Dispatched(i)' /\ ticket'[i] = ticket[i]
             /\ 0 < ticket'[i] /\ ticket'[i] <= k => Dispatched(i)
  <2>1. ticket'[i] = ticket[i] \/ (stage[i] = "new" /\ ticket'[i] = issued + 1)
    BY <1>0 DEF Progress
  <2>2. QED
    BY <1>0, <1>1, <1>2, <2>1, StaysDispatched DEF Dispatched
\* What joins it is the item with the next number.
<1>4. ASSUME NEW i \in Items, ~Dispatched(i), Dispatched(i)' PROVE ticket'[i] = k + 1
  <2>1. stage'[i] # "new" /\ (pred'[i] = None \/ stage'[pred'[i]] = "complete")
    BY <1>0, <1>4 DEF Progress
  <2>2. ticket'[i] > 0 /\ ~(ticket'[i] <= k)
    <3>1. ticket'[i] # 0
      BY <1>0, <2>1 DEF TicketInv
    <3>2. QED
      BY <1>0, <1>3, <1>4, <3>1
  <2>3. CASE pred'[i] = None
    <3>1. ticket'[i] = 1
      BY <1>0, <2>1, <2>3 DEF ChainInv
    <3>2. QED
      BY <1>2, <2>2, <3>1
  <2>4. CASE pred'[i] # None
    <3> DEFINE p == pred'[i]
    <3>1. p \in Items /\ stage'[p] = "complete"
      BY <1>0, <2>1, <2>4 DEF TypeOK
    <3>2. Dispatched(p)
      BY <1>0, <3>1 DEF Progress
    <3>3. ticket'[p] <= k /\ ticket'[p] \in Nat
      BY <1>0, <1>1, <1>3, <3>1, <3>2
    <3>4. ticket'[i] = ticket'[p] + 1
      BY <1>0, <2>1, <2>4 DEF ChainInv
    <3>5. QED
      BY <1>0, <1>2, <2>2, <3>3, <3>4
  <2>5. QED
    BY <2>3, <2>4
<1>5. CASE \E j \in Items : ~Dispatched(j) /\ Dispatched(j)'
  <2>1. PICK j \in Items : ~Dispatched(j) /\ Dispatched(j)'
    BY <1>5
  <2>2. ticket'[j] = k + 1 /\ ticket'[j] <= issued'
    BY <1>0, <1>4, <2>1 DEF TicketInv
  <2>3. ASSUME NEW i \in Items
        PROVE  Dispatched(i)' <=> 0 < ticket'[i] /\ ticket'[i] <= k + 1
    <3>1. CASE ticket'[i] = k + 1
      <4>1. i = j
        BY <1>0, <1>2, <2>2, <3>1 DEF TicketInv
      <4>2. QED
        BY <1>2, <2>1, <3>1, <4>1
    <3>2. CASE ticket'[i] # k + 1
      <4>1. 0 < ticket'[i] /\ ticket'[i] <= k + 1 => Dispatched(i)'
        BY <1>0, <1>2, <1>3, <3>2
      <4>2. Dispatched(i)' => Dispatched(i)
        BY <1>4, <3>2
      <4>3. Dispatched(i) => 0 < ticket'[i] /\ ticket'[i] <= k + 1
        BY <1>0, <1>1, <1>2, <1>3
      <4>4. QED
        BY <4>1, <4>2, <4>3
    <3>3. QED
      BY <3>1, <3>2
  <2>4. k + 1 \in 0 .. issued'
    BY <1>0, <1>2, <2>2
  <2>5. QED
    BY <2>3, <2>4 DEF PrefixInv
<1>6. CASE \A j \in Items : Dispatched(j)' => Dispatched(j)
  <2>1. ASSUME NEW i \in Items PROVE Dispatched(i)' <=> 0 < ticket'[i] /\ ticket'[i] <= k
    BY <1>1, <1>3, <1>6
  <2>2. k \in 0 .. issued'
    BY <1>0, <1>2
  <2>3. QED
    BY <2>1, <2>2 DEF PrefixInv
<1>7. QED
  BY <1>5, <1>6

LEMMA KeptHolds == Spec => []KeptInv
<1>1. IInv /\ KeptInv /\ [Next]_vars => KeptInv'
  BY CountStep, PrefixStep, ReleasedStep DEF KeptInv
<1>2. QED
  BY KeptInit, <1>1, Invariance, PTL DEF Spec

(* A script waits only for a request or an evaluation that is under way, its *)
(* own or one of a call before it, unless something dispatched threw: in     *)
(* whatever order requests and evaluations end, each item's continuation is  *)
(* run by the last of the two it waits for (ScriptLoader.cpp:17-41).         *)
THEOREM NoneForgotten == Spec => [](\A i \in Items : ~Forgotten(i))
<1>1. IInv /\ KeptInv => \A i \in Items : ~Forgotten(i)
  <2> SUFFICES ASSUME IInv, KeptInv, NEW i \in Items, Forgotten(i) PROVE FALSE
    OBVIOUS
  <2>0. /\ TypeOK /\ TicketInv /\ ChainInv /\ issued \in Nat
        /\ \A j \in Items : ticket[j] \in Nat
    BY DEF IInv, TypeOK
  <2>1. PICK k \in 0 .. issued :
          \A j \in Items : Dispatched(j) <=> 0 < ticket[j] /\ ticket[j] <= k
    BY DEF KeptInv, PrefixInv
  <2>2. ~Dispatched(i) /\ 0 < ticket[i] /\ ticket[i] <= issued
    BY <2>0 DEF Forgotten, Dispatched, TicketInv
  <2>3. k + 1 \in 1 .. issued /\ k + 1 <= ticket[i] /\ k \in Nat
    BY <2>0, <2>1, <2>2
  <2>4. PICK j \in Items : ticket[j] = k + 1
    BY <2>3 DEF KeptInv, CountInv
  <2>5. stage[j] = "chained" /\ fetch[j] # "pending"
    BY <2>0, <2>1, <2>3, <2>4 DEF Forgotten, Dispatched, TicketInv
  <2>6. pred[j] # None /\ pred[j] \in Items /\ stage[pred[j]] # "complete"
    BY <2>0, <2>5 DEF KeptInv, ReleasedInv, Released, TypeOK
  <2>7. ticket[pred[j]] = k /\ Dispatched(pred[j])
    BY <2>0, <2>1, <2>3, <2>4, <2>5, <2>6 DEF ChainInv
  <2>8. stage[pred[j]] \in {"threw", "skipped"}
    BY <2>0, <2>3, <2>6, <2>7 DEF Forgotten, Dispatched, TypeOK, Stages, Over
  <2>9. QED
    BY <2>6, <2>8 DEF KeptInv, ReleasedInv, Forgotten
<1>2. QED
  BY Invariance, KeptHolds, <1>1, PTL
=============================================================================
