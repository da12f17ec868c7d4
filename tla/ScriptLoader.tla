---------------------------- MODULE ScriptLoader ----------------------------
(***************************************************************************)
(* Babylon::ScriptLoader (Core/ScriptLoader/Source/ScriptLoader.cpp): the  *)
(* scripts of an application are fetched at the same time, in any order,   *)
(* and evaluated one after the other, in the order of the calls.           *)
(*                                                                         *)
(* m_task is the tail of a chain.  The continuation of an item runs on the *)
(* thread that completes the last of what it waits for (the item before it *)
(* and its own request); it dispatches the evaluation to the JavaScript    *)
(* thread, and the item is complete when the evaluation has returned.      *)
(***************************************************************************)
EXTENDS Naturals

CONSTANTS Scripts,          \* items given to LoadScript
          Sources,          \* items given to Eval
          None              \* no item: a completed task

Items == Scripts \cup Sources

ASSUME ScriptLoaderAssumption == Scripts \cap Sources = {} /\ None \notin Items

VARIABLES
  stage,        \* stage[i]: how far the item has come
  fetch,        \* fetch[i]: the request of the item
  pred,         \* pred[i]: the item whose task it continues
  last,         \* m_task
  broken,       \* a callable has thrown: the work queue skips all later ones
  ticket,       \* history: the place of the item in the order of the calls
  issued        \* history: the number of calls

vars == <<stage, fetch, pred, last, broken, ticket, issued>>

Stages == {"new", "chained", "dispatched", "evaluating", "complete", "threw", "skipped"}
Over   == {"complete", "threw", "skipped"}

\* Mutant of Released: the continuation waits for the item before it only.
ReleasedUnfetched(stg, ftch, prd) ==
  {i \in Items : stg[i] = "chained" /\ (prd[i] = None \/ stg[prd[i]] = "complete")}

\* Mutant of Released: an item whose evaluation threw counts as complete.
ReleasedAfterThrow(stg, ftch, prd) ==
  {i \in Items : /\ stg[i] = "chained"
                 /\ ftch[i] # "pending"
                 /\ prd[i] = None \/ stg[prd[i]] \in {"complete", "threw"}}

(* The items whose continuation runs: the item before is complete, and the   *)
(* request is over.  A request that failed releases the item as well: its    *)
(* continuation takes the result unseen (auto) and evaluates what there is.  *)
Released(stg, ftch, prd) ==
  {i \in Items : /\ stg[i] = "chained"
                 /\ ftch[i] # "pending"
                 /\ prd[i] = None \/ stg[prd[i]] = "complete"}

\* The continuations run on the spot and dispatch their evaluations.
Continue(stg, ftch, prd) ==
  stage' = [i \in Items |-> IF i \in Released(stg, ftch, prd) THEN "dispatched" ELSE stg[i]]
----------------------------------------------------------------------------
Init == /\ stage = [i \in Items |-> "new"]
        /\ fetch = [i \in Items |-> "none"]
        /\ pred = [i \in Items |-> None]
        /\ last = None
        /\ broken = FALSE
        /\ ticket = [i \in Items |-> 0] /\ issued = 0

\* m_task becomes the task of i.
Chain(i) == /\ stage[i] = "new"
            /\ pred' = [pred EXCEPT ![i] = last]
            /\ last' = i
            /\ ticket' = [ticket EXCEPT ![i] = issued + 1]
            /\ issued' = issued + 1

\* Mutant of LoadScript: the request is opened and never sent.
LoadScriptUnsent(i) ==
  /\ Chain(i)
  /\ Continue([stage EXCEPT ![i] = "chained"], fetch, pred')
  /\ UNCHANGED <<fetch, broken>>

\* LoadScript: send the request, and chain its evaluation to m_task.
LoadScript(i) ==
  /\ Chain(i)
  /\ fetch' = [fetch EXCEPT ![i] = "pending"]
  /\ Continue([stage EXCEPT ![i] = "chained"], fetch', pred')
  /\ UNCHANGED broken

\* Mutant of Eval: the source is dispatched without regard for m_task.
EvalAtOnce(i) ==
  /\ Chain(i)
  /\ stage' = [stage EXCEPT ![i] = "dispatched"]
  /\ UNCHANGED <<fetch, broken>>

\* Eval: chain the evaluation to m_task.
Eval(i) ==
  /\ Chain(i)
  /\ Continue([stage EXCEPT ![i] = "chained"], fetch, pred')
  /\ UNCHANGED <<fetch, broken>>

\* Mutant of Answer: the end of the request runs no continuation.
AnswerUnnoticed(i, result) ==
  /\ fetch[i] = "pending"
  /\ fetch' = [fetch EXCEPT ![i] = result]
  /\ UNCHANGED <<stage, pred, last, broken, ticket, issued>>

\* The request is over, on a thread of its own.
Answer(i, result) ==
  /\ fetch[i] = "pending"
  /\ fetch' = [fetch EXCEPT ![i] = result]
  /\ Continue(stage, fetch', pred)
  /\ UNCHANGED <<pred, last, broken, ticket, issued>>
----------------------------------------------------------------------------
JsIdle == \A i \in Items : stage[i] # "evaluating"

\* The JavaScript thread calls the callable of i, which calls Napi::Eval.
JsEval(i) ==
  /\ JsIdle /\ ~broken
  /\ stage[i] = "dispatched"
  /\ stage' = [stage EXCEPT ![i] = "evaluating"]
  /\ UNCHANGED <<fetch, pred, last, broken, ticket, issued>>

\* Napi::Eval returns, and complete() runs the continuation of the next item.
JsReturn(i) ==
  /\ stage[i] = "evaluating"
  /\ Continue([stage EXCEPT ![i] = "complete"], fetch, pred)
  /\ UNCHANGED <<fetch, pred, last, broken, ticket, issued>>

\* Napi::Eval throws: the item is never complete, and the work queue skips.
JsThrow(i) ==
  /\ stage[i] = "evaluating"
  /\ stage' = [stage EXCEPT ![i] = "threw"]
  /\ broken' = TRUE
  /\ UNCHANGED <<fetch, pred, last, ticket, issued>>

\* The work queue skips the callable of i.
JsSkip(i) ==
  /\ broken
  /\ stage[i] = "dispatched"
  /\ stage' = [stage EXCEPT ![i] = "skipped"]
  /\ UNCHANGED <<fetch, pred, last, broken, ticket, issued>>

\* A callable that another component has dispatched throws.
OtherThrow ==
  /\ JsIdle /\ ~broken
  /\ broken' = TRUE
  /\ UNCHANGED <<stage, fetch, pred, last, ticket, issued>>
----------------------------------------------------------------------------
Calls      == \/ \E i \in Scripts : LoadScript(i)
              \/ \E i \in Sources : Eval(i)
Requests   == \E i \in Scripts, result \in {"ok", "failed"} : Answer(i, result)
JavaScript == \E i \in Items : JsEval(i) \/ JsReturn(i) \/ JsThrow(i) \/ JsSkip(i)

\* Every call has been made and nothing is under way.
Quiet == /\ \A i \in Items : stage[i] \in Over \cup {"chained"} /\ fetch[i] # "pending"
         /\ UNCHANGED vars

Next == Calls \/ Requests \/ JavaScript \/ OtherThrow \/ Quiet

Spec == Init /\ [][Next]_vars

(* Requests are answered or fail, and the JavaScript thread runs (AppRuntime *)
(* is not destroyed, and no script runs for ever).  Nobody has to call.      *)
Fairness == /\ \A i \in Scripts : WF_vars(\E r \in {"ok", "failed"} : Answer(i, r))
            /\ WF_vars(JavaScript)

FairSpec == Spec /\ Fairness
----------------------------------------------------------------------------
TypeOK == /\ stage \in [Items -> Stages]
          /\ fetch \in [Items -> {"none", "pending", "ok", "failed"}]
          /\ \A i \in Items : fetch[i] = "none" <=> i \in Sources \/ stage[i] = "new"
          /\ pred \in [Items -> Items \cup {None}]
          /\ last \in Items \cup {None}
          /\ broken \in BOOLEAN
          /\ ticket \in [Items -> Nat]
          /\ issued \in Nat

(* No script is evaluated before its text has arrived, whatever the order in *)
(* which requests and evaluations end (ScriptLoader.cpp:21-26).              *)
TextArrived == \A i \in Items : stage[i] \in Over \cup {"dispatched", "evaluating"} =>
                                  fetch[i] # "pending"

(* A script that throws, or is skipped because something before it threw,    *)
(* stops the loader: nothing after it is even dispatched, since its          *)
(* taskCompletionSource is never completed (ScriptLoader.cpp:24-25, 36-37).  *)
ThrowHalts == \A i, j \in Items :
                 stage[i] \in {"threw", "skipped"} /\ ticket[i] < ticket[j] =>
                    stage[j] = "chained"

(* "each enqueued work item will fully complete before the ScriptLoader      *)
(* allows the next work item to even begin" (Documentation/Components.md:155): *)
(* the loader keeps the contract of a dispatch queue, in the order of calls. *)
ItemPhase(i) == CASE stage[i] = "new" -> "new"
                  [] stage[i] \in {"chained", "dispatched"} -> "pending"
                  [] stage[i] = "evaluating" -> "running"
                  [] OTHER -> "over"

Order == INSTANCE DispatchContract WITH Callables <- Items,
                                        phase <- [i \in Items |-> ItemPhase(i)]

EvaluatesInOrder == Order!Spec

(* Every script is evaluated, in whatever order the requests end and with    *)
(* calls made at any time, unless something dispatched to JavaScript threw.  *)
EventuallyEvaluated == \A i \in Items : stage[i] = "chained" ~> stage[i] = "complete" \/ broken
=============================================================================
