-------------------------- MODULE DispatchContract --------------------------
(***************************************************************************)
(* What every Babylon Native component relies on when it hands a function  *)
(* to JsRuntime::Dispatch (Core/JsRuntime, Documentation/JsRuntime.md):    *)
(* functions run on one thread, one at a time, in the order in which they  *)
(* were dispatched, each at most once.  A function may be discarded        *)
(* without running, and then only when all those before it are over.       *)
(***************************************************************************)
EXTENDS Naturals

CONSTANT Callables          \* the functions that may be dispatched

VARIABLES phase,            \* phase[c]: how far the callable has come
          ticket,           \* ticket[c]: its place in dispatch order, 0 if none
          issued            \* how many tickets have been given out

contractVars == <<phase, ticket, issued>>

\* Every callable dispatched before c is over.
EarlierOver(c) == \A d \in Callables :
                     0 < ticket[d] /\ ticket[d] < ticket[c] => phase[d] = "over"

Init == /\ phase  = [c \in Callables |-> "new"]
        /\ ticket = [c \in Callables |-> 0]
        /\ issued = 0

Dispatch(c) == /\ phase[c] = "new"
               /\ phase'  = [phase EXCEPT ![c] = "pending"]
               /\ ticket' = [ticket EXCEPT ![c] = issued + 1]
               /\ issued' = issued + 1

Start(c) == /\ phase[c] = "pending"
            /\ \A d \in Callables : phase[d] # "running"
            /\ EarlierOver(c)
            /\ phase' = [phase EXCEPT ![c] = "running"]
            /\ UNCHANGED <<ticket, issued>>

Finish(c) == /\ phase[c] = "running"
             /\ phase' = [phase EXCEPT ![c] = "over"]
             /\ UNCHANGED <<ticket, issued>>

Discard(c) == /\ phase[c] = "pending"
              /\ EarlierOver(c)
              /\ phase' = [phase EXCEPT ![c] = "over"]
              /\ UNCHANGED <<ticket, issued>>

Next == \E c \in Callables : Dispatch(c) \/ Start(c) \/ Finish(c) \/ Discard(c)

Spec == Init /\ [][Next]_contractVars
=============================================================================
