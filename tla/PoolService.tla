----------------------------- MODULE PoolService -----------------------------
(***************************************************************************)
(* What an I/O context pool promises to the server built on it, with no    *)
(* word on how: work is dispatched to a context that has received the      *)
(* least so far, every context is served by its own event loop, and no     *)
(* event loop that has started goes away before the pool is asked to stop. *)
(* IOContextPool implements it (see PoolRefinement there).                 *)
(***************************************************************************)
EXTENDS Integers

CONSTANT Contexts

VARIABLES
  dispatched,  \* how often each context was handed out
  serving,     \* the contexts whose event loop is running
  closing      \* TRUE once the pool was asked to stop

vars == <<dispatched, serving, closing>>

Init ==
  /\ dispatched = [c \in Contexts |-> 0]
  /\ serving = {}
  /\ closing = FALSE

\* A context that has received the least is handed out.
Dispatch(c) ==
  /\ \A d \in Contexts : dispatched[c] <= dispatched[d]
  /\ dispatched' = [dispatched EXCEPT ![c] = @ + 1]
  /\ UNCHANGED <<serving, closing>>

StartServing(c) ==
  /\ c \notin serving
  /\ serving' = serving \union {c}
  /\ UNCHANGED <<dispatched, closing>>

\* Only a pool that is closing loses an event loop.
StopServing(c) ==
  /\ closing
  /\ c \in serving
  /\ serving' = serving \ {c}
  /\ UNCHANGED <<dispatched, closing>>

Close ==
  /\ closing' = TRUE
  /\ UNCHANGED <<dispatched, serving>>

Next ==
  \/ \E c \in Contexts : Dispatch(c) \/ StartServing(c) \/ StopServing(c)
  \/ Close

Spec == Init /\ [][Next]_vars
=============================================================================
