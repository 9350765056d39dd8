---------------------------- MODULE IOContextPool ----------------------------
(***************************************************************************)
(* asio/benchmark/io_context_pool.hpp: one asio::io_context and one work   *)
(* guard per worker thread, contexts handed out round robin, run() starts  *)
(* a thread per context and joins them all, stop() lets them exit.         *)
(*                                                                         *)
(* The io_context itself is asio's (external): its outstanding work is its *)
(* guard, the operations pending on it and the handler it executes; its    *)
(* run() returns once it is stopped, and it stops itself when it runs out  *)
(* of outstanding work.                                                    *)
(***************************************************************************)
EXTENDS Integers, FiniteSets

CONSTANTS
  PoolSize,        \* number of contexts, pool_size in the code
  MaxDispatch,     \* bound: calls of get_io_context
  MaxOps,          \* bound: operations pending on one context
  HandlersMayStop  \* whether a handler may call stop(); none of benchmark_mt does

ASSUME PoolAssumption ==
  /\ PoolSize \in Nat \ {0}
  /\ MaxDispatch \in Nat
  /\ MaxOps \in Nat \ {0}
  /\ HandlersMayStop \in BOOLEAN

Contexts == 0 .. PoolSize - 1

\* The context the acceptor lives on: the first one handed out. The listener,
\* the only caller of get_io_context once the threads run, is resumed there.
AcceptorContext == 0

\* Who executes stop(): nobody, the main thread in ~IOContextPool, or the
\* thread of a context in a handler.
NoThread == -2
Main == -1
Threads == Contexts \union {Main}

VARIABLES
  built,            \* contexts and guards the constructor has made
  next_io_context,  \* next_io_context_
  work_guards,      \* the contexts whose guard in work_guards_ is still held
  stopped,          \* the stopped flag of each io_context
  ops,              \* operations pending on each io_context
  busy,             \* whether the thread of a context is inside a handler
  thread,           \* the worker thread of each context
  main,             \* where the main thread is
  cursor,           \* index of the loop run() is in
  stop_by,          \* the thread that executes stop()
  stop_phase,       \* how far stop() is
  stop_index,       \* index of its second loop
  dispatched        \* history: how often each context was handed out

poolVars == <<built, next_io_context, work_guards, stopped, ops, busy, thread,
              main, cursor, stop_by, stop_phase, stop_index, dispatched>>
stopVars == <<stop_by, stop_phase, stop_index>>

TypeOK ==
  /\ built \in 0 .. PoolSize
  /\ next_io_context \in Contexts
  /\ work_guards \in SUBSET Contexts
  /\ stopped \in [Contexts -> BOOLEAN]
  /\ ops \in [Contexts -> Nat]
  /\ busy \in [Contexts -> BOOLEAN]
  /\ thread \in [Contexts -> {"none", "started", "running", "returned", "joined"}]
  /\ main \in {"ctor", "setup", "spawn", "join", "ran", "dtor", "gone"}
  /\ cursor \in 0 .. PoolSize
  /\ stop_by \in Threads \union {NoThread}
  /\ stop_phase \in {"idle", "reset", "halt", "done"}
  /\ stop_index \in 0 .. PoolSize
  /\ dispatched \in [Contexts -> Nat]

Init ==
  /\ built = 0
  /\ next_io_context = 0
  /\ work_guards = {}
  /\ stopped = [c \in Contexts |-> FALSE]
  /\ ops = [c \in Contexts |-> 0]
  /\ busy = [c \in Contexts |-> FALSE]
  /\ thread = [c \in Contexts |-> "none"]
  /\ main = "ctor"
  /\ cursor = 0
  /\ stop_by = NoThread
  /\ stop_phase = "idle"
  /\ stop_index = 0
  /\ dispatched = [c \in Contexts |-> 0]

-----------------------------------------------------------------------------
(* The main thread: constructor, set-up, run(), destructor.                *)

\* One round of the constructor's loop: a context and the guard on it.
Construct ==
  /\ main = "ctor"
  /\ built' = built + 1
  /\ work_guards' = work_guards \union {built}
  /\ main' = IF built + 1 = PoolSize THEN "setup" ELSE "ctor"
  /\ UNCHANGED <<next_io_context, stopped, ops, busy, thread, cursor, stopVars,
                 dispatched>>

StartRun ==
  /\ main = "setup"
  /\ main' = "spawn"
  /\ UNCHANGED <<built, next_io_context, work_guards, stopped, ops, busy, thread,
                 cursor, stopVars, dispatched>>

\* threads.emplace_back, then on to the join loop after the last context.
SpawnThread ==
  /\ main = "spawn"
  /\ thread' = [thread EXCEPT ![cursor] = "started"]
  /\ IF cursor + 1 = PoolSize
     THEN main' = "join" /\ cursor' = 0
     ELSE main' = main /\ cursor' = cursor + 1
  /\ UNCHANGED <<built, next_io_context, work_guards, stopped, ops, busy,
                 stopVars, dispatched>>

\* A variant with a bug: only the first thread is joined.
JoinFirst ==
  /\ main = "join"
  /\ thread[cursor] = "returned"
  /\ thread' = [thread EXCEPT ![cursor] = "joined"]
  /\ main' = "ran"
  /\ cursor' = 0
  /\ UNCHANGED <<built, next_io_context, work_guards, stopped, ops, busy,
                 stopVars, dispatched>>

\* thread.join() waits for the threads in order; after the last, run() returns.
JoinThread ==
  /\ main = "join"
  /\ thread[cursor] = "returned"
  /\ thread' = [thread EXCEPT ![cursor] = "joined"]
  /\ IF cursor + 1 = PoolSize
     THEN main' = "ran" /\ cursor' = 0
     ELSE main' = main /\ cursor' = cursor + 1
  /\ UNCHANGED <<built, next_io_context, work_guards, stopped, ops, busy,
                 stopVars, dispatched>>

\* ~IOContextPool calls stop(), possibly for the second time.
Destroy ==
  /\ main \in {"setup", "ran"}
  /\ main' = "dtor"
  /\ stop_by' = Main
  /\ stop_phase' = "reset"
  /\ stop_index' = 0
  /\ UNCHANGED <<built, next_io_context, work_guards, stopped, ops, busy, thread,
                 cursor, dispatched>>

Destroyed ==
  /\ main = "dtor"
  /\ stop_phase = "done"
  /\ main' = "gone"
  /\ UNCHANGED <<built, next_io_context, work_guards, stopped, ops, busy, thread,
                 cursor, stopVars, dispatched>>

-----------------------------------------------------------------------------
(* get_io_context, and the operations started on a context.                *)

\* Who runs user code: main before run(), or a thread inside a handler (unless
\* it is in the middle of stop()).
InUserCode(t) ==
  IF t = Main THEN main = "setup" ELSE busy[t] /\ stop_by # t

\* Variants with a bug: the index never wraps, wraps early, does not move.
AdvanceIndexUnwrapped == next_io_context' = next_io_context + 1
AdvanceIndexEarly ==
  next_io_context' = IF next_io_context + 2 >= PoolSize THEN 0 ELSE next_io_context + 1
AdvanceIndexStuck == UNCHANGED next_io_context

\* The slot the call hands out is next_io_context; the index is then advanced
\* and wrapped.
AdvanceIndex ==
  next_io_context' = IF next_io_context + 1 = PoolSize THEN 0 ELSE next_io_context + 1

\* No lock: the code relies on main calling it before run() only, and the
\* listener's thread afterwards.
GetIoContext(t) ==
  /\ t \in {Main, AcceptorContext}
  /\ InUserCode(t)
  /\ \E c \in Contexts : dispatched[c] < MaxDispatch
  /\ AdvanceIndex
  /\ dispatched' = [dispatched EXCEPT ![next_io_context] = @ + 1]
  /\ UNCHANGED <<built, work_guards, stopped, ops, busy, thread, main, cursor,
                 stopVars>>

\* User code starts an asynchronous operation on any context, also a foreign one.
PostOp(t, c) ==
  /\ InUserCode(t)
  /\ ops[c] < MaxOps
  /\ ops' = [ops EXCEPT ![c] = @ + 1]
  /\ UNCHANGED <<built, next_io_context, work_guards, stopped, busy, thread, main,
                 cursor, stopVars, dispatched>>

-----------------------------------------------------------------------------
(* The worker thread of context c: ctx->run().                             *)

HasWork(c) == c \in work_guards \/ ops[c] > 0 \/ busy[c]

\* run() of a stopped or workless context returns at once (and stops it).
EnterRun(c) ==
  /\ thread[c] = "started"
  /\ IF stopped[c] \/ ~HasWork(c)
     THEN /\ stopped' = [stopped EXCEPT ![c] = TRUE]
          /\ thread' = [thread EXCEPT ![c] = "returned"]
     ELSE /\ thread' = [thread EXCEPT ![c] = "running"]
          /\ UNCHANGED stopped
  /\ UNCHANGED <<built, next_io_context, work_guards, ops, busy, main, cursor,
                 stopVars, dispatched>>

\* A pending operation completed: its handler is called.
BeginHandler(c) ==
  /\ thread[c] = "running"
  /\ ~stopped[c]
  /\ ~busy[c]
  /\ ops[c] > 0
  /\ ops' = [ops EXCEPT ![c] = @ - 1]
  /\ busy' = [busy EXCEPT ![c] = TRUE]
  /\ UNCHANGED <<built, next_io_context, work_guards, stopped, thread, main,
                 cursor, stopVars, dispatched>>

\* The handler returns; the context that has no work left stops itself.
EndHandler(c) ==
  /\ busy[c]
  /\ stop_by # c
  /\ busy' = [busy EXCEPT ![c] = FALSE]
  /\ stopped' = [stopped EXCEPT ![c] = @ \/ (c \notin work_guards /\ ops[c] = 0)]
  /\ UNCHANGED <<built, next_io_context, work_guards, ops, thread, main, cursor,
                 stopVars, dispatched>>

\* run() returns; what is still pending is never executed.
LeaveRun(c) ==
  /\ thread[c] = "running"
  /\ stopped[c]
  /\ ~busy[c]
  /\ thread' = [thread EXCEPT ![c] = "returned"]
  /\ UNCHANGED <<built, next_io_context, work_guards, stopped, ops, busy, main,
                 cursor, stopVars, dispatched>>

-----------------------------------------------------------------------------
(* stop(): reset every guard in order, clear them, stop every context.     *)

\* A handler calls stop(). It is not synchronised: one caller at a time.
CallStop(c) ==
  /\ HandlersMayStop
  /\ busy[c]
  /\ stop_phase = "idle"
  /\ stop_by' = c
  /\ stop_phase' = "reset"
  /\ UNCHANGED <<built, next_io_context, work_guards, stopped, ops, busy, thread,
                 main, cursor, stop_index, dispatched>>

FirstGuard == CHOOSE c \in work_guards : \A d \in work_guards : c <= d

\* work.reset(): a context that loses its last work stops itself.
ResetGuard ==
  /\ stop_phase = "reset"
  /\ work_guards # {}
  /\ work_guards' = work_guards \ {FirstGuard}
  /\ stopped' = [stopped EXCEPT ![FirstGuard] =
                   @ \/ (ops[FirstGuard] = 0 /\ ~busy[FirstGuard])]
  /\ UNCHANGED <<built, next_io_context, ops, busy, thread, main, cursor, stopVars,
                 dispatched>>

\* work_guards_.clear() on guards that are all reset, or were already cleared.
ClearGuards ==
  /\ stop_phase = "reset"
  /\ work_guards = {}
  /\ stop_phase' = "halt"
  /\ UNCHANGED <<built, next_io_context, work_guards, stopped, ops, busy, thread,
                 main, cursor, stop_by, stop_index, dispatched>>

\* A variant with a bug: the last context is not stopped.
HaltContextShort ==
  /\ stop_phase = "halt"
  /\ stopped' = [stopped EXCEPT ![stop_index] = TRUE]
  /\ IF stop_index + 2 >= PoolSize
     THEN stop_phase' = "done" /\ stop_by' = NoThread /\ stop_index' = 0
     ELSE stop_index' = stop_index + 1 /\ UNCHANGED <<stop_phase, stop_by>>
  /\ UNCHANGED <<built, next_io_context, work_guards, ops, busy, thread, main,
                 cursor, dispatched>>

\* io_context->stop(), and the return of stop() after the last context.
HaltContext ==
  /\ stop_phase = "halt"
  /\ stopped' = [stopped EXCEPT ![stop_index] = TRUE]
  /\ IF stop_index + 1 = PoolSize
     THEN stop_phase' = "done" /\ stop_by' = NoThread /\ stop_index' = 0
     ELSE stop_index' = stop_index + 1 /\ UNCHANGED <<stop_phase, stop_by>>
  /\ UNCHANGED <<built, next_io_context, work_guards, ops, busy, thread, main,
                 cursor, dispatched>>

-----------------------------------------------------------------------------
MainStep == Construct \/ StartRun \/ SpawnThread \/ JoinThread \/ Destroy \/ Destroyed
UserStep(t) == GetIoContext(t) \/ \E c \in Contexts : PostOp(t, c)
StopStep == ResetGuard \/ ClearGuards \/ HaltContext

Next ==
  \/ MainStep
  \/ \E t \in Threads : UserStep(t)
  \/ \E c \in Contexts : \/ EnterRun(c) \/ BeginHandler(c) \/ EndHandler(c)
                         \/ LeaveRun(c) \/ CallStop(c)
  \/ StopStep

Spec == Init /\ [][Next]_poolVars

\* Threads that can take a step eventually take it, and handlers return. When a
\* pending operation completes is up to the network: no fairness for
\* BeginHandler, nor for what user code does.
Fairness ==
  /\ WF_poolVars(SpawnThread)
  /\ WF_poolVars(JoinThread)
  /\ WF_poolVars(StopStep)
  /\ \A c \in Contexts : /\ WF_poolVars(EnterRun(c))
                         /\ WF_poolVars(EndHandler(c))
                         /\ WF_poolVars(LeaveRun(c))

FairSpec == Spec /\ Fairness

-----------------------------------------------------------------------------
(* Properties.                                                             *)

\* Round robin (get_io_context): the contexts below the index have been handed
\* out once more than the others, whoever called and when. No context is ever
\* two connections ahead of another.
RoundRobin ==
  \A c \in Contexts :
    dispatched[c] = dispatched[PoolSize - 1] + IF c < next_io_context THEN 1 ELSE 0

\* "Allow ctx.run() to exit" (stop): before stop() begins no event loop of a
\* constructed pool may exit, however often its context runs dry of operations.
ServesUntilStopped ==
  stop_phase = "idle" =>
    \A c \in Contexts : ~stopped[c] /\ thread[c] \notin {"returned", "joined"}

\* stop() resets all guards before it stops any context, so a context that still
\* holds its guard has not been stopped.
GuardsResetFirst ==
  \A c \in work_guards : ~stopped[c]

\* run() returns, and the contexts are destroyed, only when no thread of the pool
\* can touch them any more: each was joined or never started, and none is
\* inside a handler or inside stop().
NoThreadOutlivesRun ==
  main \in {"ran", "dtor", "gone"} =>
    /\ \A c \in Contexts : thread[c] \in {"none", "joined"} /\ ~busy[c]
    /\ stop_by \in {NoThread, Main}

\* stop() called while run() is spawning or joining makes run() return, even
\* with operations pending and threads not yet started.
StopEndsRun ==
  (stop_phase # "idle" /\ main \in {"spawn", "join"}) ~> main \in {"ran", "dtor", "gone"}

\* The pool implements the abstract service: least-loaded dispatch, event loops
\* that end only once stop() began.
Service == INSTANCE PoolService WITH
  Contexts <- Contexts,
  dispatched <- dispatched,
  serving <- {c \in Contexts : thread[c] \in {"started", "running"}},
  closing <- stop_phase # "idle"
PoolRefinement == Service!Spec
=============================================================================
