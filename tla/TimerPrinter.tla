----------------------------- MODULE TimerPrinter -----------------------------
(***************************************************************************)
(* asio/tests/test_multithread.cpp: two timers whose handlers count to a   *)
(* limit and re-arm their timer, on one io_context that two threads run.   *)
(* The strand is never used, so the handlers of the two timers race on     *)
(* count_: its test, its load and its store are steps of their own, and a  *)
(* store may be of a value read long ago. The handlers of one timer never  *)
(* overlap: each is armed by the one before it.  Both threads log each     *)
(* count, through the Logger.                                              *)
(*                                                                         *)
(* test_member_function and test_binding_arguments are the same chain with *)
(* one timer and one thread; in test_async_timer the handler only logs.    *)
(***************************************************************************)
EXTENDS Logger

\* Threads are the main thread and t, both in io.run().
CONSTANTS
  Timers,   \* timer1_ and timer2_
  NoTimer,
  main, timer1,  \* the thread and the timer of the programs that have but one
  Limit     \* 10 in test_multithread, 5 in the others

ASSUME PrinterAssumption ==
  /\ \E timer2 \in Timers : Timers = {timer1, timer2}
  /\ NoTimer \notin Timers /\ main \in Threads /\ Limit \in Nat \ {0}

Programs == {"test_multithread", "test_member_function", "test_async_timer"}

VARIABLES
  program,   \* which program runs; it never changes
  armed,     \* timers with a pending async_wait
  thread,    \* where each thread is
  handles,   \* the timer whose handler a thread executes
  loaded,    \* the value of count_ a thread has read
  count      \* count_

printer == <<program, armed, thread, handles, loaded, count>>
vars == <<printer, logVars>>

TypeOK ==
  /\ program \in Programs
  /\ armed \in SUBSET Timers
  /\ thread \in [Threads -> {"start", "run", "test", "log", "load", "store",
                             "rearm", "return", "left"}]
  /\ handles \in [Threads -> Timers \union {NoTimer}]
  /\ loaded \in [Threads -> 0 .. Limit]
  /\ count \in Nat
  /\ LogTypeOK

Both == program = "test_multithread"
Counts == program # "test_async_timer"

\* The constructor of printer arms the timers before any thread runs the context.
Init ==
  /\ program \in Programs
  /\ armed = IF Both THEN Timers ELSE {timer1}
  /\ thread = [t \in Threads |-> IF Both \/ t = main THEN "start" ELSE "left"]
  /\ handles = [t \in Threads |-> NoTimer]
  /\ loaded = [t \in Threads |-> 0]
  /\ count = 0
  /\ LogInit

Goto(t, from, to) == thread[t] = from /\ thread' = [thread EXCEPT ![t] = to]

\* A waiting timer and an executing handler are outstanding work of the context.
HasWork == armed # {} \/ \E t \in Threads : handles[t] # NoTimer

\* io.run(), called by each of the two threads in its own time.
EnterRun(t) ==
  /\ Goto(t, "start", "run")
  /\ UNCHANGED <<program, armed, handles, loaded, count, logVars>>

\* A timer has expired and one of the threads calls print1 or print2.
Expire(t, m) ==
  /\ Goto(t, "run", "test")
  /\ m \in armed
  /\ armed' = armed \ {m}
  /\ handles' = [handles EXCEPT ![t] = m]
  /\ UNCHANGED <<program, loaded, count, logVars>>

\* Variants of Test with a bug: the bound is off by one, and the timer is armed
\* again also at the limit.
TestOneLess(t) ==
  /\ Goto(t, "test", IF count + 1 < Limit THEN "log" ELSE "return")
  /\ UNCHANGED <<program, armed, handles, loaded, count, logVars>>
TestAlwaysArms(t) ==
  /\ Goto(t, "test", IF count < Limit THEN "log" ELSE "rearm")
  /\ UNCHANGED <<program, armed, handles, loaded, count, logVars>>

\* if (count_ < 10)
Test(t) ==
  /\ Goto(t, "test", IF count < Limit THEN "log" ELSE "return")
  /\ UNCHANGED <<program, armed, handles, loaded, count, logVars>>

\* LOG_INFO("timer1 count={}", count_)
LogCount(t) ==
  /\ Goto(t, "log", IF Counts THEN "load" ELSE "return")
  /\ LogCall(t, INFO)
  /\ UNCHANGED <<program, armed, handles, loaded, count>>

\* The rest of log(), at the end of which print1 or print2 goes on.
Logging(t) == LogStep(t) /\ UNCHANGED printer

\* count_++, its two halves. A load right after the test stands for a build that
\* keeps the tested value.
Load(t) ==
  /\ log[t] = "idle"
  /\ Goto(t, "load", "store")
  /\ loaded' = [loaded EXCEPT ![t] = count]
  /\ UNCHANGED <<program, armed, handles, count, logVars>>

Store(t) ==
  /\ Goto(t, "store", "rearm")
  /\ count' = loaded[t] + 1
  /\ loaded' = [loaded EXCEPT ![t] = 0]
  /\ UNCHANGED <<program, armed, handles, logVars>>

\* expires_at, async_wait
Rearm(t) ==
  /\ Goto(t, "rearm", "return")
  /\ armed' = armed \union {handles[t]}
  /\ UNCHANGED <<program, handles, loaded, count, logVars>>

HandlerReturns(t) ==
  /\ log[t] = "idle"
  /\ Goto(t, "return", "run")
  /\ handles' = [handles EXCEPT ![t] = NoTimer]
  /\ UNCHANGED <<program, armed, loaded, count, logVars>>

\* run() returns in a thread once the context is out of work.
LeaveRun(t) ==
  /\ Goto(t, "run", "left")
  /\ ~HasWork
  /\ UNCHANGED <<program, armed, handles, loaded, count, logVars>>

Step(t) ==
  \/ EnterRun(t) \/ (\E m \in Timers : Expire(t, m)) \/ Test(t) \/ LogCount(t)
  \/ Logging(t) \/ Load(t) \/ Store(t) \/ Rearm(t) \/ HandlerReturns(t) \/ LeaveRun(t)

\* main ends once both threads have left run().
Done == (\A t \in Threads : thread[t] = "left") /\ UNCHANGED vars

Next == Done \/ (Tick /\ UNCHANGED printer) \/ \E t \in Threads : Step(t)

\* The scheduler runs every thread; timers expire.
Spec == Init /\ [][Next]_vars /\ \A t \in Threads : WF_vars(Step(t))

-----------------------------------------------------------------------------
\* The race on count_ in print1 and print2 overshoots the limit by at most the
\* handlers that run at once less one, and lost updates cannot make the final
\* count smaller: a timer that writes back an old value goes on counting.
FinalCount ==
  (\A t \in Threads : thread[t] = "left") =>
    count \in CASE Both            -> Limit .. Limit + 1
                [] Counts /\ ~Both -> {Limit}
                [] ~Counts         -> {0}

\* However the stores overtake each other, both chains come to an end and both
\* threads leave run() (test_multithread.cpp:64).
BothThreadsLeave == <>(\A t \in Threads : thread[t] = "left")
=============================================================================
