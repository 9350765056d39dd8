------------------------------- MODULE Logger -------------------------------
(***************************************************************************)
(* asio/learn_asio/log.hpp: ConsoleLogger, used by any thread without a    *)
(* lock.  The date in front of a message is rebuilt once a second and kept *)
(* in a buffer of the thread; it is read from the tm that localtime fills  *)
(* for all threads.  A date is two fields, the second of the minute and    *)
(* the rest; the milliseconds are the call's own and are left out, as are  *)
(* colours, levels' names and the text.                                    *)
(***************************************************************************)
EXTENDS Integers

CONSTANTS
  Threads,
  Minute,     \* seconds to a minute (60)
  MaxSecond   \* bound: how long the clock runs

ASSUME LoggerAssumption == Minute \in Nat \ {0} /\ MaxSecond \in Nat \ {0}

VARIABLES
  clock,        \* the second it is, counted from 1
  level,        \* level_
  tm,           \* what localtime() returns a pointer to
  buf,          \* thread_local: the date each thread has built last
  last_second,  \* thread_local: the second it is the date of, 0 at first
  log,          \* where each thread is in log()
  now,          \* the second in which it has looked at the clock
  raced         \* history: tm was overwritten while the date was read from it

logVars == <<clock, level, tm, buf, last_second, log, now, raced>>

Levels == 0 .. 5  \* TRACE, DEBUG, INFO, WARN, ERROR, FATAL
DEBUG == 1
INFO == 2

Date(s) == [sec |-> s % Minute, rest |-> s \div Minute]

LogTypeOK ==
  /\ clock \in 1 .. MaxSecond /\ level \in Levels
  /\ tm \in [sec : 0 .. Minute - 1, rest : 0 .. MaxSecond]
  /\ buf \in [Threads -> [sec : 0 .. Minute - 1, rest : 0 .. MaxSecond]]
  /\ last_second \in [Threads -> 0 .. MaxSecond]
  /\ log \in [Threads -> {"idle", "now", "stamp", "localtime", "sec", "rest", "print"}]
  /\ now \in [Threads -> 0 .. MaxSecond] /\ raced \in [Threads -> BOOLEAN]

LogInit ==
  /\ clock = 1 /\ level = DEBUG /\ tm = Date(0)
  /\ buf = [t \in Threads |-> Date(0)]
  /\ last_second = [t \in Threads |-> 0]
  /\ log = [t \in Threads |-> "idle"] /\ now = [t \in Threads |-> 0]
  /\ raced = [t \in Threads |-> FALSE]

LogGoto(t, from, to) == log[t] = from /\ log' = [log EXCEPT ![t] = to]

Tick ==
  /\ clock < MaxSecond
  /\ clock' = clock + 1
  /\ UNCHANGED <<level, tm, buf, last_second, log, now, raced>>

\* trace() to fatal(): a message below the level is not printed.
LogCall(t, l) ==
  /\ LogGoto(t, "idle", IF l < level THEN "idle" ELSE "now")
  /\ UNCHANGED <<clock, level, tm, buf, last_second, now, raced>>

Now(t) ==
  /\ LogGoto(t, "now", "stamp")
  /\ now' = [now EXCEPT ![t] = clock]
  /\ UNCHANGED <<clock, level, tm, buf, last_second, raced>>

\* A variant with a bug: last_second is not thread_local.
GetTimestampShared(t) ==
  /\ LogGoto(t, "stamp", IF last_second[t] = now[t] THEN "print" ELSE "localtime")
  /\ last_second' = [u \in Threads |-> now[t]]
  /\ UNCHANGED <<clock, level, tm, buf, now, raced>>

\* get_timestamp(): within a second the date is not built again.
GetTimestamp(t) ==
  /\ LogGoto(t, "stamp", IF last_second[t] = now[t] THEN "print" ELSE "localtime")
  /\ last_second' = [last_second EXCEPT ![t] = now[t]]
  /\ UNCHANGED <<clock, level, tm, buf, now, raced>>

\* localtime() fills tm for all threads.
Localtime(t) ==
  /\ LogGoto(t, "localtime", "sec")
  /\ tm' = Date(now[t])
  /\ raced' = [u \in Threads |-> IF u = t THEN FALSE
                                 ELSE raced[u] \/ log[u] \in {"sec", "rest"}]
  /\ UNCHANGED <<clock, level, buf, last_second, now>>

\* The fields are read one after the other, from the second up.
ReadSecond(t) ==
  /\ LogGoto(t, "sec", "rest")
  /\ buf' = [buf EXCEPT ![t].sec = tm.sec]
  /\ UNCHANGED <<clock, level, tm, last_second, now, raced>>

ReadRest(t) ==
  /\ LogGoto(t, "rest", "print")
  /\ buf' = [buf EXCEPT ![t].rest = tm.rest]
  /\ UNCHANGED <<clock, level, tm, last_second, now, raced>>

PrintLine(t) ==
  /\ LogGoto(t, "print", "idle")
  /\ now' = [now EXCEPT ![t] = 0]
  /\ UNCHANGED <<clock, level, tm, buf, last_second, raced>>

LogStep(t) ==
  Now(t) \/ GetTimestamp(t) \/ Localtime(t) \/ ReadSecond(t) \/ ReadRest(t) \/ PrintLine(t)

-----------------------------------------------------------------------------
\* log.hpp:133-164: the date in front of a message is that of the call, though it may
\* have been built by an earlier one, unless another thread called localtime() while it
\* was read; then it stays wrong until the thread's next second.
DateIsOwnUnlessRaced ==
  \A t \in Threads : log[t] = "print" /\ buf[t] # Date(now[t]) => raced[t]
=============================================================================
