-------------------------- MODULE TimerPrinter_proofs --------------------------
(***************************************************************************)
(* Theorems about the timers that count and the threads that log, for any  *)
(* limit and any number of threads: the final count however the handlers   *)
(* race, and the date of a message unless localtime() is called meanwhile. *)
(***************************************************************************)
EXTENDS TimerPrinter, TLAPS

ThreadPlaces ==
  {"start", "run", "test", "log", "load", "store", "rearm", "return", "left"}

PrinterType ==
  /\ program \in Programs
  /\ armed \in SUBSET Timers
  /\ thread \in [Threads -> ThreadPlaces]
  /\ handles \in [Threads -> Timers \union {NoTimer}]
  /\ loaded \in [Threads -> Nat]
  /\ count \in Nat

\* A thread in a handler that has not armed its timer again, or not given up.
Busy(t) == thread[t] \in {"test", "log", "load", "store", "rearm"}

\* A handler that has found count_ below the limit and has not stored.
Past(t) == thread[t] \in {"log", "load", "store"}

\* The handlers of one timer follow each other.
ChainInv ==
  /\ \A t \in Threads : Busy(t) => handles[t] # NoTimer /\ handles[t] \notin armed
  /\ \A t, u \in Threads : Busy(t) /\ Busy(u) /\ handles[t] = handles[u] => t = u
  /\ \A t \in Threads : thread[t] = "return" => handles[t] # NoTimer

\* run() has returned in main, or is alone with the work there is.
LeaveInv ==
  /\ ~Both => \A t \in Threads \ {main} : thread[t] = "left"
  /\ thread[main] = "left" => armed = {} /\ \A t \in Threads : handles[t] = NoTimer

\* As long as the count is too small a timer is going to count.
AliveInv ==
  /\ Counts /\ count < Limit => armed # {} \/ \E t \in Threads : Busy(t)
  /\ ~Counts => count = 0 /\ \A t \in Threads : thread[t] \notin {"load", "store", "rearm"}

\* Of two handlers that are past the test at most the later one can count to the limit
\* and beyond: the first to do so is alone past the test.
RaceInv ==
  /\ count <= IF Both THEN Limit + 1 ELSE Limit
  /\ \A t \in Threads :
       /\ thread[t] \in {"log", "load"} => count <= Limit /\ (Both \/ count < Limit)
       /\ thread[t] = "store" => loaded[t] <= Limit /\ (Both \/ loaded[t] < Limit)
       /\ thread[t] = "store" /\ loaded[t] = Limit => count >= Limit
       /\ thread[t] # "store" => loaded[t] = 0
  /\ \A t, u \in Threads : t # u /\ Past(t) /\ Past(u) =>
       /\ thread[t] \in {"log", "load"} => count < Limit
       /\ thread[t] = "store" => loaded[t] < Limit

PrinterInv == PrinterType /\ ChainInv /\ LeaveInv /\ AliveInv /\ RaceInv

\* The date in a thread's buffer is that of last_second, once it has been read without
\* another call of localtime(), and so far as it has been read.
DateInv ==
  \A t \in Threads :
    /\ log[t] \in {"localtime", "sec", "rest", "print"} => last_second[t] = now[t]
    /\ ~raced[t] =>
         /\ log[t] \in {"idle", "now", "stamp", "print"} => buf[t] = Date(last_second[t])
         /\ log[t] \in {"sec", "rest"} => tm = Date(now[t])
         /\ log[t] = "rest" => buf[t].sec = tm.sec

LogInv == LogTypeOK /\ DateInv

-----------------------------------------------------------------------------
\* A thread goes to another place, and the other threads stay where they are.
LEMMA Moves ==
  ASSUME PrinterType, NEW t \in Threads, NEW from, NEW to \in ThreadPlaces,
         Goto(t, from, to)
  PROVE  /\ thread[t] = from /\ thread'[t] = to
         /\ thread' \in [Threads -> ThreadPlaces]
         /\ \A u \in Threads \ {t} : thread'[u] = thread[u]
BY DEF PrinterType, Goto

\* Both handlers of the programs are busy: there is no third.
LEMMA NoThird ==
  ASSUME PrinterType, ChainInv,
         NEW t \in Threads, NEW u \in Threads, NEW w \in Threads,
         Busy(t), Busy(u), Busy(w), t # u, t # w
  PROVE  u = w
<1>1. handles[t] \in Timers /\ handles[u] \in Timers /\ handles[w] \in Timers
  BY DEF PrinterType, ChainInv
<1>2. handles[u] # handles[t] /\ handles[w] # handles[t] BY DEF ChainInv
<1>3. handles[u] = handles[w] BY <1>1, <1>2, PrinterAssumption
<1> QED BY <1>3 DEF ChainInv

LEMMA InitPrinter == Init => PrinterInv
<1> SUFFICES ASSUME Init PROVE PrinterInv OBVIOUS
<1>1. PrinterType BY PrinterAssumption DEF Init, PrinterType, ThreadPlaces
<1>2. \A t \in Threads : /\ thread[t] \in {"start", "left"}
                         /\ handles[t] = NoTimer /\ loaded[t] = 0
  BY DEF Init
<1>3. ChainInv BY <1>2 DEF ChainInv, Busy
<1>4. LeaveInv BY PrinterAssumption DEF Init, LeaveInv
<1>5. armed # {} BY PrinterAssumption DEF Init
<1>6. AliveInv BY <1>2, <1>5 DEF AliveInv, Init
<1>7. RaceInv BY <1>2, PrinterAssumption DEF RaceInv, Init, Past
<1> QED BY <1>1, <1>3, <1>4, <1>6, <1>7 DEF PrinterInv

LEMMA EnterRunStep ==
  ASSUME PrinterInv, NEW t \in Threads, EnterRun(t)
  PROVE  PrinterInv'
<1> USE DEF PrinterInv
<1>1. /\ thread[t] = "start" /\ thread'[t] = "run"
      /\ thread' \in [Threads -> ThreadPlaces]
      /\ \A u \in Threads \ {t} : thread'[u] = thread[u]
  BY Moves DEF EnterRun, ThreadPlaces
<1>2. UNCHANGED <<program, armed, handles, loaded, count>> BY DEF EnterRun
<1>3. PrinterType' BY <1>1, <1>2 DEF PrinterType
<1>4. \A u \in Threads : Busy(u)' <=> Busy(u) BY <1>1 DEF Busy
<1>5. ChainInv' BY <1>1, <1>2, <1>4 DEF ChainInv
<1>6. LeaveInv' BY <1>1, <1>2, PrinterAssumption DEF LeaveInv, Both
<1>7. AliveInv' BY <1>1, <1>2, <1>4 DEF AliveInv, Counts
<1>8. RaceInv' BY <1>1, <1>2 DEF RaceInv, Past, Both
<1> QED BY <1>3, <1>5, <1>6, <1>7, <1>8

LEMMA ExpireStep ==
  ASSUME PrinterInv, NEW t \in Threads, NEW m \in Timers, Expire(t, m)
  PROVE  PrinterInv'
<1> USE DEF PrinterInv
<1>1. /\ thread[t] = "run" /\ thread'[t] = "test"
      /\ thread' \in [Threads -> ThreadPlaces]
      /\ \A u \in Threads \ {t} : thread'[u] = thread[u]
  BY Moves DEF Expire, ThreadPlaces
<1>2. /\ m \in armed /\ armed' = armed \ {m}
      /\ handles' \in [Threads -> Timers \union {NoTimer}] /\ handles'[t] = m
      /\ \A u \in Threads \ {t} : handles'[u] = handles[u]
      /\ UNCHANGED <<program, loaded, count>>
  BY DEF Expire, PrinterType
<1>3. PrinterType' BY <1>1, <1>2 DEF PrinterType
<1>4. Busy(t)' /\ ~Busy(t) /\ \A u \in Threads \ {t} : Busy(u)' <=> Busy(u)
  BY <1>1 DEF Busy
<1>5. m # NoTimer BY PrinterAssumption
<1>6. ChainInv'
  <2>1. \A u \in Threads : Busy(u)' => handles'[u] # NoTimer /\ handles'[u] \notin armed'
    BY <1>2, <1>4, <1>5 DEF ChainInv
  <2>2. \A u \in Threads \ {t} : Busy(u) => handles[u] # m BY <1>2 DEF ChainInv
  <2>3. \A u, w \in Threads : Busy(u)' /\ Busy(w)' /\ handles'[u] = handles'[w] => u = w
    BY <1>2, <1>4, <2>2 DEF ChainInv
  <2>4. \A u \in Threads : thread'[u] = "return" => handles'[u] # NoTimer
    BY <1>1, <1>2 DEF ChainInv
  <2> QED BY <2>1, <2>3, <2>4 DEF ChainInv
<1>7. LeaveInv'
  <2>1. thread[main] # "left" BY <1>2 DEF LeaveInv
  <2>2. thread'[main] # "left" BY <1>1, <2>1, PrinterAssumption
  <2>3. ~Both' => \A u \in Threads \ {main} : thread'[u] = "left"
    BY <1>1, <1>2 DEF LeaveInv, Both
  <2> QED BY <2>2, <2>3 DEF LeaveInv
<1>8. AliveInv' BY <1>1, <1>2, <1>4 DEF AliveInv, Counts
<1>9. RaceInv' BY <1>1, <1>2 DEF RaceInv, Past, Both
<1> QED BY <1>3, <1>6, <1>7, <1>8, <1>9

\* Only a thread that finds the count too small goes on, and then nobody who is past
\* the test holds the limit.
LEMMA TestStep ==
  ASSUME PrinterInv, NEW t \in Threads, Test(t)
  PROVE  PrinterInv'
<1> USE DEF PrinterInv
<1>1. PICK to \in {"log", "return"} :
        /\ to = IF count < Limit THEN "log" ELSE "return"
        /\ Goto(t, "test", to) /\ UNCHANGED <<program, armed, handles, loaded, count>>
  BY DEF Test
<1>2. /\ thread[t] = "test" /\ thread'[t] = to
      /\ thread' \in [Threads -> ThreadPlaces]
      /\ \A u \in Threads \ {t} : thread'[u] = thread[u]
  BY <1>1, Moves DEF ThreadPlaces
<1>3. PrinterType' BY <1>1, <1>2 DEF PrinterType
<1>4. \A u \in Threads : Busy(u)' => Busy(u) BY <1>2 DEF Busy
<1>5. ChainInv' BY <1>1, <1>2, <1>4 DEF ChainInv, Busy
<1>6. LeaveInv' BY <1>1, <1>2, PrinterAssumption DEF LeaveInv, Both
<1>7. count < Limit => \A u \in Threads : Busy(u)' <=> Busy(u) BY <1>1, <1>2 DEF Busy
<1>8. AliveInv' BY <1>1, <1>2, <1>7 DEF AliveInv, Counts
<1>9. count \in Nat /\ Limit \in Nat /\ \A u \in Threads : loaded[u] \in Nat
  BY PrinterAssumption DEF PrinterType
<1>10. RaceInv'
  <2>1. CASE to = "return"
    <3>1. \A u \in Threads : Past(u)' => Past(u) /\ u # t BY <1>2, <2>1 DEF Past
    <3> QED BY <1>1, <1>2, <2>1, <3>1 DEF RaceInv, Both
  <2>2. CASE to = "log"
    <3>1. count < Limit BY <1>1, <2>2
    <3>2. \A u \in Threads : thread[u] = "store" => loaded[u] < Limit
      BY <1>9, <3>1 DEF RaceInv
    <3> QED BY <1>1, <1>2, <1>9, <2>2, <3>1, <3>2 DEF RaceInv, Past, Both
  <2> QED BY <2>1, <2>2
<1> QED BY <1>3, <1>5, <1>6, <1>8, <1>10

LEMMA LogCountStep ==
  ASSUME PrinterInv, NEW t \in Threads, LogCount(t)
  PROVE  PrinterInv'
<1> USE DEF PrinterInv
<1>1. PICK to \in {"load", "return"} :
        /\ to = IF Counts THEN "load" ELSE "return"
        /\ Goto(t, "log", to) /\ UNCHANGED <<program, armed, handles, loaded, count>>
  BY DEF LogCount
<1>2. /\ thread[t] = "log" /\ thread'[t] = to
      /\ thread' \in [Threads -> ThreadPlaces]
      /\ \A u \in Threads \ {t} : thread'[u] = thread[u]
  BY <1>1, Moves DEF ThreadPlaces
<1>3. PrinterType' BY <1>1, <1>2 DEF PrinterType
<1>4. \A u \in Threads : Busy(u)' => Busy(u) BY <1>2 DEF Busy
<1>5. ChainInv' BY <1>1, <1>2, <1>4 DEF ChainInv, Busy
<1>6. LeaveInv' BY <1>1, <1>2, PrinterAssumption DEF LeaveInv, Both
<1>7. Counts => \A u \in Threads : Busy(u)' <=> Busy(u) BY <1>1, <1>2 DEF Busy
<1>8. AliveInv' BY <1>1, <1>2, <1>7 DEF AliveInv, Counts
<1>9. \A u \in Threads : Past(u)' => Past(u) BY <1>1, <1>2 DEF Past
<1>10. RaceInv' BY <1>1, <1>2, <1>9 DEF RaceInv, Both, Past
<1> QED BY <1>3, <1>5, <1>6, <1>8, <1>10

\* The later of two threads past the test reads less than the limit.
LEMMA LoadStep ==
  ASSUME PrinterInv, NEW t \in Threads, Load(t)
  PROVE  PrinterInv'
<1> USE DEF PrinterInv
<1>1. /\ thread[t] = "load" /\ thread'[t] = "store"
      /\ thread' \in [Threads -> ThreadPlaces]
      /\ \A u \in Threads \ {t} : thread'[u] = thread[u]
  BY Moves DEF Load, ThreadPlaces
<1>2. /\ loaded' \in [Threads -> Nat] /\ loaded'[t] = count
      /\ \A u \in Threads \ {t} : loaded'[u] = loaded[u]
      /\ UNCHANGED <<program, armed, handles, count>>
  BY DEF Load, PrinterType
<1>3. PrinterType' BY <1>1, <1>2 DEF PrinterType
<1>4. \A u \in Threads : Busy(u)' <=> Busy(u) BY <1>1 DEF Busy
<1>5. ChainInv' BY <1>1, <1>2, <1>4 DEF ChainInv
<1>6. LeaveInv' BY <1>1, <1>2, PrinterAssumption DEF LeaveInv, Both
<1>7. Counts BY <1>1 DEF AliveInv
<1>8. AliveInv' BY <1>1, <1>2, <1>4, <1>7 DEF AliveInv, Counts
<1>9. Past(t) /\ \A u \in Threads : Past(u)' => Past(u) BY <1>1 DEF Past
<1>10. count \in Nat /\ Limit \in Nat BY PrinterAssumption DEF PrinterType
<1>11. RaceInv'
  <2>1. count' <= IF Both' THEN Limit + 1 ELSE Limit BY <1>2 DEF RaceInv, Both
  <2>2. \A u \in Threads :
          /\ thread'[u] \in {"log", "load"} => count' <= Limit /\ (Both' \/ count' < Limit)
          /\ thread'[u] = "store" => loaded'[u] <= Limit /\ (Both' \/ loaded'[u] < Limit)
          /\ thread'[u] = "store" /\ loaded'[u] = Limit => count' >= Limit
          /\ thread'[u] # "store" => loaded'[u] = 0
    BY <1>1, <1>2, <1>10 DEF RaceInv, Both
  <2>3. \A u, w \in Threads : u # w /\ Past(u)' /\ Past(w)' =>
          /\ thread'[u] \in {"log", "load"} => count' < Limit
          /\ thread'[u] = "store" => loaded'[u] < Limit
    BY <1>1, <1>2, <1>9 DEF RaceInv
  <2> QED BY <2>1, <2>2, <2>3 DEF RaceInv
<1> QED BY <1>3, <1>5, <1>6, <1>8, <1>11

\* A store may lower the count, but then its own timer goes on.
LEMMA StoreStep ==
  ASSUME PrinterInv, NEW t \in Threads, Store(t)
  PROVE  PrinterInv'
<1> USE DEF PrinterInv
<1>1. /\ thread[t] = "store" /\ thread'[t] = "rearm"
      /\ thread' \in [Threads -> ThreadPlaces]
      /\ \A u \in Threads \ {t} : thread'[u] = thread[u]
  BY Moves DEF Store, ThreadPlaces
<1>2. /\ loaded' \in [Threads -> Nat] /\ loaded'[t] = 0 /\ count' = loaded[t] + 1
      /\ \A u \in Threads \ {t} : loaded'[u] = loaded[u]
      /\ UNCHANGED <<program, armed, handles>>
  BY DEF Store, PrinterType
<1>3. loaded[t] \in Nat /\ Limit \in Nat BY PrinterAssumption DEF PrinterType
<1>4. PrinterType' BY <1>1, <1>2, <1>3 DEF PrinterType
<1>5. \A u \in Threads : Busy(u)' <=> Busy(u) BY <1>1 DEF Busy
<1>6. ChainInv' BY <1>1, <1>2, <1>5 DEF ChainInv
<1>7. LeaveInv' BY <1>1, <1>2, PrinterAssumption DEF LeaveInv, Both
<1>8. Busy(t)' BY <1>1 DEF Busy
<1>9. AliveInv' BY <1>1, <1>2, <1>8 DEF AliveInv, Counts
<1>10. Past(t) /\ Busy(t) /\ \A u \in Threads \ {t} : Past(u)' => Past(u) /\ Busy(u)
  BY <1>1 DEF Past, Busy
<1>11. \A u, w \in Threads \ {t} : Past(u)' /\ Past(w)' => u = w BY <1>10, NoThird
<1>12. ~Past(t)' BY <1>1 DEF Past
<1>13. \A u \in Threads \ {t} : Past(u) => loaded[t] < Limit
  BY <1>1, <1>10 DEF RaceInv
<1>14. RaceInv'
  <2>1. count' <= IF Both' THEN Limit + 1 ELSE Limit
    BY <1>1, <1>2, <1>3 DEF RaceInv, Both
  <2>2. ASSUME NEW u \in Threads
        PROVE
          /\ thread'[u] \in {"log", "load"} => count' <= Limit /\ (Both' \/ count' < Limit)
          /\ thread'[u] = "store" => loaded'[u] <= Limit /\ (Both' \/ loaded'[u] < Limit)
          /\ thread'[u] = "store" /\ loaded'[u] = Limit => count' >= Limit
          /\ thread'[u] # "store" => loaded'[u] = 0
    <3>1. CASE u = t BY <1>1, <1>2, <3>1
    <3>2. CASE u # t
      <4>1. thread'[u] = thread[u] /\ loaded'[u] = loaded[u] BY <1>1, <1>2, <3>2
      <4>2. thread[u] \in {"log", "load"} => Both
        <5>1. CASE u = main
          <6>1. t # main BY <3>2, <5>1
          <6> QED BY <1>1, <6>1 DEF LeaveInv
        <5>2. CASE u # main BY <5>2 DEF LeaveInv
        <5> QED BY <5>1, <5>2
      <4>3. thread[u] = "store" => loaded[u] < Limit
        BY <1>10, <3>2 DEF RaceInv, Past
      <4>4. loaded[u] \in Nat BY DEF PrinterType
      <4> QED BY <1>2, <1>3, <1>13, <3>2, <4>1, <4>2, <4>3, <4>4 DEF RaceInv, Past, Both
    <3> QED BY <3>1, <3>2
  <2>3. \A u, w \in Threads : u # w => ~(Past(u)' /\ Past(w)') BY <1>11, <1>12
  <2> QED BY <2>1, <2>2, <2>3 DEF RaceInv
<1> QED BY <1>4, <1>6, <1>7, <1>9, <1>14

LEMMA RearmStep ==
  ASSUME PrinterInv, NEW t \in Threads, Rearm(t)
  PROVE  PrinterInv'
<1> USE DEF PrinterInv
<1>1. /\ thread[t] = "rearm" /\ thread'[t] = "return"
      /\ thread' \in [Threads -> ThreadPlaces]
      /\ \A u \in Threads \ {t} : thread'[u] = thread[u]
  BY Moves DEF Rearm, ThreadPlaces
<1>2. /\ armed' = armed \union {handles[t]}
      /\ UNCHANGED <<program, handles, loaded, count>>
  BY DEF Rearm
<1>3. Busy(t) /\ ~Busy(t)' /\ \A u \in Threads \ {t} : Busy(u)' <=> Busy(u)
  BY <1>1 DEF Busy
<1>4. handles[t] \in Timers BY <1>3 DEF PrinterType, ChainInv
<1>5. PrinterType' BY <1>1, <1>2, <1>4 DEF PrinterType
<1>6. ChainInv'
  <2>1. \A u \in Threads \ {t} : Busy(u) => handles[u] # handles[t]
    BY <1>3 DEF ChainInv
  <2>2. \A u \in Threads : Busy(u)' => handles'[u] # NoTimer /\ handles'[u] \notin armed'
    BY <1>2, <1>3, <2>1 DEF ChainInv
  <2>3. \A u \in Threads : thread'[u] = "return" => handles'[u] # NoTimer
    BY <1>1, <1>2, <1>3 DEF ChainInv
  <2> QED BY <1>2, <1>3, <2>2, <2>3 DEF ChainInv
<1>7. LeaveInv'
  <2>1. thread[main] # "left" BY <1>3 DEF LeaveInv, ChainInv
  <2>2. thread'[main] # "left" BY <1>1, <2>1, PrinterAssumption
  <2>3. ~Both' => \A u \in Threads \ {main} : thread'[u] = "left"
    BY <1>1, <1>2 DEF LeaveInv, Both
  <2> QED BY <2>2, <2>3 DEF LeaveInv
<1>8. AliveInv' BY <1>1, <1>2 DEF AliveInv, Counts
<1>9. RaceInv' BY <1>1, <1>2 DEF RaceInv, Past, Both
<1> QED BY <1>5, <1>6, <1>7, <1>8, <1>9

LEMMA HandlerReturnsStep ==
  ASSUME PrinterInv, NEW t \in Threads, HandlerReturns(t)
  PROVE  PrinterInv'
<1> USE DEF PrinterInv
<1>1. /\ thread[t] = "return" /\ thread'[t] = "run"
      /\ thread' \in [Threads -> ThreadPlaces]
      /\ \A u \in Threads \ {t} : thread'[u] = thread[u]
  BY Moves DEF HandlerReturns, ThreadPlaces
<1>2. /\ handles' \in [Threads -> Timers \union {NoTimer}] /\ handles'[t] = NoTimer
      /\ \A u \in Threads \ {t} : handles'[u] = handles[u]
      /\ UNCHANGED <<program, armed, loaded, count>>
  BY DEF HandlerReturns, PrinterType
<1>3. PrinterType' BY <1>1, <1>2 DEF PrinterType
<1>4. ~Busy(t) /\ \A u \in Threads : Busy(u)' <=> Busy(u) BY <1>1 DEF Busy
<1>5. ChainInv' BY <1>1, <1>2, <1>4 DEF ChainInv
<1>6. LeaveInv' BY <1>1, <1>2, PrinterAssumption DEF LeaveInv, Both
<1>7. AliveInv' BY <1>1, <1>2, <1>4 DEF AliveInv, Counts
<1>8. RaceInv' BY <1>1, <1>2 DEF RaceInv, Past, Both
<1> QED BY <1>3, <1>5, <1>6, <1>7, <1>8

LEMMA LeaveRunStep ==
  ASSUME PrinterInv, NEW t \in Threads, LeaveRun(t)
  PROVE  PrinterInv'
<1> USE DEF PrinterInv
<1>1. /\ thread[t] = "run" /\ thread'[t] = "left"
      /\ thread' \in [Threads -> ThreadPlaces]
      /\ \A u \in Threads \ {t} : thread'[u] = thread[u]
  BY Moves DEF LeaveRun, ThreadPlaces
<1>2. UNCHANGED <<program, armed, handles, loaded, count>> /\ ~HasWork
  BY DEF LeaveRun
<1>3. PrinterType' BY <1>1, <1>2 DEF PrinterType
<1>4. \A u \in Threads : Busy(u)' <=> Busy(u) BY <1>1 DEF Busy
<1>5. ChainInv' BY <1>1, <1>2, <1>4 DEF ChainInv
<1>6. LeaveInv' BY <1>1, <1>2 DEF LeaveInv, Both, HasWork
<1>7. AliveInv' BY <1>1, <1>2, <1>4 DEF AliveInv, Counts
<1>8. RaceInv' BY <1>1, <1>2 DEF RaceInv, Past, Both
<1> QED BY <1>3, <1>5, <1>6, <1>7, <1>8

LEMMA PrinterKept == PrinterInv /\ UNCHANGED printer => PrinterInv'
<1> SUFFICES ASSUME PrinterInv, UNCHANGED printer PROVE PrinterInv' OBVIOUS
<1>1. UNCHANGED <<program, armed, thread, handles, loaded, count>> BY DEF printer
<1>2. PrinterType' BY <1>1 DEF PrinterInv, PrinterType
<1>3. ChainInv' BY <1>1 DEF PrinterInv, ChainInv, Busy
<1>4. LeaveInv' BY <1>1 DEF PrinterInv, LeaveInv, Both
<1>5. AliveInv' BY <1>1 DEF PrinterInv, AliveInv, Counts, Busy
<1>6. RaceInv' BY <1>1 DEF PrinterInv, RaceInv, Past, Both
<1> QED BY <1>2, <1>3, <1>4, <1>5, <1>6 DEF PrinterInv

LEMMA PrinterStep == PrinterInv /\ [Next]_vars => PrinterInv'
<1> SUFFICES ASSUME PrinterInv, [Next]_vars PROVE PrinterInv' OBVIOUS
<1>1. CASE UNCHANGED vars \/ Done \/ (Tick /\ UNCHANGED printer)
  BY <1>1, PrinterKept DEF vars, Done
<1>2. ASSUME NEW t \in Threads, Step(t) PROVE PrinterInv'
  <2>1. CASE EnterRun(t) BY <2>1, EnterRunStep
  <2>2. CASE \E m \in Timers : Expire(t, m) BY <2>2, ExpireStep
  <2>3. CASE Test(t) BY <2>3, TestStep
  <2>4. CASE LogCount(t) BY <2>4, LogCountStep
  <2>5. CASE Logging(t) BY <2>5, PrinterKept DEF Logging
  <2>6. CASE Load(t) BY <2>6, LoadStep
  <2>7. CASE Store(t) BY <2>7, StoreStep
  <2>8. CASE Rearm(t) BY <2>8, RearmStep
  <2>9. CASE HandlerReturns(t) BY <2>9, HandlerReturnsStep
  <2>10. CASE LeaveRun(t) BY <2>10, LeaveRunStep
  <2> QED BY <1>2, <2>1, <2>2, <2>3, <2>4, <2>5, <2>6, <2>7, <2>8, <2>9, <2>10 DEF Step
<1> QED BY <1>1, <1>2 DEF Next

-----------------------------------------------------------------------------
(* The logger.                                                             *)

Dates == [sec : 0 .. Minute - 1, rest : 0 .. MaxSecond]
LogPlaces == {"idle", "now", "stamp", "localtime", "sec", "rest", "print"}

\* A date has a second of the minute and minutes that fit the clock.
LEMMA DateType ==
  ASSUME NEW s \in 0 .. MaxSecond
  PROVE  Date(s) \in Dates
<1>1. Minute \in Nat \ {0} /\ MaxSecond \in Nat BY LoggerAssumption
<1>2. s % Minute \in 0 .. Minute - 1 BY <1>1
<1>3. s \div Minute \in 0 .. MaxSecond BY <1>1
<1> QED BY <1>2, <1>3 DEF Date, Dates

LEMMA LogMoves ==
  ASSUME LogTypeOK, NEW t \in Threads, NEW from, NEW to \in LogPlaces,
         LogGoto(t, from, to)
  PROVE  /\ log[t] = from /\ log'[t] = to
         /\ log' \in [Threads -> LogPlaces]
         /\ \A u \in Threads \ {t} : log'[u] = log[u]
BY DEF LogTypeOK, LogGoto, LogPlaces

LEMMA InitLog == LogInit => LogInv
<1> SUFFICES ASSUME LogInit PROVE LogInv OBVIOUS
<1>1. Minute \in Nat \ {0} /\ MaxSecond \in Nat \ {0} BY LoggerAssumption
<1>2. Date(0) \in Dates BY <1>1, DateType
<1>3. LogTypeOK BY <1>1, <1>2 DEF LogInit, LogTypeOK, Dates, Levels, DEBUG
<1>4. DateInv BY DEF LogInit, DateInv
<1> QED BY <1>3, <1>4 DEF LogInv

LEMMA LogCallStep ==
  ASSUME LogInv, NEW t \in Threads, NEW l, LogCall(t, l)
  PROVE  LogInv'
<1> USE DEF LogInv
<1>1. PICK to \in {"idle", "now"} : LogGoto(t, "idle", to) BY DEF LogCall
<1>2. /\ log[t] = "idle" /\ log'[t] = to /\ log' \in [Threads -> LogPlaces]
      /\ \A u \in Threads \ {t} : log'[u] = log[u]
  BY <1>1, LogMoves DEF LogPlaces
<1>3. UNCHANGED <<clock, level, tm, buf, last_second, now, raced>> BY DEF LogCall
<1>4. LogTypeOK' BY <1>2, <1>3 DEF LogTypeOK, LogPlaces, Levels
<1>5. DateInv' BY <1>2, <1>3 DEF DateInv, Date
<1> QED BY <1>4, <1>5

\* A call of localtime() spoils what other threads are reading, and says so.
LEMMA LogStepStep ==
  ASSUME LogInv, NEW t \in Threads, LogStep(t)
  PROVE  LogInv'
<1> USE DEF LogInv
<1>0. /\ Minute \in Nat \ {0} /\ MaxSecond \in Nat \ {0}
      /\ clock \in 1 .. MaxSecond /\ now[t] \in 0 .. MaxSecond
      /\ tm \in Dates /\ buf \in [Threads -> Dates]
  BY LoggerAssumption DEF LogTypeOK, Dates
<1>1. CASE Now(t)
  <2>1. /\ log[t] = "now" /\ log'[t] = "stamp" /\ log' \in [Threads -> LogPlaces]
        /\ \A u \in Threads \ {t} : log'[u] = log[u]
    BY <1>1, LogMoves DEF Now, LogPlaces
  <2>2. /\ now' \in [Threads -> 0 .. MaxSecond]
        /\ \A u \in Threads \ {t} : now'[u] = now[u]
        /\ UNCHANGED <<clock, level, tm, buf, last_second, raced>>
    BY <1>0, <1>1 DEF Now, LogTypeOK
  <2>3. LogTypeOK' BY <2>1, <2>2 DEF LogTypeOK, LogPlaces, Levels
  <2>4. DateInv' BY <2>1, <2>2 DEF DateInv, Date
  <2> QED BY <2>3, <2>4
<1>2. CASE GetTimestamp(t)
  <2>1. PICK to \in {"print", "localtime"} :
          /\ to = IF last_second[t] = now[t] THEN "print" ELSE "localtime"
          /\ LogGoto(t, "stamp", to)
    BY <1>2 DEF GetTimestamp
  <2>2. /\ log[t] = "stamp" /\ log'[t] = to /\ log' \in [Threads -> LogPlaces]
        /\ \A u \in Threads \ {t} : log'[u] = log[u]
    BY <2>1, LogMoves DEF LogPlaces
  <2>3. /\ last_second' \in [Threads -> 0 .. MaxSecond] /\ last_second'[t] = now[t]
        /\ \A u \in Threads \ {t} : last_second'[u] = last_second[u]
        /\ UNCHANGED <<clock, level, tm, buf, now, raced>>
    BY <1>0, <1>2 DEF GetTimestamp, LogTypeOK
  <2>4. LogTypeOK' BY <2>2, <2>3 DEF LogTypeOK, LogPlaces, Levels
  <2>5. DateInv' BY <2>1, <2>2, <2>3 DEF DateInv, Date
  <2> QED BY <2>4, <2>5
<1>3. CASE Localtime(t)
  <2>1. /\ log[t] = "localtime" /\ log'[t] = "sec" /\ log' \in [Threads -> LogPlaces]
        /\ \A u \in Threads \ {t} : log'[u] = log[u]
    BY <1>3, LogMoves DEF Localtime, LogPlaces
  <2>2. /\ tm' = Date(now[t]) /\ raced' \in [Threads -> BOOLEAN]
        /\ \A u \in Threads \ {t} : raced'[u] = (raced[u] \/ log[u] \in {"sec", "rest"})
        /\ UNCHANGED <<clock, level, buf, last_second, now>>
    BY <1>3 DEF Localtime, LogTypeOK
  <2>3. tm' \in Dates BY <1>0, <2>2, DateType
  <2>4. LogTypeOK' BY <2>1, <2>2, <2>3 DEF LogTypeOK, LogPlaces, Levels, Dates
  <2>5. DateInv' BY <2>1, <2>2 DEF DateInv, Date
  <2> QED BY <2>4, <2>5
<1>4. CASE ReadSecond(t)
  <2>1. /\ log[t] = "sec" /\ log'[t] = "rest" /\ log' \in [Threads -> LogPlaces]
        /\ \A u \in Threads \ {t} : log'[u] = log[u]
    BY <1>4, LogMoves DEF ReadSecond, LogPlaces
  <2>2. /\ buf' \in [Threads -> Dates] /\ buf'[t].sec = tm.sec
        /\ \A u \in Threads \ {t} : buf'[u] = buf[u]
        /\ UNCHANGED <<clock, level, tm, last_second, now, raced>>
    BY <1>0, <1>4 DEF ReadSecond, Dates
  <2>3. LogTypeOK' BY <2>1, <2>2 DEF LogTypeOK, LogPlaces, Levels, Dates
  <2>4. DateInv' BY <2>1, <2>2 DEF DateInv, Date
  <2> QED BY <2>3, <2>4
<1>5. CASE ReadRest(t)
  <2>1. /\ log[t] = "rest" /\ log'[t] = "print" /\ log' \in [Threads -> LogPlaces]
        /\ \A u \in Threads \ {t} : log'[u] = log[u]
    BY <1>5, LogMoves DEF ReadRest, LogPlaces
  <2>2. /\ buf' \in [Threads -> Dates]
        /\ buf'[t].sec = buf[t].sec /\ buf'[t].rest = tm.rest
        /\ \A u \in Threads \ {t} : buf'[u] = buf[u]
        /\ UNCHANGED <<clock, level, tm, last_second, now, raced>>
    BY <1>0, <1>5 DEF ReadRest, Dates
  <2>3. LogTypeOK' BY <2>1, <2>2 DEF LogTypeOK, LogPlaces, Levels, Dates
  <2>4. ASSUME ~raced[t] PROVE buf'[t] = Date(last_second[t])
    <3>1. tm = Date(now[t]) /\ buf[t].sec = tm.sec /\ last_second[t] = now[t]
      BY <2>1, <2>4 DEF DateInv
    <3>2. buf'[t] = [sec |-> tm.sec, rest |-> tm.rest] BY <2>2, <3>1 DEF Dates
    <3>3. tm = [sec |-> tm.sec, rest |-> tm.rest] BY <1>0 DEF Dates
    <3> QED BY <3>1, <3>2, <3>3
  <2>5. DateInv' BY <2>1, <2>2, <2>4 DEF DateInv, Date
  <2> QED BY <2>3, <2>5
<1>6. CASE PrintLine(t)
  <2>1. /\ log[t] = "print" /\ log'[t] = "idle" /\ log' \in [Threads -> LogPlaces]
        /\ \A u \in Threads \ {t} : log'[u] = log[u]
    BY <1>6, LogMoves DEF PrintLine, LogPlaces
  <2>2. /\ now' \in [Threads -> 0 .. MaxSecond]
        /\ \A u \in Threads \ {t} : now'[u] = now[u]
        /\ UNCHANGED <<clock, level, tm, buf, last_second, raced>>
    BY <1>0, <1>6 DEF PrintLine, LogTypeOK
  <2>3. LogTypeOK' BY <2>1, <2>2 DEF LogTypeOK, LogPlaces, Levels
  <2>4. DateInv' BY <2>1, <2>2 DEF DateInv, Date
  <2> QED BY <2>3, <2>4
<1> QED BY <1>1, <1>2, <1>3, <1>4, <1>5, <1>6 DEF LogStep

LEMMA LogKept == LogInv /\ UNCHANGED logVars => LogInv'
BY DEF LogInv, logVars, LogTypeOK, DateInv, Date, Levels

LEMMA TickStep == LogInv /\ Tick => LogInv'
<1> SUFFICES ASSUME LogInv, Tick PROVE LogInv' OBVIOUS
<1>1. /\ clock' \in 1 .. MaxSecond
      /\ UNCHANGED <<level, tm, buf, last_second, log, now, raced>>
  BY LoggerAssumption DEF Tick, LogInv, LogTypeOK
<1> QED BY <1>1 DEF LogInv, LogTypeOK, DateInv, Date, Levels

LEMMA LoggerStep == LogInv /\ [Next]_vars => LogInv'
<1> SUFFICES ASSUME LogInv, [Next]_vars PROVE LogInv' OBVIOUS
<1>1. CASE UNCHANGED vars \/ Done BY <1>1, LogKept DEF vars, Done
<1>2. CASE Tick BY <1>2, TickStep
<1>3. ASSUME NEW t \in Threads, Step(t) PROVE LogInv'
  <2>1. CASE LogCount(t) BY <2>1, LogCallStep DEF LogCount
  <2>2. CASE Logging(t) BY <2>2, LogStepStep DEF Logging
  <2>3. CASE EnterRun(t) \/ (\E m \in Timers : Expire(t, m)) \/ Test(t) \/ Load(t)
             \/ Store(t) \/ Rearm(t) \/ HandlerReturns(t) \/ LeaveRun(t)
    BY <2>3, LogKept
    DEF logVars, EnterRun, Expire, Test, Load, Store, Rearm, HandlerReturns, LeaveRun
  <2> QED BY <1>3, <2>1, <2>2, <2>3 DEF Step
<1> QED BY <1>1, <1>2, <1>3 DEF Next

-----------------------------------------------------------------------------
\* The invariant behind the theorems: see its parts above.
THEOREM PrinterInvHolds == Spec => [](PrinterInv /\ LogInv)
<1>1. Init => PrinterInv /\ LogInv BY InitPrinter, InitLog DEF Init
<1>2. PrinterInv /\ LogInv /\ [Next]_vars => (PrinterInv /\ LogInv)'
  BY PrinterStep, LoggerStep
<1> QED BY <1>1, <1>2, PTL DEF Spec

\* The variables of the timers and of the logger keep their types.
THEOREM TypeCorrect == Spec => []TypeOK
<1>1. PrinterInv /\ LogInv => TypeOK
  <2> SUFFICES ASSUME PrinterInv, LogInv PROVE TypeOK OBVIOUS
  <2>1. Limit \in Nat /\ \A t \in Threads : loaded[t] \in Nat /\ loaded[t] <= Limit
    BY PrinterAssumption DEF PrinterInv, PrinterType, RaceInv
  <2>2. loaded \in [Threads -> 0 .. Limit] BY <2>1 DEF PrinterInv, PrinterType
  <2> QED BY <2>2 DEF TypeOK, PrinterInv, PrinterType, ThreadPlaces, LogInv
<1> QED BY <1>1, PrinterInvHolds, PTL

\* However the handlers of the two timers race on count_, it ends at the limit or at one
\* more, and with one timer at the limit.
THEOREM FinalCountCorrect == Spec => []FinalCount
<1>1. PrinterInv => FinalCount
  <2> SUFFICES ASSUME PrinterInv, \A t \in Threads : thread[t] = "left"
               PROVE  count \in CASE Both            -> Limit .. Limit + 1
                                  [] Counts /\ ~Both -> {Limit}
                                  [] ~Counts         -> {0}
    BY DEF FinalCount
  <2>1. count \in Nat /\ Limit \in Nat BY PrinterAssumption DEF PrinterInv, PrinterType
  <2>2. armed = {} /\ \A t \in Threads : ~Busy(t)
    BY PrinterAssumption DEF PrinterInv, LeaveInv, Busy
  <2>3. Counts => count >= Limit BY <2>1, <2>2 DEF PrinterInv, AliveInv
  <2>4. count <= IF Both THEN Limit + 1 ELSE Limit BY DEF PrinterInv, RaceInv
  <2>5. Both => Counts BY DEF Both, Counts
  <2>6. CASE Both BY <2>1, <2>3, <2>4, <2>5, <2>6
  <2>7. CASE Counts /\ ~Both
    <3>1. count = Limit BY <2>1, <2>3, <2>4, <2>7
    <3> QED BY <2>7, <3>1
  <2>8. CASE ~Counts
    <3>1. count = 0 BY <2>8 DEF PrinterInv, AliveInv
    <3> QED BY <2>5, <2>8, <3>1
  <2> QED BY <2>6, <2>7, <2>8
<1> QED BY <1>1, PrinterInvHolds, PTL

\* The date in front of a message is of the second in which it was logged, unless another
\* thread called localtime() while the date was read.
THEOREM DateIsOwnUnlessRacedCorrect == Spec => []DateIsOwnUnlessRaced
<1>1. LogInv => DateIsOwnUnlessRaced
  BY DEF LogInv, LogTypeOK, DateInv, DateIsOwnUnlessRaced
<1> QED BY <1>1, PrinterInvHolds, PTL
=============================================================================
