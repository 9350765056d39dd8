----------------------- MODULE BenchmarkServer_proofs -----------------------
(***************************************************************************)
(* Proofs about the server programs of asio/benchmark. Of IOContextPool,   *)
(* for every pool size and every bound: its type invariant, round robin,   *)
(* the life of the event loops and their threads, and that it implements   *)
(* PoolService. Of the benchmark server on it, for any number of           *)
(* connections: that it is a user of the pool as the pool expects them,    *)
(* loses no operation, calls get_io_context from one thread at a time,     *)
(* spreads its connections, and keeps what ConnectionService promises. Of  *)
(* the limit of open files these programs raise: that it is raised as far  *)
(* as allowed and restored exactly.                                        *)
(***************************************************************************)
EXTENDS BenchmarkServer, ResourceLimit, FiniteSetTheorems, TLAPS

\* Facts about where the constructor and stop() are: a constructed pool that is
\* not stopping holds every guard, one past the first loop of stop() holds none,
\* and a thread has left run() only if its context was stopped.
GuardInv ==
  /\ main = "ctor" =>
       /\ stop_phase = "idle"
       /\ built < PoolSize
       /\ \A c \in Contexts : ~stopped[c]
       /\ \A c \in Contexts : c \in work_guards <=> c < built
  /\ main # "ctor" /\ stop_phase = "idle" => \A c \in Contexts : c \in work_guards
  /\ stop_phase \in {"halt", "done"} => work_guards = {}
  /\ \A c \in Contexts : stopped[c] => c \notin work_guards
  /\ \A c \in Contexts : thread[c] \in {"returned", "joined"} => stopped[c]

\* How far run() is decides which threads exist; handlers run on running threads
\* only, and stop() on a thread that is inside a handler, or in the destructor.
ThreadInv ==
  /\ main \in {"ctor", "setup"} => \A c \in Contexts : thread[c] = "none"
  /\ main = "spawn" => \A c \in Contexts : thread[c] = "none" <=> c >= cursor
  /\ main = "join" => \A c \in Contexts : /\ thread[c] # "none"
                                          /\ c < cursor => thread[c] = "joined"
  /\ main \in {"ran", "dtor", "gone"} =>
       \A c \in Contexts : thread[c] \in {"none", "joined"}
  /\ main \in {"spawn", "join"} => cursor < PoolSize
  /\ main \in {"ctor", "setup"} => cursor = 0
  /\ stop_index < PoolSize
  /\ stop_phase # "halt" => stop_index = 0
  /\ stop_phase \in {"idle", "done"} => stop_by = NoThread
  /\ \A c \in Contexts : busy[c] => thread[c] = "running"
  /\ \A c \in Contexts : stop_by = c => busy[c]
  /\ stop_by = Main => main = "dtor"

USE DEF Contexts, Threads, Main, NoThread, AcceptorContext

\* The invariant the proofs rest on.
IInv == TypeOK /\ RoundRobin /\ GuardInv /\ ThreadInv

\* The constructor starts from an empty pool.
LEMMA InitIInv == Init => IInv
BY PoolAssumption DEF Init, IInv, TypeOK, RoundRobin, GuardInv, ThreadInv

\* Every step, of every thread, keeps the types.
LEMMA TypeStep == IInv /\ [Next]_poolVars => TypeOK'
<1> SUFFICES ASSUME IInv, [Next]_poolVars PROVE TypeOK'
  OBVIOUS
<1> USE PoolAssumption DEF IInv
<1>2. CASE Construct
  BY <1>2 DEF Construct, TypeOK, stopVars, GuardInv
<1>3. CASE StartRun
  BY <1>3 DEF StartRun, TypeOK, stopVars
<1>4. CASE SpawnThread
  <2>1. cursor \in Contexts /\ cursor + 1 \in 0 .. PoolSize
    BY <1>4 DEF SpawnThread, TypeOK, ThreadInv
  <2>2. cursor' \in 0 .. PoolSize /\ main' \in {"spawn", "join"}
    BY <1>4, <2>1 DEF SpawnThread
  <2>3. thread' \in [Contexts -> {"none", "started", "running", "returned", "joined"}]
    BY <1>4, <2>1 DEF SpawnThread, TypeOK
  <2>4. QED
    BY <1>4, <2>2, <2>3 DEF SpawnThread, TypeOK, stopVars
<1>5. CASE JoinThread
  <2>1. cursor \in Contexts /\ cursor + 1 \in 0 .. PoolSize
    BY <1>5 DEF JoinThread, TypeOK, ThreadInv
  <2>2. cursor' \in 0 .. PoolSize /\ main' \in {"join", "ran"}
    BY <1>5, <2>1 DEF JoinThread
  <2>3. thread' \in [Contexts -> {"none", "started", "running", "returned", "joined"}]
    BY <1>5, <2>1 DEF JoinThread, TypeOK
  <2>4. QED
    BY <1>5, <2>2, <2>3 DEF JoinThread, TypeOK, stopVars
<1>6. CASE Destroy
  BY <1>6 DEF Destroy, TypeOK, stopVars
<1>7. CASE Destroyed
  BY <1>7 DEF Destroyed, TypeOK, stopVars
<1>8. ASSUME NEW t \in Threads, GetIoContext(t) PROVE TypeOK'
  <2>1. next_io_context' \in Contexts
    BY <1>8 DEF GetIoContext, AdvanceIndex, TypeOK
  <2>2. dispatched' \in [Contexts -> Nat]
    BY <1>8 DEF GetIoContext, TypeOK
  <2>3. QED
    BY <1>8, <2>1, <2>2 DEF GetIoContext, TypeOK, stopVars
<1>9. ASSUME NEW t \in Threads, NEW c \in Contexts, PostOp(t, c) PROVE TypeOK'
  BY <1>9 DEF PostOp, TypeOK, stopVars
<1>10. ASSUME NEW c \in Contexts, EnterRun(c) PROVE TypeOK'
  <2>1. thread' \in [Contexts -> {"none", "started", "running", "returned", "joined"}]
    BY <1>10 DEF EnterRun, TypeOK
  <2>2. stopped' \in [Contexts -> BOOLEAN]
    BY <1>10 DEF EnterRun, TypeOK
  <2>3. QED
    BY <1>10, <2>1, <2>2 DEF EnterRun, TypeOK, stopVars
<1>11. ASSUME NEW c \in Contexts, BeginHandler(c) PROVE TypeOK'
  BY <1>11 DEF BeginHandler, TypeOK, stopVars
<1>12. ASSUME NEW c \in Contexts, EndHandler(c) PROVE TypeOK'
  BY <1>12 DEF EndHandler, TypeOK, stopVars
<1>13. ASSUME NEW c \in Contexts, LeaveRun(c) PROVE TypeOK'
  BY <1>13 DEF LeaveRun, TypeOK, stopVars
<1>14. ASSUME NEW c \in Contexts, CallStop(c) PROVE TypeOK'
  BY <1>14 DEF CallStop, TypeOK, stopVars
<1>15. CASE ResetGuard
  BY <1>15 DEF ResetGuard, TypeOK, stopVars
<1>16. CASE ClearGuards
  BY <1>16 DEF ClearGuards, TypeOK, stopVars
<1>17. CASE HaltContext
  <2>1. stop_index \in Contexts /\ stop_index + 1 \in 0 .. PoolSize
    BY <1>17 DEF HaltContext, TypeOK, ThreadInv
  <2>2. /\ stop_index' \in 0 .. PoolSize
        /\ stop_by' \in {stop_by, NoThread}
        /\ stop_phase' \in {"halt", "done"}
    BY <1>17, <2>1 DEF HaltContext
  <2>3. stopped' \in [Contexts -> BOOLEAN]
    BY <1>17, <2>1 DEF HaltContext, TypeOK
  <2>4. QED
    BY <1>17, <2>2, <2>3 DEF HaltContext, TypeOK
<1>18. CASE UNCHANGED poolVars
  BY <1>18 DEF poolVars, TypeOK, stopVars
<1>19. QED
  BY <1>2, <1>3, <1>4, <1>5, <1>6, <1>7, <1>8, <1>9, <1>10, <1>11, <1>12,
     <1>13, <1>14, <1>15, <1>16, <1>17, <1>18
     DEF Next, MainStep, UserStep, StopStep

\* get_io_context is the only step that moves the index or hands out a context,
\* and it moves both so that round robin is kept, the wrap included.
LEMMA RoundRobinStep == IInv /\ [Next]_poolVars => RoundRobin'
<1> SUFFICES ASSUME IInv, [Next]_poolVars PROVE RoundRobin'
  OBVIOUS
<1> USE PoolAssumption DEF IInv
<1>2. CASE Construct
  BY <1>2 DEF Construct, TypeOK, RoundRobin
<1>3. CASE StartRun
  BY <1>3 DEF StartRun, TypeOK, RoundRobin
<1>4. CASE SpawnThread
  BY <1>4 DEF SpawnThread, TypeOK, RoundRobin
<1>5. CASE JoinThread
  BY <1>5 DEF JoinThread, TypeOK, RoundRobin
<1>6. CASE Destroy
  BY <1>6 DEF Destroy, TypeOK, RoundRobin
<1>7. CASE Destroyed
  BY <1>7 DEF Destroyed, TypeOK, RoundRobin
<1>8. ASSUME NEW t \in Threads, GetIoContext(t) PROVE RoundRobin'
  <2>1. \A c \in Contexts :
          dispatched'[c] = dispatched[c] + IF c = next_io_context THEN 1 ELSE 0
    <3>1. dispatched \in [Contexts -> Nat]
      BY DEF TypeOK
    <3>2. dispatched' = [dispatched EXCEPT ![next_io_context] = @ + 1]
      BY <1>8 DEF GetIoContext
    <3>3. QED
      BY <3>1, <3>2
  <2>2. ASSUME NEW c \in Contexts
        PROVE  /\ dispatched[c] \in Nat
               /\ dispatched[c] = dispatched[PoolSize - 1]
                                  + IF c < next_io_context THEN 1 ELSE 0
    BY DEF TypeOK, RoundRobin
  <2>3. SUFFICES ASSUME NEW c \in Contexts
                 PROVE  dispatched'[c] = dispatched'[PoolSize - 1]
                                         + IF c < next_io_context' THEN 1 ELSE 0
    BY DEF RoundRobin
  <2>4. PoolSize - 1 \in Contexts /\ next_io_context \in Contexts
    BY DEF TypeOK
  <2>5. dispatched[PoolSize - 1] \in Nat
    BY <2>2, <2>4
  <2>6. CASE next_io_context + 1 = PoolSize
    <3>1. next_io_context' = 0
      BY <1>8, <2>6 DEF GetIoContext, AdvanceIndex
    <3>2. dispatched'[PoolSize - 1] = dispatched[PoolSize - 1] + 1
      BY <2>1, <2>4, <2>6
    <3>3. dispatched'[c] = dispatched[PoolSize - 1] + 1
      BY <2>1, <2>2, <2>4, <2>5, <2>6
    <3>4. QED
      BY <2>5, <3>1, <3>2, <3>3
  <2>7. CASE next_io_context + 1 # PoolSize
    <3>1. next_io_context' = next_io_context + 1
      BY <1>8, <2>7 DEF GetIoContext, AdvanceIndex
    <3>2. dispatched'[PoolSize - 1] = dispatched[PoolSize - 1]
      BY <2>1, <2>4, <2>5, <2>7
    <3>3. QED
      BY <2>1, <2>2, <2>4, <2>5, <3>1, <3>2
  <2>8. QED
    BY <2>6, <2>7
<1>9. ASSUME NEW t \in Threads, NEW c \in Contexts, PostOp(t, c) PROVE RoundRobin'
  BY <1>9 DEF PostOp, InUserCode, TypeOK, RoundRobin
<1>10. ASSUME NEW c \in Contexts, EnterRun(c) PROVE RoundRobin'
  BY <1>10 DEF EnterRun, HasWork, TypeOK, RoundRobin
<1>11. ASSUME NEW c \in Contexts, BeginHandler(c) PROVE RoundRobin'
  BY <1>11 DEF BeginHandler, TypeOK, RoundRobin
<1>12. ASSUME NEW c \in Contexts, EndHandler(c) PROVE RoundRobin'
  BY <1>12 DEF EndHandler, TypeOK, RoundRobin
<1>13. ASSUME NEW c \in Contexts, LeaveRun(c) PROVE RoundRobin'
  BY <1>13 DEF LeaveRun, TypeOK, RoundRobin
<1>14. ASSUME NEW c \in Contexts, CallStop(c) PROVE RoundRobin'
  BY <1>14 DEF CallStop, TypeOK, RoundRobin
<1>15. CASE ResetGuard
  BY <1>15 DEF ResetGuard, TypeOK, RoundRobin
<1>16. CASE ClearGuards
  BY <1>16 DEF ClearGuards, TypeOK, RoundRobin
<1>17. CASE HaltContext
  BY <1>17 DEF HaltContext, TypeOK, RoundRobin
<1>18. CASE UNCHANGED poolVars
  BY <1>18 DEF poolVars, TypeOK, RoundRobin
<1>19. QED
  BY <1>2, <1>3, <1>4, <1>5, <1>6, <1>7, <1>8, <1>9, <1>10, <1>11, <1>12,
     <1>13, <1>14, <1>15, <1>16, <1>17, <1>18
     DEF Next, MainStep, UserStep, StopStep

\* No step but stop() takes a guard, and none stops a context that holds one.
LEMMA GuardStep == IInv /\ [Next]_poolVars => GuardInv'
<1> SUFFICES ASSUME IInv, [Next]_poolVars PROVE GuardInv'
  OBVIOUS
<1> USE PoolAssumption DEF IInv
<1>2. CASE Construct
  BY <1>2 DEF Construct, TypeOK, GuardInv, ThreadInv, stopVars
<1>3. CASE StartRun
  BY <1>3 DEF StartRun, TypeOK, GuardInv, ThreadInv, stopVars
<1>4. CASE SpawnThread
  BY <1>4 DEF SpawnThread, TypeOK, GuardInv, ThreadInv, stopVars
<1>5. CASE JoinThread
  BY <1>5 DEF JoinThread, TypeOK, GuardInv, ThreadInv, stopVars
<1>6. CASE Destroy
  BY <1>6 DEF Destroy, TypeOK, GuardInv, ThreadInv, stopVars
<1>7. CASE Destroyed
  BY <1>7 DEF Destroyed, TypeOK, GuardInv, ThreadInv, stopVars
<1>8. ASSUME NEW t \in Threads, GetIoContext(t) PROVE GuardInv'
  BY <1>8
     DEF GetIoContext, AdvanceIndex, InUserCode, TypeOK, GuardInv,
         ThreadInv, stopVars
<1>9. ASSUME NEW t \in Threads, NEW c \in Contexts, PostOp(t, c) PROVE GuardInv'
  BY <1>9 DEF PostOp, InUserCode, TypeOK, GuardInv, ThreadInv, stopVars
<1>10. ASSUME NEW c \in Contexts, EnterRun(c) PROVE GuardInv'
  <2>1. /\ thread[c] = "started"
        /\ UNCHANGED <<built, work_guards, main, stop_phase>>
    BY <1>10 DEF EnterRun, stopVars
  <2>2. thread \in [Contexts -> {"none", "started", "running", "returned", "joined"}]
        /\ stopped \in [Contexts -> BOOLEAN]
    BY DEF TypeOK
  <2>3. main # "ctor"
    BY <2>1 DEF ThreadInv
  <2>4. CASE stopped[c] \/ ~HasWork(c)
    <3>1. /\ stopped' = [stopped EXCEPT ![c] = TRUE]
          /\ thread' = [thread EXCEPT ![c] = "returned"]
      BY <1>10, <2>4 DEF EnterRun
    <3>2. c \notin work_guards
      BY <2>4 DEF HasWork, GuardInv
    <3>3. QED
      BY <2>1, <2>2, <2>3, <3>1, <3>2 DEF GuardInv
  <2>5. CASE ~(stopped[c] \/ ~HasWork(c))
    <3>1. stopped' = stopped /\ thread' = [thread EXCEPT ![c] = "running"]
      BY <1>10, <2>5 DEF EnterRun
    <3>2. QED
      BY <2>1, <2>2, <2>3, <3>1 DEF GuardInv
  <2>6. QED
    BY <2>4, <2>5
<1>11. ASSUME NEW c \in Contexts, BeginHandler(c) PROVE GuardInv'
  BY <1>11 DEF BeginHandler, TypeOK, GuardInv, ThreadInv, stopVars
<1>12. ASSUME NEW c \in Contexts, EndHandler(c) PROVE GuardInv'
  BY <1>12 DEF EndHandler, TypeOK, GuardInv, ThreadInv, stopVars
<1>13. ASSUME NEW c \in Contexts, LeaveRun(c) PROVE GuardInv'
  BY <1>13 DEF LeaveRun, TypeOK, GuardInv, ThreadInv, stopVars
<1>14. ASSUME NEW c \in Contexts, CallStop(c) PROVE GuardInv'
  BY <1>14 DEF CallStop, TypeOK, GuardInv, ThreadInv, stopVars
<1>15. CASE ResetGuard
  BY <1>15 DEF ResetGuard, TypeOK, GuardInv, ThreadInv, stopVars
<1>16. CASE ClearGuards
  BY <1>16 DEF ClearGuards, TypeOK, GuardInv, ThreadInv, stopVars
<1>17. CASE HaltContext
  BY <1>17 DEF HaltContext, TypeOK, GuardInv, ThreadInv, stopVars
<1>18. CASE UNCHANGED poolVars
  BY <1>18 DEF poolVars, TypeOK, GuardInv, ThreadInv, stopVars
<1>19. QED
  BY <1>2, <1>3, <1>4, <1>5, <1>6, <1>7, <1>8, <1>9, <1>10, <1>11, <1>12,
     <1>13, <1>14, <1>15, <1>16, <1>17, <1>18
     DEF Next, MainStep, UserStep, StopStep

\* run() creates and joins threads in order; handlers and stop() run on them.
LEMMA ThreadStep == IInv /\ [Next]_poolVars => ThreadInv'
<1> SUFFICES ASSUME IInv, [Next]_poolVars PROVE ThreadInv'
  OBVIOUS
<1> USE PoolAssumption DEF IInv
<1>2. CASE Construct
  BY <1>2 DEF Construct, TypeOK, GuardInv, ThreadInv, stopVars
<1>3. CASE StartRun
  BY <1>3 DEF StartRun, TypeOK, GuardInv, ThreadInv, stopVars
<1>4. CASE SpawnThread
  <2>1. /\ thread \in [Contexts -> {"none", "started", "running", "returned", "joined"}]
        /\ cursor \in Contexts
    BY <1>4 DEF SpawnThread, TypeOK, ThreadInv
  <2>2. /\ main = "spawn"
        /\ thread' = [thread EXCEPT ![cursor] = "started"]
        /\ UNCHANGED <<busy, stopVars>>
    BY <1>4 DEF SpawnThread
  <2>3. /\ \A c \in Contexts : thread'[c] = "none" <=> c >= cursor + 1
        /\ \A c \in Contexts : busy[c] => thread'[c] = "running"
    BY <2>1, <2>2 DEF ThreadInv
  <2>4. CASE cursor + 1 = PoolSize
    <3>1. main' = "join" /\ cursor' = 0
      BY <1>4, <2>4 DEF SpawnThread
    <3>2. \A c \in Contexts : thread'[c] # "none"
      BY <2>3, <2>4
    <3>3. QED
      BY <2>2, <2>3, <3>1, <3>2 DEF ThreadInv, stopVars
  <2>5. CASE cursor + 1 # PoolSize
    <3>1. main' = "spawn" /\ cursor' = cursor + 1 /\ cursor' < PoolSize
      BY <1>4, <2>1, <2>2, <2>5 DEF SpawnThread
    <3>2. QED
      BY <2>2, <2>3, <3>1 DEF ThreadInv, stopVars
  <2>6. QED
    BY <2>4, <2>5
<1>5. CASE JoinThread
  BY <1>5 DEF JoinThread, TypeOK, GuardInv, ThreadInv, stopVars
<1>6. CASE Destroy
  BY <1>6 DEF Destroy, TypeOK, GuardInv, ThreadInv, stopVars
<1>7. CASE Destroyed
  <2>1. UNCHANGED <<thread, busy, cursor>>
    BY <1>7 DEF Destroyed
  <2>2. QED
    BY <1>7, <2>1 DEF Destroyed, TypeOK, ThreadInv, stopVars
<1>8. ASSUME NEW t \in Threads, GetIoContext(t) PROVE ThreadInv'
  BY <1>8
     DEF GetIoContext, AdvanceIndex, InUserCode, TypeOK, GuardInv,
         ThreadInv, stopVars
<1>9. ASSUME NEW t \in Threads, NEW c \in Contexts, PostOp(t, c) PROVE ThreadInv'
  BY <1>9 DEF PostOp, InUserCode, TypeOK, GuardInv, ThreadInv, stopVars
<1>10. ASSUME NEW c \in Contexts, EnterRun(c) PROVE ThreadInv'
  <2>1. /\ thread[c] = "started"
        /\ UNCHANGED <<main, cursor, busy, stopVars>>
    BY <1>10 DEF EnterRun
  <2>2. PICK s \in {"returned", "running"} : thread' = [thread EXCEPT ![c] = s]
    BY <1>10 DEF EnterRun
  <2>3. thread \in [Contexts -> {"none", "started", "running", "returned", "joined"}]
    BY DEF TypeOK
  <2>4. main \in {"spawn", "join"}
    BY <2>1 DEF ThreadInv, TypeOK
  <2>5. ~busy[c]
    BY <2>1 DEF ThreadInv
  <2>6. /\ \A d \in Contexts : thread'[d] = "none" <=> thread[d] = "none"
        /\ \A d \in Contexts : thread[d] = "joined" => thread'[d] = "joined"
        /\ \A d \in Contexts : busy[d] => thread'[d] = "running"
    BY <2>1, <2>2, <2>3, <2>5 DEF ThreadInv
  <2>7. QED
    BY <2>1, <2>4, <2>6 DEF ThreadInv, stopVars
<1>11. ASSUME NEW c \in Contexts, BeginHandler(c) PROVE ThreadInv'
  BY <1>11 DEF BeginHandler, TypeOK, GuardInv, ThreadInv, stopVars
<1>12. ASSUME NEW c \in Contexts, EndHandler(c) PROVE ThreadInv'
  BY <1>12 DEF EndHandler, TypeOK, GuardInv, ThreadInv, stopVars
<1>13. ASSUME NEW c \in Contexts, LeaveRun(c) PROVE ThreadInv'
  BY <1>13 DEF LeaveRun, TypeOK, GuardInv, ThreadInv, stopVars
<1>14. ASSUME NEW c \in Contexts, CallStop(c) PROVE ThreadInv'
  BY <1>14 DEF CallStop, TypeOK, GuardInv, ThreadInv, stopVars
<1>15. CASE ResetGuard
  BY <1>15 DEF ResetGuard, TypeOK, GuardInv, ThreadInv, stopVars
<1>16. CASE ClearGuards
  <2>1. UNCHANGED <<thread, busy, cursor>>
    BY <1>16 DEF ClearGuards
  <2>2. QED
    BY <1>16, <2>1 DEF ClearGuards, TypeOK, ThreadInv, stopVars
<1>17. CASE HaltContext
  <2>1. UNCHANGED <<thread, busy, main, cursor>>
    BY <1>17 DEF HaltContext
  <2>2. stop_index \in 0 .. PoolSize /\ stop_index < PoolSize
    BY DEF TypeOK, ThreadInv
  <2>3. CASE stop_index + 1 = PoolSize
    <3>1. stop_phase' = "done" /\ stop_by' = NoThread /\ stop_index' = 0
      BY <1>17, <2>3 DEF HaltContext
    <3>2. QED
      BY <2>1, <3>1 DEF ThreadInv
  <2>4. CASE stop_index + 1 # PoolSize
    <3>1. /\ stop_index' = stop_index + 1
          /\ stop_phase = "halt" /\ UNCHANGED <<stop_phase, stop_by>>
      BY <1>17, <2>4 DEF HaltContext
    <3>2. QED
      BY <2>1, <2>2, <2>4, <3>1 DEF ThreadInv
  <2>5. QED
    BY <2>3, <2>4
<1>18. CASE UNCHANGED poolVars
  BY <1>18 DEF poolVars, TypeOK, GuardInv, ThreadInv, stopVars
<1>19. QED
  BY <1>2, <1>3, <1>4, <1>5, <1>6, <1>7, <1>8, <1>9, <1>10, <1>11, <1>12,
     <1>13, <1>14, <1>15, <1>16, <1>17, <1>18
     DEF Next, MainStep, UserStep, StopStep

\* The strengthened invariant holds in every reachable state.
THEOREM Inductive == Spec => []IInv
<1>1. IInv /\ [Next]_poolVars => IInv'
  BY TypeStep, RoundRobinStep, GuardStep, ThreadStep DEF IInv
<1>2. QED
  BY InitIInv, <1>1, PTL DEF Spec

\* Every variable keeps its type under every step of the pool.
THEOREM TypeCorrect == Spec => []TypeOK
BY Inductive, PTL DEF IInv

\* get_io_context keeps the contexts balanced for every pool size and any number
\* of calls.
THEOREM RoundRobinCorrect == Spec => []RoundRobin
BY Inductive, PTL DEF IInv

\* Before stop() no event loop exits: the work guards keep every ctx->run() alive.
THEOREM ServesUntilStoppedCorrect == Spec => []ServesUntilStopped
<1>1. IInv => ServesUntilStopped
  BY DEF IInv, GuardInv, ThreadInv, ServesUntilStopped
<1>2. QED
  BY Inductive, <1>1, PTL

\* stop() never stops a context whose guard is still held.
THEOREM GuardsResetFirstCorrect == Spec => []GuardsResetFirst
<1>1. IInv => GuardsResetFirst
  BY DEF IInv, TypeOK, GuardInv, GuardsResetFirst
<1>2. QED
  BY Inductive, <1>1, PTL

\* run() returns, and the pool is destroyed, only when no worker thread is left.
THEOREM NoThreadOutlivesRunCorrect == Spec => []NoThreadOutlivesRun
<1>1. IInv => NoThreadOutlivesRun
  BY DEF IInv, TypeOK, ThreadInv, NoThreadOutlivesRun
<1>2. QED
  BY Inductive, <1>1, PTL

\* The abstract service's dispatch: the context get_io_context hands out is one
\* that has received the least.
LEMMA HandsOutLeastLoaded ==
  IInv => \A d \in Contexts : dispatched[next_io_context] <= dispatched[d]
BY PoolAssumption DEF IInv, TypeOK, RoundRobin

\* Every step of the pool is a step of the abstract service or leaves it alone.
LEMMA ServiceStep == IInv /\ [Next]_poolVars => [Service!Next]_(Service!vars)
<1> SUFFICES ASSUME IInv, [Next]_poolVars PROVE [Service!Next]_(Service!vars)
  OBVIOUS
<1> USE PoolAssumption DEF IInv, Service!Next, Service!vars
<1>2. CASE Construct
  BY <1>2 DEF Construct, TypeOK, stopVars
<1>3. CASE StartRun
  BY <1>3 DEF StartRun, TypeOK, stopVars
<1>4. CASE SpawnThread
  <2>0. cursor \in Contexts
    BY <1>4 DEF SpawnThread, TypeOK, ThreadInv
  <2>1. thread[cursor] = "none"
    BY <1>4, <2>0 DEF SpawnThread, TypeOK, ThreadInv
  <2>2. {c \in Contexts : thread'[c] \in {"started", "running"}}
          = {c \in Contexts : thread[c] \in {"started", "running"}} \union {cursor}
    BY <1>4, <2>0 DEF SpawnThread, TypeOK
  <2>3. Service!StartServing(cursor)
    BY <1>4, <2>0, <2>1, <2>2 DEF SpawnThread, stopVars, Service!StartServing
  <2>4. QED
    BY <2>0, <2>3 DEF Service!StartServing
<1>5. CASE JoinThread
  BY <1>5 DEF JoinThread, TypeOK, stopVars
<1>6. CASE Destroy
  BY <1>6 DEF Destroy, TypeOK, stopVars, Service!Close
<1>7. CASE Destroyed
  BY <1>7 DEF Destroyed, TypeOK, stopVars
<1>8. ASSUME NEW t \in Threads, GetIoContext(t) PROVE [Service!Next]_(Service!vars)
  <2>1. next_io_context \in Contexts
    BY DEF TypeOK
  <2>2. Service!Dispatch(next_io_context)
    <3>1. \A d \in Contexts : dispatched[next_io_context] <= dispatched[d]
      BY HandsOutLeastLoaded
    <3>2. /\ dispatched' = [dispatched EXCEPT ![next_io_context] = @ + 1]
          /\ UNCHANGED <<thread, stop_phase>>
      BY <1>8 DEF GetIoContext, stopVars
    <3>3. QED
      BY <3>1, <3>2 DEF Service!Dispatch
  <2>3. QED
    BY <2>1, <2>2
<1>9. ASSUME NEW t \in Threads, NEW c \in Contexts, PostOp(t, c)
      PROVE  [Service!Next]_(Service!vars)
  BY <1>9 DEF PostOp, InUserCode, TypeOK, stopVars
<1>10. ASSUME NEW c \in Contexts, EnterRun(c) PROVE [Service!Next]_(Service!vars)
  <2>1. CASE thread' = [thread EXCEPT ![c] = "running"]
    <3>1. {d \in Contexts : thread'[d] \in {"started", "running"}}
            = {d \in Contexts : thread[d] \in {"started", "running"}}
      BY <1>10, <2>1 DEF EnterRun, TypeOK
    <3>2. QED
      BY <1>10, <3>1 DEF EnterRun, stopVars
  <2>2. CASE /\ thread' = [thread EXCEPT ![c] = "returned"]
             /\ stopped[c] \/ ~HasWork(c)
    <3>1. stop_phase # "idle"
      BY <1>10, <2>2 DEF EnterRun, HasWork, TypeOK, GuardInv, ThreadInv
    <3>2. {d \in Contexts : thread'[d] \in {"started", "running"}}
            = {d \in Contexts : thread[d] \in {"started", "running"}} \ {c}
      BY <1>10, <2>2 DEF EnterRun, TypeOK
    <3>3. Service!StopServing(c)
      BY <1>10, <3>1, <3>2 DEF EnterRun, stopVars, Service!StopServing
    <3>4. QED
      BY <3>3
  <2>3. QED
    BY <1>10, <2>1, <2>2 DEF EnterRun
<1>11. ASSUME NEW c \in Contexts, BeginHandler(c) PROVE [Service!Next]_(Service!vars)
  BY <1>11 DEF BeginHandler, TypeOK, stopVars
<1>12. ASSUME NEW c \in Contexts, EndHandler(c) PROVE [Service!Next]_(Service!vars)
  BY <1>12 DEF EndHandler, TypeOK, stopVars
<1>13. ASSUME NEW c \in Contexts, LeaveRun(c) PROVE [Service!Next]_(Service!vars)
  <2>1. stop_phase # "idle"
    BY <1>13 DEF LeaveRun, TypeOK, GuardInv, ThreadInv
  <2>2. {d \in Contexts : thread'[d] \in {"started", "running"}}
          = {d \in Contexts : thread[d] \in {"started", "running"}} \ {c}
    BY <1>13 DEF LeaveRun, TypeOK
  <2>3. Service!StopServing(c)
    BY <1>13, <2>1, <2>2 DEF LeaveRun, stopVars, Service!StopServing
  <2>4. QED
    BY <2>3
<1>14. ASSUME NEW c \in Contexts, CallStop(c) PROVE [Service!Next]_(Service!vars)
  BY <1>14 DEF CallStop, TypeOK, stopVars, Service!Close
<1>15. CASE ResetGuard
  BY <1>15 DEF ResetGuard, TypeOK, stopVars
<1>16. CASE ClearGuards
  BY <1>16 DEF ClearGuards, TypeOK, stopVars
<1>17. CASE HaltContext
  BY <1>17 DEF HaltContext, TypeOK, stopVars
<1>18. CASE UNCHANGED poolVars
  BY <1>18 DEF poolVars, TypeOK, stopVars
<1>19. QED
  BY <1>2, <1>3, <1>4, <1>5, <1>6, <1>7, <1>8, <1>9, <1>10, <1>11, <1>12,
     <1>13, <1>14, <1>15, <1>16, <1>17, <1>18
     DEF Next, MainStep, UserStep, StopStep

\* IOContextPool implements PoolService.
THEOREM Refinement == Spec => PoolRefinement
<1>1. Init => Service!Init
  BY DEF Init, Service!Init
<1>2. QED
  BY Inductive, <1>1, ServiceStep, PTL DEF Spec, PoolRefinement, Service!Spec

-----------------------------------------------------------------------------
(* The server on the pool.                                                 *)

\* The connections that wait for an operation on a context, those that have been given a
\* context, and whether listen() holds one for the connection to come.
W == {"reading", "writing"}
Waiting(c) == {k \in Conns : home[k] = c /\ conn[k] \in W}
On(c) == {k \in Conns : conn[k] \notin {"absent", "backlog"} /\ home[k] = c}
HoldsContext == listener \in {"socket", "accepting", "failed", "dead"}

\* Where listen() can be while main is where it is, and whose thread runs it; which
\* connection it is about to spawn; that a connection ends only when its client hung up.
ListenInv ==
  /\ main \in {"ctor", "setup", "spawn", "join"} /\ stop_phase = "idle"
  /\ main = "ctor" => listener = "none"
  /\ main = "setup" => listener \in {"none", "loop", "socket", "accepting"}
  /\ main \in {"spawn", "join"} => listener # "none"
  /\ ListenerRuns => main = "setup" \/ busy[AcceptorContext]
  /\ listener \in {"accepted", "spawning"} =>
       newest \in Conns /\ conn[newest] = "accepted"
  /\ \A k \in Conns : conn[k] = "eof" => peer[k] # "up"
  /\ \A k \in Conns : unread[k] <= sent[k]
  /\ listener = "none" => \A k \in Conns : conn[k] = "absent"

\* OpsAccounted, by name.
OpsInv ==
  \A c \in Contexts :
    ops[c] = Cardinality(Waiting(c))
             + IF c = AcceptorContext /\ listener = "accepting" THEN 1 ELSE 0

\* Every context that was handed out is the acceptor's, that of a connection, or the one
\* listen() holds, which was the last.
HandoutInv ==
  /\ \A c \in Contexts :
       dispatched[c] = Cardinality(On(c))
                       + (IF listener # "none" /\ c = AcceptorContext THEN 1 ELSE 0)
                       + (IF HoldsContext /\ c = socket_ctx THEN 1 ELSE 0)
  /\ HoldsContext =>
       socket_ctx = IF next_io_context = 0 THEN PoolSize - 1 ELSE next_io_context - 1

SrvInv ==
  IInv /\ ServerTypeOK /\ ListenInv /\ OpsInv /\ HandoutInv

\* Every step of the server is a step of its pool, or leaves the pool alone.
LEMMA ServerPoolStep ==
  ASSUME ServerTypeOK, ListenInv, [ServerNext]_serverVars
  PROVE  [Next]_poolVars
<1> USE PoolAssumption DEF poolVars, ServerTypeOK, Next, MainStep, UserStep
<1>0. ListenThread \in Threads /\ AcceptorContext \in Contexts BY DEF ListenThread
<1>1. CASE UNCHANGED serverVars BY <1>1 DEF serverVars
<1>2. CASE MakeServer BY <1>2 DEF MakeServer
<1>3. CASE RunPool BY <1>3 DEF RunPool
<1>4. CASE TakeContext BY <1>0, <1>4 DEF TakeContext
<1>5. CASE StartAccept BY <1>0, <1>5 DEF StartAccept
<1>6. CASE ListenReturns \/ RemoteEndpoint \/ SpawnReturns
  BY <1>6 DEF ListenReturns, RemoteEndpoint, SpawnReturns
<1>7. CASE FirstRead
  <2>1. PostOp(AcceptorContext, home[newest]) BY <1>7 DEF FirstRead
  <2>2. home[newest] \in Contexts
    BY <1>7 DEF FirstRead, ListenInv
  <2> QED BY <1>0, <2>1, <2>2
<1>8. CASE AcceptFails BY <1>0, <1>8 DEF AcceptFails
<1>9. ASSUME NEW k \in Conns, AcceptDone(k) PROVE [Next]_poolVars
  BY <1>0, <1>9 DEF AcceptDone
<1>10. CASE PoolStep BY <1>10 DEF PoolStep
<1>11. ASSUME NEW k \in Conns, Process(k) \/ Completion(k) \/ Connect(k) \/ Send(k) \/ HangUp(k)
                                \/ Stall(k)
       PROVE  [Next]_poolVars
  <2>1. home[k] \in Contexts /\ home[k] \in Threads OBVIOUS
  <2> QED BY <1>11, <2>1
          DEF Process, Completion, Connect, Send, HangUp, Stall, ProcessReturns, StartWrite,
              NextRead, ReadDone, ReadFails, WriteDone
<1>12. ASSUME NEW c \in Contexts, HandlerReturns(c) PROVE [Next]_poolVars
  BY <1>12 DEF HandlerReturns
<1> QED BY <1>1, <1>2, <1>3, <1>4, <1>5, <1>6, <1>7, <1>8, <1>9, <1>10, <1>11, <1>12
        DEF ServerNext, Listen, Accept

\* The pool's invariant is kept, and so is the type of every variable of the server.
LEMMA PoolInvStep == SrvInv /\ [ServerNext]_serverVars => IInv'
BY ServerPoolStep, TypeStep, RoundRobinStep, GuardStep, ThreadStep DEF SrvInv, IInv

LEMMA ServerTypeStep == SrvInv /\ [ServerNext]_serverVars => ServerTypeOK'
<1> SUFFICES ASSUME SrvInv, [ServerNext]_serverVars PROVE ServerTypeOK' OBVIOUS
<1>t. TypeOK' BY PoolInvStep DEF IInv
<1> USE <1>t, ServerAssumption DEF SrvInv, ServerTypeOK, listenVars, connVars, peerVars
<1>1. CASE UNCHANGED serverVars BY <1>1 DEF serverVars
<1>2. CASE MakeServer BY <1>2 DEF MakeServer
<1>3. CASE RunPool BY <1>3 DEF RunPool
<1>4. CASE TakeContext BY <1>4 DEF TakeContext, TypeOK
<1>5. CASE StartAccept BY <1>5 DEF StartAccept
<1>6. CASE ListenReturns \/ RemoteEndpoint \/ SpawnReturns
  BY <1>6 DEF ListenReturns, RemoteEndpoint, SpawnReturns
<1>7. CASE FirstRead BY <1>7 DEF FirstRead
<1>8. CASE AcceptFails BY <1>8 DEF AcceptFails
<1>9. ASSUME NEW k \in Conns, AcceptDone(k) PROVE ServerTypeOK'
  BY <1>9 DEF AcceptDone
<1>10. CASE PoolStep BY <1>10 DEF PoolStep
<1>11. ASSUME NEW k \in Conns, Process(k) PROVE ServerTypeOK'
  BY <1>11 DEF Process, ProcessReturns, StartWrite, NextRead
<1>12. ASSUME NEW k \in Conns, ReadDone(k) PROVE ServerTypeOK'
  <2>1. PICK n \in 1..unread[k] : unread' = [unread EXCEPT ![k] = @ - n]
    BY <1>12 DEF ReadDone
  <2>2. unread[k] \in 0..MaxSent /\ unread[k] - n \in 0..MaxSent BY <2>1
  <2>3. unread' \in [Conns -> 0..MaxSent] BY <2>1, <2>2
  <2> QED BY <1>12, <2>3 DEF ReadDone
<1>13. ASSUME NEW k \in Conns, ReadFails(k) PROVE ServerTypeOK' BY <1>13 DEF ReadFails
<1>14. ASSUME NEW k \in Conns, WriteDone(k) PROVE ServerTypeOK'
  <2>1. responses' \in [Conns -> Nat] BY <1>14 DEF WriteDone
  <2> QED BY <1>14, <2>1 DEF WriteDone
<1>15. ASSUME NEW k \in Conns, Connect(k) PROVE ServerTypeOK' BY <1>15 DEF Connect
<1>16. ASSUME NEW k \in Conns, Send(k) PROVE ServerTypeOK'
  <2>1. sent[k] + 1 \in 0..MaxSent BY <1>16 DEF Send
  <2>2. sent' \in [Conns -> 0..MaxSent] BY <1>16, <2>1 DEF Send
  <2>3. unread[k] + 1 \in 0..MaxSent BY <1>16, <2>1 DEF Send, ListenInv
  <2>4. unread' \in [Conns -> 0..MaxSent] BY <1>16, <2>3 DEF Send
  <2> QED BY <1>16, <2>2, <2>4 DEF Send
<1>17. ASSUME NEW k \in Conns, HangUp(k) \/ Stall(k) PROVE ServerTypeOK'
  BY <1>17 DEF HangUp, Stall
<1>18. ASSUME NEW c \in Contexts, HandlerReturns(c) PROVE ServerTypeOK'
  BY <1>18 DEF HandlerReturns
<1> QED BY <1>1, <1>2, <1>3, <1>4, <1>5, <1>6, <1>7, <1>8, <1>9, <1>10, <1>11, <1>12,
           <1>13, <1>14, <1>15, <1>16, <1>17, <1>18
        DEF ServerNext, Listen, Accept, Completion

\* listen() runs in main until its first accept, then in a handler of its context, which
\* does not return before listen() waits again; no thread of the pool ends.
LEMMA ListenStep == SrvInv /\ [ServerNext]_serverVars => ListenInv'
<1> SUFFICES ASSUME SrvInv, [ServerNext]_serverVars PROVE ListenInv' OBVIOUS
<1>0. AcceptorContext \in Contexts BY PoolAssumption
<1>b. busy \in [Contexts -> BOOLEAN]
  BY DEF SrvInv, ServerTypeOK, TypeOK
<1> USE <1>0, <1>b
    DEF SrvInv, ServerTypeOK, ListenInv, ListenerRuns, listenVars, connVars, peerVars,
        poolVars, stopVars
<1>1. CASE UNCHANGED serverVars BY <1>1 DEF serverVars
<1>2. CASE MakeServer BY <1>2 DEF MakeServer, GetIoContext, InUserCode
<1>3. CASE RunPool BY <1>3 DEF RunPool, StartRun
<1>4. CASE TakeContext BY <1>4 DEF TakeContext, GetIoContext
<1>5. CASE StartAccept BY <1>5 DEF StartAccept, PostOp
<1>6. CASE ListenReturns \/ RemoteEndpoint \/ SpawnReturns
  BY <1>6 DEF ListenReturns, RemoteEndpoint, SpawnReturns
<1>7. CASE FirstRead BY <1>7 DEF FirstRead, PostOp
<1>8. CASE AcceptFails
  <2>1. busy'[AcceptorContext] /\ main # "setup" /\ UNCHANGED <<main, stop_phase>>
    BY <1>8 DEF AcceptFails, BeginHandler, IInv, ThreadInv
  <2> QED BY <1>8, <2>1 DEF AcceptFails
<1>9. ASSUME NEW k \in Conns, AcceptDone(k) PROVE ListenInv'
  <2>1. busy'[AcceptorContext] /\ main # "setup" /\ UNCHANGED <<main, stop_phase>>
    BY <1>9 DEF AcceptDone, BeginHandler, IInv, ThreadInv
  <2> QED BY <1>9, <2>1 DEF AcceptDone
<1>10. CASE PoolStep
  <2>1. UNCHANGED <<listenVars, connVars, peerVars, busy, stop_phase>>
    BY <1>10 DEF PoolStep, Construct, SpawnThread, JoinThread, EnterRun, LeaveRun
  <2>2. main' = main \/ (main = "ctor" /\ main' = "setup") \/ (main = "spawn" /\ main' = "join")
    <3>1. \A c \in Contexts : thread[c] \notin {"returned", "joined"} \/ main = "ctor"
      BY DEF IInv, GuardInv
    <3>2. ~JoinThread
      BY <3>1 DEF JoinThread, IInv, ThreadInv, TypeOK
    <3> QED BY <1>10, <3>2
            DEF PoolStep, Construct, SpawnThread, EnterRun, LeaveRun
  <2> QED BY <2>1, <2>2
<1>11. ASSUME NEW k \in Conns, Process(k) PROVE ListenInv'
  <2>1. CASE ProcessReturns(k) BY <2>1 DEF ProcessReturns
  <2>2. CASE StartWrite(k) BY <2>2 DEF StartWrite, PostOp
  <2>3. CASE NextRead(k) BY <2>3 DEF NextRead, PostOp
  <2> QED BY <1>11, <2>1, <2>2, <2>3 DEF Process
<1>12. ASSUME NEW k \in Conns, Completion(k) PROVE ListenInv'
  <2>1. \A c \in Contexts : busy[c] => busy'[c]
    BY <1>12 DEF Completion, ReadDone, ReadFails, WriteDone, BeginHandler
  <2>2. \A j \in Conns : unread'[j] <= sent[j] /\ sent'[j] = sent[j]
    <3>1. CASE unread' = unread
      BY <1>12, <3>1 DEF Completion, ReadDone, ReadFails, WriteDone
    <3>2. ASSUME NEW n \in 1..unread[k], unread' = [unread EXCEPT ![k] = @ - n]
          PROVE  \A j \in Conns : unread'[j] <= sent[j]
      <4>1. unread[k] \in Nat /\ sent[k] \in Nat OBVIOUS
      <4> QED BY <3>2, <4>1
    <3> QED BY <1>12, <3>1, <3>2 DEF Completion, ReadDone, ReadFails, WriteDone
  <2>3. /\ UNCHANGED <<main, stop_phase, listener, newest, peer>>
        /\ \A j \in Conns : j # k => conn'[j] = conn[j]
        /\ conn[k] \in W /\ conn'[k] \notin {"accepted"}
        /\ conn'[k] = "eof" => peer[k] # "up"
    BY <1>12 DEF Completion, ReadDone, ReadFails, WriteDone, BeginHandler, W
  <2> QED BY <2>1, <2>2, <2>3 DEF W
<1>13. ASSUME NEW k \in Conns, Connect(k) \/ HangUp(k) \/ Stall(k) PROVE ListenInv'
  BY <1>13 DEF Connect, HangUp, Stall
<1>14. ASSUME NEW c \in Contexts, HandlerReturns(c) PROVE ListenInv'
  BY <1>14 DEF HandlerReturns, EndHandler
<1>15. ASSUME NEW k \in Conns, Send(k) PROVE ListenInv'
  <2>1. \A j \in Conns : unread'[j] <= sent'[j]
    <3>1. unread[k] \in Nat /\ sent[k] \in Nat OBVIOUS
    <3> QED BY <1>15, <3>1 DEF Send
  <2> QED BY <1>15, <2>1 DEF Send
<1> QED BY <1>1, <1>2, <1>3, <1>4, <1>5, <1>6, <1>7, <1>8, <1>9, <1>10, <1>11, <1>12,
           <1>13, <1>14, <1>15
        DEF ServerNext, Listen, Accept

-----------------------------------------------------------------------------

\* There are finitely many connections.
LEMMA Finite ==
  \A c : /\ IsFiniteSet(Waiting(c)) /\ Cardinality(Waiting(c)) \in Nat
         /\ IsFiniteSet(On(c)) /\ Cardinality(On(c)) \in Nat
<1> SUFFICES ASSUME NEW c
             PROVE  /\ IsFiniteSet(Waiting(c)) /\ Cardinality(Waiting(c)) \in Nat
                    /\ IsFiniteSet(On(c)) /\ Cardinality(On(c)) \in Nat
  OBVIOUS
<1>1. Waiting(c) \subseteq Conns /\ On(c) \subseteq Conns /\ IsFiniteSet(Conns)
  BY ServerAssumption DEF Waiting, On
<1> QED BY <1>1, FS_Subset, FS_CardinalityType

\* What becomes of the counts when connection k goes from one place to another.
LEMMA WaitJoins ==
  ASSUME ServerTypeOK, NEW k \in Conns, NEW s \in W, conn[k] \notin W,
         conn' = [conn EXCEPT ![k] = s], home' = home, NEW c \in Contexts
  PROVE  Cardinality(Waiting(c)') = Cardinality(Waiting(c)) + (IF c = home[k] THEN 1 ELSE 0)
<1>1. CASE c = home[k]
  <2>1. Waiting(c)' = Waiting(c) \cup {k} /\ k \notin Waiting(c)
    BY <1>1 DEF Waiting, ServerTypeOK
  <2> QED BY <1>1, <2>1, Finite, FS_AddElement
<1>2. CASE c # home[k]
  <2>1. Waiting(c)' = Waiting(c) BY <1>2 DEF Waiting, ServerTypeOK
  <2> QED BY <1>2, <2>1, Finite
<1> QED BY <1>1, <1>2

LEMMA WaitLeaves ==
  ASSUME ServerTypeOK, NEW k \in Conns, NEW s, s \notin W, conn[k] \in W,
         conn' = [conn EXCEPT ![k] = s], home' = home, NEW c \in Contexts
  PROVE  Cardinality(Waiting(c)') = Cardinality(Waiting(c)) - (IF c = home[k] THEN 1 ELSE 0)
<1>1. CASE c = home[k]
  <2>1. Waiting(c)' = Waiting(c) \ {k} /\ k \in Waiting(c)
    BY <1>1 DEF Waiting, ServerTypeOK
  <2> QED BY <1>1, <2>1, Finite, FS_RemoveElement
<1>2. CASE c # home[k]
  <2>1. Waiting(c)' = Waiting(c) BY <1>2 DEF Waiting, ServerTypeOK
  <2> QED BY <1>2, <2>1, Finite
<1> QED BY <1>1, <1>2

LEMMA WaitSame ==
  ASSUME ServerTypeOK, NEW k \in Conns, NEW s, s \notin W, conn[k] \notin W, NEW h,
         conn' = [conn EXCEPT ![k] = s], home' = [home EXCEPT ![k] = h] \/ home' = home,
         NEW c \in Contexts
  PROVE  Waiting(c)' = Waiting(c)
BY DEF Waiting, ServerTypeOK

LEMMA OnSame ==
  ASSUME ServerTypeOK, NEW k \in Conns, NEW s,
         s \in {"absent", "backlog"} <=> conn[k] \in {"absent", "backlog"},
         conn' = [conn EXCEPT ![k] = s], home' = home, NEW c \in Contexts
  PROVE  On(c)' = On(c)
BY DEF On, ServerTypeOK

LEMMA OnJoins ==
  ASSUME ServerTypeOK, NEW k \in Conns, NEW h \in Contexts, conn[k] = "backlog",
         conn' = [conn EXCEPT ![k] = "accepted"], home' = [home EXCEPT ![k] = h],
         NEW c \in Contexts
  PROVE  Cardinality(On(c)') = Cardinality(On(c)) + (IF c = h THEN 1 ELSE 0)
<1>1. CASE c = h
  <2>1. On(c)' = On(c) \cup {k} /\ k \notin On(c)
    BY <1>1 DEF On, ServerTypeOK
  <2> QED BY <1>1, <2>1, Finite, FS_AddElement
<1>2. CASE c # h
  <2>1. On(c)' = On(c) BY <1>2 DEF On, ServerTypeOK
  <2> QED BY <1>2, <2>1, Finite
<1> QED BY <1>1, <1>2

\* An operation is started when a coroutine begins to wait for it, and completes when the
\* coroutine is resumed.
LEMMA OpsStep == SrvInv /\ [ServerNext]_serverVars => OpsInv'
<1> SUFFICES ASSUME SrvInv, [ServerNext]_serverVars PROVE OpsInv' OBVIOUS
<1>0. AcceptorContext \in Contexts BY PoolAssumption
<1>o. ops \in [Contexts -> Nat] /\ home \in [Conns -> Contexts]
  BY DEF SrvInv, ServerTypeOK, TypeOK
<1>i. \A c \in Contexts :
        ops[c] = Cardinality(Waiting(c))
                 + IF c = AcceptorContext /\ listener = "accepting" THEN 1 ELSE 0
  BY DEF SrvInv, OpsInv
<1> USE <1>0, <1>o DEF SrvInv, listenVars, connVars, peerVars, poolVars
<1>q. ASSUME UNCHANGED <<ops, conn, home>>, listener' = "accepting" <=> listener = "accepting"
      PROVE  OpsInv'
  BY <1>i, <1>q DEF OpsInv, Waiting
<1>1. CASE UNCHANGED serverVars BY <1>1, <1>q DEF serverVars
<1>2. CASE MakeServer BY <1>2, <1>q DEF MakeServer, GetIoContext
<1>3. CASE RunPool BY <1>3, <1>q DEF RunPool, StartRun
<1>4. CASE TakeContext BY <1>4, <1>q DEF TakeContext, GetIoContext
<1>5. CASE StartAccept
  <2>1. /\ ops' = [ops EXCEPT ![AcceptorContext] = @ + 1] /\ listener = "socket"
        /\ listener' = "accepting" /\ UNCHANGED <<conn, home>>
    BY <1>5 DEF StartAccept, PostOp
  <2>2. \A c \in Contexts : Waiting(c)' = Waiting(c) BY <2>1 DEF Waiting
  <2> QED BY <1>i, <2>1, <2>2, Finite DEF OpsInv
<1>6. CASE ListenReturns \/ RemoteEndpoint \/ SpawnReturns
  BY <1>6, <1>q DEF ListenReturns, RemoteEndpoint, SpawnReturns
<1>7. CASE FirstRead
  <2>1. /\ newest \in Conns /\ conn[newest] = "accepted" /\ listener = "spawning"
        /\ listener' = "unwinding"
        /\ ops' = [ops EXCEPT ![home[newest]] = @ + 1]
        /\ conn' = [conn EXCEPT ![newest] = "reading"] /\ home' = home
    BY <1>7 DEF FirstRead, PostOp, ListenInv
  <2>2. \A c \in Contexts : Cardinality(Waiting(c)')
                              = Cardinality(Waiting(c)) + (IF c = home[newest] THEN 1 ELSE 0)
    BY <2>1, WaitJoins DEF W
  <2> QED BY <1>i, <2>1, <2>2, Finite DEF OpsInv
<1>8. CASE AcceptFails
  <2>1. /\ ops' = [ops EXCEPT ![AcceptorContext] = @ - 1] /\ listener = "accepting"
        /\ listener' = "failed" /\ UNCHANGED <<conn, home>>
    BY <1>8 DEF AcceptFails, BeginHandler
  <2>2. \A c \in Contexts : Waiting(c)' = Waiting(c) BY <2>1 DEF Waiting
  <2> QED BY <1>i, <2>1, <2>2, Finite DEF OpsInv
<1>9. ASSUME NEW k \in Conns, AcceptDone(k) PROVE OpsInv'
  <2>1. /\ ops' = [ops EXCEPT ![AcceptorContext] = @ - 1] /\ listener = "accepting"
        /\ listener' = "accepted" /\ conn[k] = "backlog"
        /\ conn' = [conn EXCEPT ![k] = "accepted"]
        /\ home' = [home EXCEPT ![k] = socket_ctx]
    BY <1>9 DEF AcceptDone, BeginHandler
  <2>2. \A c \in Contexts : Waiting(c)' = Waiting(c) BY <2>1, WaitSame DEF W
  <2> QED BY <1>i, <2>1, <2>2, Finite DEF OpsInv
<1>10. CASE PoolStep
  BY <1>10, <1>q DEF PoolStep, Construct, SpawnThread, JoinThread, EnterRun, LeaveRun
<1>11. ASSUME NEW k \in Conns, StartWrite(k) \/ NextRead(k) PROVE OpsInv'
  <2>1. PICK s \in W : conn' = [conn EXCEPT ![k] = s]
    BY <1>11 DEF StartWrite, NextRead, W
  <2>2. /\ ops' = [ops EXCEPT ![home[k]] = @ + 1] /\ conn[k] \notin W
        /\ UNCHANGED <<listener, home>>
    BY <1>11 DEF StartWrite, NextRead, PostOp, W
  <2>3. \A c \in Contexts : Cardinality(Waiting(c)')
                              = Cardinality(Waiting(c)) + (IF c = home[k] THEN 1 ELSE 0)
    BY <2>1, <2>2, WaitJoins
  <2> QED BY <1>i, <2>2, <2>3, Finite DEF OpsInv
<1>12. ASSUME NEW k \in Conns, Completion(k) PROVE OpsInv'
  <2>1. PICK s : conn' = [conn EXCEPT ![k] = s] /\ s \notin W
    BY <1>12 DEF Completion, ReadDone, ReadFails, WriteDone, W
  <2>2. /\ ops' = [ops EXCEPT ![home[k]] = @ - 1] /\ conn[k] \in W
        /\ UNCHANGED <<listener, home>>
    BY <1>12 DEF Completion, ReadDone, ReadFails, WriteDone, BeginHandler, W
  <2>3. \A c \in Contexts : Cardinality(Waiting(c)')
                              = Cardinality(Waiting(c)) - (IF c = home[k] THEN 1 ELSE 0)
    BY <2>1, <2>2, WaitLeaves
  <2> QED BY <1>i, <2>2, <2>3, Finite, SMTT(30) DEF OpsInv
<1>13. ASSUME NEW k \in Conns, ProcessReturns(k) \/ Connect(k) PROVE OpsInv'
  <2>1. PICK s : conn' = [conn EXCEPT ![k] = s] /\ s \notin W
    BY <1>13 DEF ProcessReturns, Connect, W
  <2>2. UNCHANGED <<ops, listener, home>> /\ conn[k] \notin W
    BY <1>13 DEF ProcessReturns, Connect, W
  <2>3. \A c \in Contexts : Waiting(c)' = Waiting(c) BY <2>1, <2>2, WaitSame
  <2> QED BY <1>i, <2>2, <2>3 DEF OpsInv
<1>14. ASSUME NEW k \in Conns, Send(k) \/ HangUp(k) \/ Stall(k) PROVE OpsInv'
  BY <1>14, <1>q DEF Send, HangUp, Stall
<1>15. ASSUME NEW c \in Contexts, HandlerReturns(c) PROVE OpsInv'
  BY <1>15, <1>q DEF HandlerReturns, EndHandler
<1> QED BY <1>1, <1>2, <1>3, <1>4, <1>5, <1>6, <1>7, <1>8, <1>9, <1>10, <1>11, <1>12,
           <1>13, <1>14, <1>15
        DEF ServerNext, Listen, Accept, Process

\* get_io_context hands out the context of the acceptor and then, each time before it is
\* accepted, that of the next connection.
LEMMA HandoutStep == SrvInv /\ [ServerNext]_serverVars => HandoutInv'
<1> SUFFICES ASSUME SrvInv, [ServerNext]_serverVars PROVE HandoutInv' OBVIOUS
<1>0. AcceptorContext \in Contexts BY PoolAssumption
<1>o. /\ dispatched \in [Contexts -> Nat] /\ next_io_context \in Contexts
      /\ socket_ctx \in Contexts
  BY DEF SrvInv, ServerTypeOK, TypeOK
<1>i. \A c \in Contexts :
        dispatched[c] = Cardinality(On(c))
                        + (IF listener # "none" /\ c = AcceptorContext THEN 1 ELSE 0)
                        + (IF HoldsContext /\ c = socket_ctx THEN 1 ELSE 0)
  BY DEF SrvInv, HandoutInv
<1>p. HoldsContext =>
        socket_ctx = IF next_io_context = 0 THEN PoolSize - 1 ELSE next_io_context - 1
  BY DEF SrvInv, HandoutInv
<1> USE <1>0, <1>o DEF SrvInv, listenVars, connVars, peerVars, poolVars
<1>q. ASSUME UNCHANGED <<dispatched, next_io_context, socket_ctx>>,
             \A c \in Contexts : On(c)' = On(c),
             HoldsContext' <=> HoldsContext, listener' = "none" <=> listener = "none"
      PROVE  HandoutInv'
  BY <1>i, <1>p, <1>q DEF HandoutInv
<1>s. ASSUME UNCHANGED <<conn, home>> PROVE \A c \in Contexts : On(c)' = On(c)
  BY <1>s DEF On
<1>1. CASE UNCHANGED serverVars BY <1>1, <1>q, <1>s DEF serverVars, HoldsContext
<1>2. CASE MakeServer
  <2>1. /\ dispatched' = [dispatched EXCEPT ![next_io_context] = @ + 1]
        /\ listener = "none" /\ listener' = "loop" /\ UNCHANGED <<conn, home>>
    BY <1>2 DEF MakeServer, GetIoContext
  <2>2. next_io_context = 0
    <3>1. \A c \in Contexts : dispatched[c] = Cardinality(On(c))
      BY <1>i, <2>1, Finite DEF HoldsContext
    <3>2. \A c \in Contexts : On(c) = {}
      BY <2>1 DEF ListenInv, On
    <3>z. Cardinality({}) = 0 BY FS_EmptySet
    <3>d. \A c \in Contexts : dispatched[c] = 0 BY <3>1, <3>2, <3>z
    <3>c. 0 \in Contexts /\ PoolSize - 1 \in Contexts BY PoolAssumption DEF Contexts
    <3>3. dispatched[0] = 0 /\ dispatched[PoolSize - 1] = 0 BY <3>d, <3>c
    <3> QED BY <3>3, <3>c, PoolAssumption DEF IInv, RoundRobin
  <2>3. ~HoldsContext /\ ~HoldsContext' BY <2>1 DEF HoldsContext
  <2> QED BY <1>i, <1>s, <2>1, <2>2, <2>3, Finite DEF HandoutInv
<1>3. CASE RunPool
  BY <1>3, <1>q, <1>s DEF RunPool, StartRun, HoldsContext
<1>4. CASE TakeContext
  <2>1. /\ dispatched' = [dispatched EXCEPT ![next_io_context] = @ + 1]
        /\ next_io_context' = IF next_io_context + 1 = PoolSize THEN 0
                              ELSE next_io_context + 1
        /\ listener = "loop" /\ listener' = "socket" /\ socket_ctx' = next_io_context
        /\ UNCHANGED <<conn, home>>
    BY <1>4 DEF TakeContext, GetIoContext, AdvanceIndex
  <2>2. ~HoldsContext /\ HoldsContext' BY <2>1 DEF HoldsContext
  <2>3. \A c \in Contexts :
          dispatched'[c] = Cardinality(On(c)')
                           + (IF listener' # "none" /\ c = AcceptorContext THEN 1 ELSE 0)
                           + (IF HoldsContext' /\ c = socket_ctx' THEN 1 ELSE 0)
    BY <1>i, <1>s, <2>1, <2>2, Finite, SMTT(30)
  <2>4. socket_ctx' = IF next_io_context' = 0 THEN PoolSize - 1 ELSE next_io_context' - 1
    BY <2>1, PoolAssumption
  <2> QED BY <2>3, <2>4 DEF HandoutInv
<1>5. CASE StartAccept
  BY <1>5, <1>q, <1>s DEF StartAccept, PostOp, HoldsContext
<1>6. CASE ListenReturns \/ RemoteEndpoint \/ SpawnReturns
  BY <1>6, <1>q, <1>s DEF ListenReturns, RemoteEndpoint, SpawnReturns, HoldsContext
<1>7. CASE FirstRead
  <2>1. /\ newest \in Conns /\ conn[newest] = "accepted" /\ listener = "spawning"
        /\ listener' = "unwinding" /\ UNCHANGED <<dispatched, next_io_context, socket_ctx>>
        /\ conn' = [conn EXCEPT ![newest] = "reading"] /\ home' = home
    BY <1>7 DEF FirstRead, PostOp, ListenInv
  <2>2. \A c \in Contexts : On(c)' = On(c) BY <2>1, OnSame
  <2> QED BY <1>q, <2>1, <2>2 DEF HoldsContext
<1>8. CASE AcceptFails
  BY <1>8, <1>q, <1>s DEF AcceptFails, BeginHandler, HoldsContext
<1>9. ASSUME NEW k \in Conns, AcceptDone(k) PROVE HandoutInv'
  <2>1. /\ UNCHANGED <<dispatched, next_io_context, socket_ctx>> /\ listener = "accepting"
        /\ listener' = "accepted" /\ conn[k] = "backlog"
        /\ conn' = [conn EXCEPT ![k] = "accepted"]
        /\ home' = [home EXCEPT ![k] = socket_ctx]
    BY <1>9 DEF AcceptDone, BeginHandler
  <2>2. \A c \in Contexts : Cardinality(On(c)')
                              = Cardinality(On(c)) + (IF c = socket_ctx THEN 1 ELSE 0)
    BY <2>1, OnJoins
  <2>3. HoldsContext /\ ~HoldsContext' BY <2>1 DEF HoldsContext
  <2> QED BY <1>i, <2>1, <2>2, <2>3, Finite DEF HandoutInv
<1>10. CASE PoolStep
  BY <1>10, <1>q, <1>s
     DEF PoolStep, Construct, SpawnThread, JoinThread, EnterRun, LeaveRun, HoldsContext
<1>11. ASSUME NEW k \in Conns, Process(k) \/ Completion(k) \/ Connect(k) PROVE HandoutInv'
  <2>1. PICK s : /\ conn' = [conn EXCEPT ![k] = s]
                 /\ s \in {"absent", "backlog"} <=> conn[k] \in {"absent", "backlog"}
    BY <1>11 DEF Process, Completion, ProcessReturns, StartWrite, NextRead, ReadDone,
                 ReadFails, WriteDone, Connect
  <2>2. UNCHANGED <<dispatched, next_io_context, socket_ctx, listener, home>>
    BY <1>11 DEF Process, Completion, ProcessReturns, StartWrite, NextRead, ReadDone,
                 ReadFails, WriteDone, Connect, PostOp, BeginHandler
  <2>3. \A c \in Contexts : On(c)' = On(c) BY <2>1, <2>2, OnSame
  <2> QED BY <1>q, <2>2, <2>3 DEF HoldsContext
<1>12. ASSUME NEW k \in Conns, Send(k) \/ HangUp(k) \/ Stall(k) PROVE HandoutInv'
  BY <1>12, <1>q, <1>s DEF Send, HangUp, Stall, HoldsContext
<1>13. ASSUME NEW c \in Contexts, HandlerReturns(c) PROVE HandoutInv'
  BY <1>13, <1>q, <1>s DEF HandlerReturns, EndHandler, HoldsContext
<1> QED BY <1>1, <1>2, <1>3, <1>4, <1>5, <1>6, <1>7, <1>8, <1>9, <1>10, <1>11, <1>12,
           <1>13
        DEF ServerNext, Listen, Accept

\* main has not begun.
LEMMA InitSrvInv == ServerInit => SrvInv
<1> SUFFICES ASSUME ServerInit PROVE SrvInv OBVIOUS
<1>1. IInv BY InitIInv DEF ServerInit
<1>2. \A c : Waiting(c) = {} /\ On(c) = {} BY DEF ServerInit, Waiting, On, W
<1>c. 0 \in Contexts BY PoolAssumption DEF Contexts
<1>m. 0 \in 0..MaxSent /\ 0 \in Nat BY ServerAssumption
<1>3. ServerTypeOK
  <2>1. TypeOK BY <1>1 DEF IInv
  <2>2. /\ socket_ctx \in Contexts /\ home \in [Conns -> Contexts]
        /\ unread \in [Conns -> 0..MaxSent] /\ sent \in [Conns -> 0..MaxSent]
        /\ responses \in [Conns -> Nat]
    BY <1>c, <1>m DEF ServerInit
  <2> QED BY <2>1, <2>2 DEF ServerInit, ServerTypeOK
<1>4. ListenInv BY ServerAssumption DEF ServerInit, Init, ListenInv, ListenerRuns
<1>z. \A c : Cardinality(Waiting(c)) = 0 /\ Cardinality(On(c)) = 0 BY <1>2, FS_EmptySet
<1>o. \A c \in Contexts : ops[c] = 0 /\ dispatched[c] = 0 BY DEF ServerInit, Init
<1>n. listener = "none" /\ ~HoldsContext BY DEF ServerInit, HoldsContext
<1>5. OpsInv /\ HandoutInv
  <2>1. OpsInv BY <1>z, <1>o, <1>n DEF OpsInv
  <2> QED BY <2>1, <1>z, <1>o, <1>n DEF HandoutInv
<1> QED BY <1>1, <1>3, <1>4, <1>5 DEF SrvInv

\* The server's invariant, the pool's included, holds in every reachable state.
THEOREM ServerInductive == ServerSpec => []SrvInv
<1>1. SrvInv /\ [ServerNext]_serverVars => SrvInv'
  BY PoolInvStep, ServerTypeStep, ListenStep, OpsStep, HandoutStep DEF SrvInv
<1> QED BY InitSrvInv, <1>1, PTL DEF ServerSpec

\* benchmark_mt.cpp: the server uses its pool as io_context_pool.hpp expects, so that what
\* is proved about the pool holds under the server.
THEOREM ServerRunsPool == ServerSpec => Spec
<1>1. SrvInv /\ [ServerNext]_serverVars => [Next]_poolVars
  BY ServerPoolStep DEF SrvInv
<1> QED BY <1>1, ServerInductive, PTL DEF ServerSpec, ServerInit, Spec

\* benchmark_mt.cpp: on every context exactly the operations are pending that some
\* coroutine waits for.
THEOREM OpsAccountedCorrect == ServerSpec => []OpsAccounted
<1>1. SrvInv => OpsAccounted BY DEF SrvInv, OpsInv, OpsAccounted, Waiting, W
<1> QED BY <1>1, ServerInductive, PTL

\* io_context_pool.hpp: get_io_context has no lock and needs none.
THEOREM OneCallerOfGetIoContextCorrect == ServerSpec => []OneCallerOfGetIoContext
<1>1. SrvInv => OneCallerOfGetIoContext
  BY DEF SrvInv, ListenInv, ListenerRuns, OneCallerOfGetIoContext
<1> QED BY <1>1, ServerInductive, PTL

\* benchmark_mt.cpp: whatever connections fail, no context has been given more than one
\* connection more than another, the closed ones included. Nothing is said of how many
\* are open on each.
THEOREM SpreadCorrect == ServerSpec => []Spread
<1>1. ASSUME SrvInv, NEW c \in Contexts, NEW d \in Contexts
      PROVE  Cardinality(On(c)) <= Cardinality(On(d)) + 1
  <2> USE PoolAssumption DEF SrvInv
  <2>1. /\ Cardinality(On(c)) \in Nat /\ Cardinality(On(d)) \in Nat
        /\ next_io_context \in Contexts
    BY <1>1, Finite DEF ServerTypeOK, TypeOK
  <2>2. PICK q \in Nat : \A x \in Contexts :
          dispatched[x] = q + IF x < next_io_context THEN 1 ELSE 0
    BY <1>1 DEF IInv, RoundRobin, TypeOK
  <2>3. \A x \in Contexts :
          Cardinality(On(x)) = q + (IF x < next_io_context THEN 1 ELSE 0)
                               - (IF listener # "none" /\ x = AcceptorContext THEN 1 ELSE 0)
                               - (IF HoldsContext /\ x = socket_ctx THEN 1 ELSE 0)
    <3> SUFFICES ASSUME NEW x \in Contexts
                 PROVE  Cardinality(On(x))
                          = q + (IF x < next_io_context THEN 1 ELSE 0)
                            - (IF listener # "none" /\ x = AcceptorContext THEN 1 ELSE 0)
                            - (IF HoldsContext /\ x = socket_ctx THEN 1 ELSE 0)
      OBVIOUS
    <3>1. dispatched[x] = Cardinality(On(x))
                          + (IF listener # "none" /\ x = AcceptorContext THEN 1 ELSE 0)
                          + (IF HoldsContext /\ x = socket_ctx THEN 1 ELSE 0)
      BY <1>1 DEF HandoutInv
    <3>2. dispatched[x] = q + IF x < next_io_context THEN 1 ELSE 0 BY <2>2
    <3>3. Cardinality(On(x)) \in Nat /\ q \in Nat BY Finite
    <3> QED BY <3>1, <3>2, <3>3
  <2>4. HoldsContext => listener # "none" BY DEF HoldsContext
  <2>5. HoldsContext =>
          socket_ctx = IF next_io_context = 0 THEN PoolSize - 1 ELSE next_io_context - 1
    BY <1>1 DEF HandoutInv
  <2> QED BY <1>1, <2>1, <2>3, <2>4, <2>5
<1>2. SrvInv => Spread BY <1>1 DEF Spread, On
<1> QED BY <1>2, ServerInductive, PTL

-----------------------------------------------------------------------------
(* The server implements ConnectionService, step by step.                  *)

\* What the server is to its clients (the refinement mapping of Clients, by name).
Place(s) == CASE s \in {"absent", "closed"} -> s
              [] s = "backlog" -> "waiting"
              [] OTHER -> "open"
Client == [k \in Conns |->
             CASE conn[k] \in {"absent", "closed"} -> conn[k]
               [] conn[k] = "backlog" -> "waiting"
               [] OTHER -> "open"]
Gone == {k \in Conns : peer[k] # "up"}
State == IF crashed THEN "down"
         ELSE IF listener \in {"failed", "dead"} THEN "draining" ELSE "accepting"

LEMMA ServiceSteps ==
  /\ UNCHANGED Clients!vars <=> UNCHANGED <<Client, Gone, stalled, State>>
  /\ \A k \in Conns :
       /\ Clients!Connect(k) <=> /\ Client[k] = "absent"
                                 /\ Client' = [Client EXCEPT ![k] = "waiting"]
                                 /\ UNCHANGED <<Gone, stalled, State>>
       /\ Clients!HangUp(k) <=> /\ Client[k] # "absent"
                                /\ Gone' = Gone \union {k}
                                /\ stalled' \in {stalled, stalled \ {k}}
                                /\ UNCHANGED <<Client, State>>
       /\ Clients!Stall(k) <=> /\ stalled' \in {stalled \union {k}, stalled \ {k}}
                               /\ UNCHANGED <<Client, Gone, State>>
       /\ Clients!Admit(k) <=> /\ State = "accepting"
                               /\ Client[k] = "waiting"
                               /\ Client' = [Client EXCEPT ![k] = "open"]
                               /\ UNCHANGED <<Gone, stalled, State>>
       /\ Clients!Finish(k) <=> /\ State # "down"
                                /\ Client[k] = "open"
                                /\ k \in Gone
                                /\ Client' = [Client EXCEPT ![k] = "closed"]
                                /\ UNCHANGED <<Gone, stalled, State>>
  /\ Clients!StopAccepting <=> /\ State = "accepting"
                               /\ State' = "draining"
                               /\ UNCHANGED <<Client, Gone, stalled>>
  /\ Clients!GoDown <=> /\ State # "down"
                        /\ State' = "down"
                        /\ UNCHANGED <<Client, Gone, stalled>>
BY Zenon DEF Client, Gone, State, Clients!vars, Clients!Connect, Clients!HangUp,
             Clients!Stall, Clients!Admit, Clients!Finish, Clients!StopAccepting, Clients!GoDown

\* A connection that moves is, to its client, what Place says.
LEMMA ClientMoves ==
  ASSUME conn = [j \in Conns |-> conn[j]],
         NEW k \in Conns, NEW s, conn' = [conn EXCEPT ![k] = s]
  PROVE  /\ Client[k] = Place(conn[k])
         /\ Client' = [Client EXCEPT ![k] = Place(s)]
         /\ Place(conn[k]) = Place(s) => Client' = Client
<1>1. conn \in [Conns -> {conn[j] : j \in Conns}] OBVIOUS
<1>2. Client[k] = Place(conn[k]) BY DEF Client, Place
<1>3. \A j \in Conns : Client'[j] = IF j = k THEN Place(s) ELSE Client[j]
  BY <1>1 DEF Client, Place
<1>4. /\ Client' = [j \in Conns |-> Client'[j]]
      /\ Client = [j \in Conns |-> Client[j]]
  BY DEF Client
<1> HIDE DEF Client, Place
<1>5. Client' = [Client EXCEPT ![k] = Place(s)] BY <1>3, <1>4
<1>6. ASSUME Place(conn[k]) = Place(s) PROVE Client' = Client
  <2>1. \A j \in Conns : Client'[j] = Client[j] BY <1>2, <1>3, <1>6
  <2> QED BY <1>4, <2>1
<1> QED BY <1>2, <1>5, <1>6

\* Every step of the server is a step of the service, or the clients see nothing of it.
LEMMA ServerServes == SrvInv /\ [ServerNext]_serverVars => [Clients!Next]_(Clients!vars)
<1> SUFFICES ASSUME SrvInv, [ServerNext]_serverVars
             PROVE  UNCHANGED <<Client, Gone, stalled, State>> \/ Clients!Next
  BY ServiceSteps
<1>t. ServerTypeOK /\ ListenInv /\ conn = [j \in Conns |-> conn[j]]
  BY DEF SrvInv, ServerTypeOK
<1> DEFINE Goal == UNCHANGED <<Client, Gone, stalled, State>> \/ Clients!Next
<1> USE DEF listenVars, connVars, peerVars
<1>n. /\ \A k \in Conns : Clients!Connect(k) \/ Clients!HangUp(k) \/ Clients!Stall(k)
                            \/ Clients!Admit(k) \/ Clients!Finish(k) => Clients!Next
      /\ Clients!StopAccepting => Clients!Next
      /\ Clients!GoDown => Clients!Next
  BY DEF Clients!Next
<1>q. ASSUME UNCHANGED <<conn, peer, stalled, crashed>>,
             listener' \in {"failed", "dead"} <=> listener \in {"failed", "dead"}
      PROVE  Goal
  BY <1>q DEF Client, Gone, State
<1>c. ASSUME NEW k \in Conns, NEW s, conn' = [conn EXCEPT ![k] = s],
             Place(s) = Place(conn[k]), UNCHANGED <<peer, stalled, crashed>>,
             listener' \in {"failed", "dead"} <=> listener \in {"failed", "dead"}
      PROVE  Goal
  <2>1. Client' = Client BY <1>t, <1>c, ClientMoves
  <2> QED BY <1>c, <2>1 DEF Gone, State
<1>1. CASE UNCHANGED serverVars BY <1>1, <1>q DEF serverVars
<1>2. CASE MakeServer \/ RunPool \/ TakeContext \/ StartAccept
  BY <1>2, <1>q DEF MakeServer, RunPool, TakeContext, StartAccept
<1>3. CASE ListenReturns \/ SpawnReturns BY <1>3, <1>q DEF ListenReturns, SpawnReturns
<1>4. CASE RemoteEndpoint /\ ~crashed
  <2>1. CASE crashed' = crashed BY <1>4, <2>1, <1>q DEF RemoteEndpoint
  <2>2. CASE crashed' = TRUE
    <3>1. UNCHANGED <<Client, Gone, stalled>> BY <1>4 DEF RemoteEndpoint, Client, Gone
    <3>2. State # "down" /\ State' = "down" BY <1>4, <2>2 DEF State
    <3> QED BY <3>1, <3>2, <1>n, ServiceSteps
  <2> QED BY <1>4, <2>1, <2>2 DEF RemoteEndpoint
<1>5. CASE FirstRead
  <2>1. /\ newest \in Conns /\ conn[newest] = "accepted"
        /\ conn' = [conn EXCEPT ![newest] = "reading"] /\ UNCHANGED <<peer, stalled, crashed>>
        /\ listener = "spawning" /\ listener' = "unwinding"
    BY <1>t, <1>5 DEF FirstRead, ListenInv
  <2>2. Place("reading") = Place(conn[newest]) BY <2>1 DEF Place
  <2> QED BY <2>1, <2>2, <1>c
<1>6. CASE AcceptFails /\ ~crashed
  <2>1. UNCHANGED <<Client, Gone, stalled>> BY <1>6 DEF AcceptFails, Client, Gone
  <2>2. State = "accepting" /\ State' = "draining" BY <1>6 DEF AcceptFails, State
  <2> QED BY <2>1, <2>2, <1>n, ServiceSteps
<1>7. ASSUME NEW k \in Conns, AcceptDone(k), ~crashed PROVE Goal
  <2>1. Client[k] = "waiting" /\ Client' = [Client EXCEPT ![k] = "open"]
    <3>1. conn[k] = "backlog" /\ conn' = [conn EXCEPT ![k] = "accepted"]
      BY <1>7 DEF AcceptDone
    <3>2. Place("accepted") = "open" /\ Place("backlog") = "waiting" BY DEF Place
    <3> QED BY <1>t, <3>1, <3>2, ClientMoves
  <2>2. State = "accepting" /\ UNCHANGED <<Gone, stalled, State>> BY <1>7 DEF AcceptDone, State, Gone
  <2> QED BY <2>1, <2>2, <1>n, ServiceSteps
<1>8. CASE PoolStep BY <1>8, <1>q DEF PoolStep
<1>9. ASSUME NEW k \in Conns, ProcessReturns(k), ~crashed PROVE Goal
  <2>1. Client[k] = "open" /\ Client' = [Client EXCEPT ![k] = "closed"]
    <3>1. conn[k] = "eof" /\ conn' = [conn EXCEPT ![k] = "closed"]
      BY <1>9 DEF ProcessReturns
    <3>2. Place("eof") = "open" /\ Place("closed") = "closed" BY DEF Place
    <3> QED BY <1>t, <3>1, <3>2, ClientMoves
  <2>2. k \in Gone BY <1>9, <1>t DEF ProcessReturns, ListenInv, Gone
  <2>3. State # "down" /\ UNCHANGED <<Gone, stalled, State>> BY <1>9 DEF ProcessReturns, State, Gone
  <2> QED BY <2>1, <2>2, <2>3, <1>n, ServiceSteps
<1>10. ASSUME NEW k \in Conns, StartWrite(k) \/ NextRead(k) \/ Completion(k) PROVE Goal
  <2>1. PICK s \in W \union {"read", "eof", "written"} : conn' = [conn EXCEPT ![k] = s]
    BY <1>10 DEF StartWrite, NextRead, Completion, ReadDone, ReadFails, WriteDone, W
  <2>2. /\ conn[k] \in W \union {"read", "written"}
        /\ UNCHANGED <<peer, stalled, crashed, listener>>
    BY <1>10 DEF StartWrite, NextRead, Completion, ReadDone, ReadFails, WriteDone, W
  <2>3. Place(s) = "open" /\ Place(conn[k]) = "open" BY <2>2 DEF Place, W
  <2> QED BY <2>1, <2>2, <2>3, <1>c
<1>11. ASSUME NEW k \in Conns, Connect(k) PROVE Goal
  <2>1. Client[k] = "absent" /\ Client' = [Client EXCEPT ![k] = "waiting"]
    <3>1. conn[k] = "absent" /\ conn' = [conn EXCEPT ![k] = "backlog"]
      BY <1>11 DEF Connect
    <3>2. Place("absent") = "absent" /\ Place("backlog") = "waiting" BY DEF Place
    <3> QED BY <1>t, <3>1, <3>2, ClientMoves
  <2>2. UNCHANGED <<Gone, stalled, State>> BY <1>11 DEF Connect, State, Gone
  <2> QED BY <2>1, <2>2, <1>n, ServiceSteps
<1>12. ASSUME NEW k \in Conns, HangUp(k) PROVE Goal
  <2>1. Client[k] # "absent" /\ UNCHANGED <<Client, State>>
    BY <1>12, <1>t DEF HangUp, Client, State, ServerTypeOK
  <2>2. Gone' = Gone \union {k}
    BY <1>12, <1>t DEF HangUp, Gone, ServerTypeOK
  <2>3. stalled' \in {stalled, stalled \ {k}} BY <1>12 DEF HangUp
  <2> QED BY <2>1, <2>2, <2>3, <1>n, ServiceSteps
<1>13. ASSUME NEW k \in Conns, Send(k) PROVE Goal BY <1>13, <1>q DEF Send
<1>14. ASSUME NEW c \in Contexts, HandlerReturns(c) PROVE Goal
  BY <1>14, <1>q DEF HandlerReturns
<1>15. ASSUME NEW k \in Conns, Stall(k) PROVE Goal
  <2>1. stalled' \in {stalled \union {k}, stalled \ {k}} BY <1>15 DEF Stall
  <2>2. UNCHANGED <<Client, Gone, State>> BY <1>15 DEF Stall, Client, Gone, State
  <2> QED BY <2>1, <2>2, <1>n, ServiceSteps
<1> QED BY <1>1, <1>2, <1>3, <1>4, <1>5, <1>6, <1>7, <1>8, <1>9, <1>10, <1>11, <1>12,
           <1>13, <1>14, <1>15
        DEF ServerNext, Listen, Accept, Process

\* benchmark_mt.cpp, the safety part of ServerRefinement: the server closes the connection
\* of no client that has not hung up, admits none after a failed accept, and goes down
\* only from a service that was up.
THEOREM ServerImplementsService ==
  ServerSpec => Clients!Init /\ [][Clients!Next]_(Clients!vars)
<1>1. ServerInit => Clients!Init BY DEF ServerInit, Clients!Init
<1> QED BY <1>1, ServerServes, ServerInductive, PTL DEF ServerSpec

-----------------------------------------------------------------------------
(* The limit of open files that the server programs raise first and restore *)
(* at last, whatever RLIM_INFINITY and the number of files they want are.   *)

NoLimits == [cur |-> 0, max |-> 0]

\* getrlimit worked and nothing has failed since, or it failed and left zeros.
LimitRead == initial = found /\ ~failed
LimitUnread == initial = NoLimits /\ failed

LimitHigh ==
  /\ kernel.max = found.max
  /\ kernel.cur >= found.cur
  /\ kernel.cur >= Wanted \/ kernel.cur = kernel.max

LimitProgress ==
  /\ pc = "raise" => kernel = found /\ ~failed /\ initial = NoLimits
  /\ pc = "adjust" => kernel = found /\ (LimitRead \/ LimitUnread)
  /\ pc = "serve" => (LimitRead /\ LimitHigh) \/ (LimitUnread /\ kernel = found)
  /\ pc = "done" => kernel = found /\ (LimitRead \/ LimitUnread)

LimitInv == LimitTypeOK /\ (~meddled => LimitProgress)

\* raise_resource_limits never asks for less than the old soft limit, nor for
\* more than the hard one, and leaves the hard one alone.
LEMMA RaisedLimits ==
  ASSUME NEW l \in Limits, Legal(l)
  PROVE  /\ Raised(l) \in Limits
         /\ Legal(Raised(l))
         /\ Raised(l).max = l.max
         /\ Raised(l).cur >= l.cur
         /\ Raised(l).cur >= Wanted \/ Raised(l).cur = l.max
<1>1. l.cur \in Values /\ l.max \in Values /\ l.cur <= l.max
  BY DEF Limits, Legal
<1>2. PICK c \in Values :
        /\ Raised(l) = [l EXCEPT !.cur = c]
        /\ l.cur <= c /\ c <= l.max
        /\ c >= Wanted \/ c = l.max
  <2>1. CASE l.max # Infinity
    <3>1. Raised(l) = [l EXCEPT !.cur = Smaller(Larger(l.cur, Wanted), l.max)]
      BY <2>1 DEF Raised
    <3> QED BY <1>1, <3>1, LimitAssumption DEF Smaller, Larger, Values
  <2>2. CASE l.max = Infinity
    <3>1. Raised(l) = [l EXCEPT !.cur = Larger(l.cur, Wanted)]
      BY <2>2 DEF Raised
    <3> QED BY <1>1, <2>2, <3>1, LimitAssumption DEF Larger, Values
  <2> QED BY <2>1, <2>2
<1>3. Raised(l) = [cur |-> c, max |-> l.max]
  BY <1>2 DEF Limits
<1> QED BY <1>1, <1>2, <1>3 DEF Limits, Legal

\* The zeros that a failed getrlimit leaves make raise_resource_limits do
\* nothing: its hard limit of zero caps the request.
LEMMA RaisedZero == Raised(NoLimits).cur = 0
BY LimitAssumption DEF Raised, NoLimits, Smaller, Larger

\* The program starts with the limits it found and has read nothing yet.
LEMMA InitLimit == LimitInit => LimitInv
<1> SUFFICES ASSUME LimitInit PROVE LimitInv OBVIOUS
<1>1. initial \in Limits /\ Legal(initial)
  BY LimitAssumption DEF LimitInit, Limits, Values, Legal
<1>2. LimitTypeOK
  BY <1>1 DEF LimitInit, LimitTypeOK
<1>3. LimitProgress
  BY DEF LimitInit, LimitProgress, NoLimits
<1> QED BY <1>2, <1>3 DEF LimitInv

\* getrlimit, whether it works or fails, keeps the invariant.
LEMMA GetLimitStep == LimitInv /\ GetLimit => LimitInv'
<1> SUFFICES ASSUME LimitInv, GetLimit PROVE LimitInv' OBVIOUS
<1>1. LimitTypeOK'
  BY DEF LimitInv, LimitTypeOK, GetLimit
<1>2. ASSUME ~meddled' PROVE LimitProgress'
  <2>1. ~meddled /\ pc = "raise" /\ pc' = "adjust" /\ kernel' = kernel
    BY <1>2 DEF GetLimit
  <2>2. kernel = found /\ ~failed /\ initial = NoLimits /\ found' = found
    BY <2>1 DEF LimitInv, LimitProgress, GetLimit
  <2>3. LimitRead' \/ LimitUnread'
    BY <2>2 DEF GetLimit, LimitRead, LimitUnread, NoLimits
  <2> QED BY <2>1, <2>2, <2>3 DEF LimitProgress
<1> QED BY <1>1, <1>2 DEF LimitInv

\* setrlimit is asked for limits it accepts, so only a failure of getrlimit
\* leaves the soft limit low.
LEMMA SetLimitStep == LimitInv /\ SetLimit => LimitInv'
<1> SUFFICES ASSUME LimitInv, SetLimit PROVE LimitInv' OBVIOUS
<1>1. initial \in Limits /\ Legal(initial) /\ kernel \in Limits
  BY DEF LimitInv, LimitTypeOK
<1>2. LimitTypeOK'
  <2>1. kernel' \in Limits /\ Legal(kernel')
    BY <1>1, RaisedLimits DEF LimitInv, LimitTypeOK, SetLimit
  <2>2. failed' \in BOOLEAN
    BY DEF LimitInv, LimitTypeOK, SetLimit
  <2> QED BY <2>1, <2>2 DEF LimitInv, LimitTypeOK, SetLimit, Legal
<1>3. ASSUME ~meddled' PROVE LimitProgress'
  <2>1. ~meddled /\ pc = "adjust" /\ pc' = "serve"
    BY <1>3 DEF SetLimit
  <2>2. kernel = found /\ initial' = initial /\ found' = found
    BY <2>1 DEF LimitInv, LimitProgress, SetLimit
  <2>3. CASE LimitRead
    <3>1. Accepted(Raised(initial))
      BY <1>1, <2>2, <2>3, RaisedLimits DEF Accepted, LimitRead, Limits, Values
    <3>2. LimitRead'
      BY <2>2, <2>3, <3>1 DEF SetLimit, LimitRead
    <3>3. CASE Raised(initial).cur # initial.cur
      BY <1>1, <2>1, <2>2, <2>3, <3>1, <3>2, <3>3, RaisedLimits
         DEF SetLimit, LimitRead, LimitHigh, LimitProgress
    <3>4. CASE Raised(initial).cur = initial.cur
      <4>1. kernel' = kernel
        BY <3>4 DEF SetLimit
      <4>2. LimitHigh'
        BY <1>1, <2>2, <2>3, <3>4, <4>1, RaisedLimits
           DEF LimitRead, LimitHigh, Limits, Values
      <4> QED BY <2>1, <3>2, <4>2 DEF LimitProgress
    <3> QED BY <3>3, <3>4
  <2>4. CASE LimitUnread
    <3>1. kernel' = kernel /\ failed' = failed
      BY <2>4, RaisedZero DEF LimitUnread, SetLimit, NoLimits
    <3> QED BY <2>1, <2>2, <2>4, <3>1 DEF LimitUnread, LimitProgress, NoLimits
  <2> QED BY <2>1, <2>3, <2>4 DEF LimitInv, LimitProgress
<1> QED BY <1>2, <1>3 DEF LimitInv

\* restore_resource_limits gives back what getrlimit returned, or nothing had
\* to be given back.
LEMMA RestoreStep == LimitInv /\ Restore => LimitInv'
<1> SUFFICES ASSUME LimitInv, Restore PROVE LimitInv' OBVIOUS
<1>1. LimitTypeOK'
  BY DEF LimitInv, LimitTypeOK, Restore, Legal
<1>2. ASSUME ~meddled' PROVE LimitProgress'
  <2>1. ~meddled /\ pc = "serve" /\ pc' = "done"
    BY <1>2 DEF Restore
  <2>2. initial' = initial /\ found' = found
    BY DEF Restore
  <2>3. /\ kernel \in Limits /\ initial \in Limits
        /\ Legal(kernel) /\ Legal(initial)
    BY DEF LimitInv, LimitTypeOK
  <2>4. CASE LimitRead /\ LimitHigh
    <3>1. CASE initial.cur = 0 /\ initial.max = 0
      <4>1. kernel' = kernel /\ failed' = failed
        BY <3>1 DEF Restore
      <4>2. kernel.max = 0 /\ kernel.cur = 0
        BY <2>3, <2>4, <3>1 DEF LimitRead, LimitHigh, Legal, Limits, Values
      <4>3. kernel = initial
        BY <2>3, <3>1, <4>2 DEF Limits
      <4> QED BY <2>1, <2>2, <2>4, <4>1, <4>3 DEF LimitRead, LimitProgress
    <3>2. CASE ~(initial.cur = 0 /\ initial.max = 0)
      <4>1. Accepted(initial)
        BY <2>3, <2>4 DEF LimitRead, LimitHigh, Accepted, Limits, Values
      <4>2. kernel' = initial /\ failed' = failed
        BY <3>2, <4>1 DEF Restore
      <4> QED BY <2>1, <2>2, <2>4, <4>2 DEF LimitRead, LimitProgress
    <3> QED BY <3>1, <3>2
  <2>5. CASE LimitUnread /\ kernel = found
    <3>1. kernel' = kernel /\ failed' = failed
      BY <2>5 DEF LimitUnread, NoLimits, Restore
    <3> QED BY <2>1, <2>2, <2>5, <3>1 DEF LimitUnread, LimitProgress, NoLimits
  <2> QED BY <2>1, <2>4, <2>5 DEF LimitInv, LimitProgress
<1> QED BY <1>1, <1>2 DEF LimitInv

\* Every step of the program and of the administrator keeps the invariant.
LEMMA NextLimit == LimitInv /\ [LimitNext]_limitVars => LimitInv'
<1> SUFFICES ASSUME LimitInv, [LimitNext]_limitVars PROVE LimitInv' OBVIOUS
<1>1. CASE GetLimit
  BY <1>1, GetLimitStep
<1>2. CASE SetLimit
  BY <1>2, SetLimitStep
<1>3. CASE Restore
  BY <1>3, RestoreStep
<1>4. CASE Prlimit
  BY <1>4 DEF LimitInv, LimitTypeOK, Prlimit, Legal
<1>5. CASE UNCHANGED limitVars
  BY <1>5 DEF LimitInv, LimitTypeOK, LimitProgress, LimitRead, LimitUnread, LimitHigh,
              Legal, NoLimits, limitVars
<1> QED BY <1>1, <1>2, <1>3, <1>4, <1>5 DEF LimitNext

\* The invariant on which the theorems about the limits rest.
THEOREM LimitInductive == LimitSpec => []LimitInv
BY InitLimit, NextLimit, PTL DEF LimitSpec

\* The limits the code holds and the kernel keeps are always legal limits.
THEOREM LimitTypeCorrect == LimitSpec => []LimitTypeOK
<1>1. LimitInv => LimitTypeOK
  BY DEF LimitInv
<1> QED BY <1>1, LimitInductive, PTL

\* raise_resource_limits raises the soft limit as far as wanted or allowed.
THEOREM RaisedEnoughCorrect == LimitSpec => []RaisedEnough
<1>1. LimitInv => RaisedEnough
  BY DEF LimitInv, LimitProgress, LimitRead, LimitUnread, LimitHigh, RaisedEnough
<1> QED BY <1>1, LimitInductive, PTL

\* Left alone, the limits can only fail to change because getrlimit failed:
\* neither call of setrlimit is refused.
THEOREM FailsOnlyByGetCorrect == LimitSpec => []FailsOnlyByGet
<1>1. LimitInv => FailsOnlyByGet
  <2> SUFFICES ASSUME LimitInv, failed, ~meddled
               PROVE  initial = NoLimits
    BY DEF FailsOnlyByGet, NoLimits
  <2>1. pc \in {"raise", "adjust", "serve", "done"} /\ LimitProgress
    BY DEF LimitInv, LimitTypeOK
  <2> QED BY <2>1 DEF LimitProgress, LimitRead, LimitUnread
<1> QED BY <1>1, LimitInductive, PTL

\* restore_resource_limits leaves the limits that main found.
THEOREM RestoredExactlyCorrect == LimitSpec => []RestoredExactly
<1>1. LimitInv => RestoredExactly
  BY DEF LimitInv, LimitProgress, RestoredExactly
<1> QED BY <1>1, LimitInductive, PTL
=============================================================================
