-------------------------- MODULE CoroutineTask_proofs --------------------------
(***************************************************************************)
(* Theorems about the asio programs written with coroutines. Of Task and   *)
(* spawn, for any number of frames and Task objects: a frame has one       *)
(* owner, only move assignment forgets one, and nothing undefined happens  *)
(* without misuse. Of the asio::awaitable servers, for any number          *)
(* of clients: that they echo what they read, and keep what                *)
(* ConnectionService promises.                                             *)
(***************************************************************************)
EXTENDS CoroutineTask, AwaitableServer, FiniteSetTheorems, SequenceTheorems, TLAPS

Elems(s) == {s[i] : i \in 1 .. Len(s)}
Distinct(s) == \A i, j \in 1 .. Len(s) : s[i] = s[j] => i = j

\* A frame that has been started and has not come to its end.
Started(f) == state[f] \in {"running", "op", "child"}
Awaited(f) == Started(f) /\ caller[f] # None

\* Whoever is on a stack runs, and is on one stack and there once.
StackInv ==
  /\ \A th \in Threads : /\ Distinct(stack[th])
                         /\ \A f \in Elems(stack[th]) : f \in Frames /\ state[f] = "running"
  /\ \A th, uh \in Threads : th # uh => Elems(stack[th]) \intersect Elems(stack[uh]) = {}

\* Frames and Tasks before their first use.
FreshInv ==
  /\ \A t \in fresh : ~Live(t)
  /\ \A f \in Frames, t \in Tasks : Holds(t, f) => state[f] # "none"
  /\ \A f \in Frames : state[f] \in {"none", "initial"} => caller[f] = None

HolderInv ==
  /\ \A f \in Frames, t, u \in Tasks : Holds(t, f) /\ Holds(u, f) => t = u
  /\ \A f \in Frames, t \in Tasks :
       Holds(t, f) /\ Started(f) /\ caller[f] = None => f \in misused

\* A frame is awaited by one caller, which is suspended for it (or gone), and its Task
\* is among the locals of the caller.
AwaitInv ==
  /\ \A f \in Frames : Awaited(f) =>
       /\ \E t \in Tasks : Holds(t, f) /\ scope[t] = caller[f]
       /\ state[caller[f]] \in {"child", "freed"}
  /\ \A f, g \in Frames : Awaited(f) /\ Awaited(g) /\ caller[f] = caller[g] => f = g

\* A frame that is gone and that somebody still refers to is tainted.
GuiltInv ==
  /\ \A f \in Frames, t \in Tasks : Holds(t, f) /\ state[f] = "freed" => f \in Tainted
  /\ \A f \in pending : state[f] = "op" \/ f \in Tainted
  /\ \A f \in Frames : Awaited(f) /\ state[caller[f]] = "freed" => caller[f] \in Tainted

OwnerInv == TypeOK /\ StackInv /\ FreshInv /\ HolderInv /\ AwaitInv /\ GuiltInv
IInv == OwnerInv /\ OnlyAssignmentLeaks /\ FaultNeedsMisuse

-----------------------------------------------------------------------------
(* The stack.                                                              *)

LEMMA PopProps ==
  ASSUME NEW S, NEW s \in Seq(S), s # <<>>, Distinct(s)
  PROVE  LET p == SubSeq(s, 1, Len(s) - 1)
         IN /\ s[Len(s)] \in S /\ s[Len(s)] \in Elems(s)
            /\ p \in Seq(S) /\ Distinct(p) /\ Elems(p) = Elems(s) \ {s[Len(s)]}
<1> DEFINE p == SubSeq(s, 1, Len(s) - 1)
<1>1. Len(s) \in Nat \ {0} BY EmptySeq
<1>2. s[Len(s)] \in S /\ s[Len(s)] \in Elems(s) BY <1>1, ElementOfSeq DEF Elems
<1>3. \A i \in 1 .. Len(s) - 1 : s[i] \in S BY <1>1, ElementOfSeq
<1>4. /\ p \in Seq(S) /\ Len(p) = Len(s) - 1
      /\ \A i \in 1 .. Len(s) - 1 : p[i] = s[i]
  <2>1. PICK n \in Nat : n = Len(s) - 1 BY <1>1
  <2>2. \A i \in 1 .. n : s[i] \in S BY <1>3, <2>1
  <2>3. /\ SubSeq(s, 1, n) \in Seq(S)
        /\ Len(SubSeq(s, 1, n)) = IF 1 <= n THEN n - 1 + 1 ELSE 0
        /\ \A i \in 1 .. n - 1 + 1 : SubSeq(s, 1, n)[i] = s[1 + i - 1]
    BY <2>2, SubSeqProperties
  <2>4. n - 1 + 1 = n /\ \A i \in 1 .. n : 1 + i - 1 = i OBVIOUS
  <2>5. Len(SubSeq(s, 1, n)) = n BY <2>3
  <2> QED BY <2>1, <2>3, <2>4, <2>5
<1> HIDE DEF p
<1>5. Distinct(p) BY <1>1, <1>4 DEF Distinct
<1>6. Elems(p) = Elems(s) \ {s[Len(s)]}
  <2>1. ASSUME NEW x \in Elems(p) PROVE x \in Elems(s) \ {s[Len(s)]}
    <3>1. PICK i \in 1 .. Len(s) - 1 : x = s[i] BY <1>4 DEF Elems
    <3>2. i # Len(s) /\ i \in 1 .. Len(s) /\ Len(s) \in 1 .. Len(s) BY <1>1
    <3>3. s[i] # s[Len(s)] BY <3>2 DEF Distinct
    <3> QED BY <3>1, <3>2, <3>3 DEF Elems
  <2>2. ASSUME NEW x \in Elems(s), x # s[Len(s)] PROVE x \in Elems(p)
    <3>1. PICK i \in 1 .. Len(s) : x = s[i] BY DEF Elems
    <3>2. i \in 1 .. Len(s) - 1 BY <1>1, <2>2, <3>1
    <3> QED BY <1>4, <3>1, <3>2 DEF Elems
  <2> QED BY <2>1, <2>2
<1> QED BY <1>2, <1>4, <1>5, <1>6 DEF p

LEMMA PushProps ==
  ASSUME NEW S, NEW s \in Seq(S), NEW x \in S, Distinct(s), x \notin Elems(s)
  PROVE  /\ Append(s, x) \in Seq(S) /\ Distinct(Append(s, x))
         /\ Elems(Append(s, x)) = Elems(s) \union {x}
<1>1. Len(s) \in Nat BY LenProperties
<1>2. PICK a : a = Append(s, x) OBVIOUS
<1>3. /\ a \in Seq(S) /\ Len(a) = Len(s) + 1 /\ a[Len(s) + 1] = x
      /\ \A i \in 1 .. Len(s) : a[i] = s[i]
  BY <1>1, <1>2, AppendProperties
<1>4. \A i \in 1 .. Len(a) : i = Len(s) + 1 \/ i \in 1 .. Len(s) BY <1>1, <1>3
<1>5. \A i \in 1 .. Len(s) : s[i] # x BY DEF Elems
<1>6. Distinct(a)
  <2> SUFFICES ASSUME NEW i \in 1 .. Len(a), NEW j \in 1 .. Len(a), a[i] = a[j]
               PROVE  i = j
    BY DEF Distinct
  <2>1. CASE i \in 1 .. Len(s) /\ j \in 1 .. Len(s) BY <1>3, <2>1 DEF Distinct
  <2>2. CASE i = Len(s) + 1 \/ j = Len(s) + 1 BY <1>3, <1>4, <1>5, <2>2
  <2> QED BY <1>4, <2>1, <2>2
<1>7. Elems(a) = Elems(s) \union {x}
  <2>1. 1 .. Len(a) = (1 .. Len(s)) \union {Len(s) + 1} BY <1>1, <1>3
  <2> QED BY <1>3, <2>1 DEF Elems
<1> QED BY <1>2, <1>3, <1>6, <1>7

\* The code that executes on a thread is a running coroutine or none.
LEMMA ActiveProps ==
  ASSUME TypeOK, StackInv, NEW th \in Threads
  PROVE  /\ Active(th) \in Frames \union Threads
         /\ Active(th) # Dead /\ Active(th) # None
         /\ Active(th) \in Frames => /\ stack[th] # <<>>
                                    /\ state[Active(th)] = "running"
                                    /\ Active(th) \in Elems(stack[th])
                                    /\ Caller(th) \in Seq(Frames) /\ Distinct(Caller(th))
                                    /\ Elems(Caller(th)) = Elems(stack[th]) \ {Active(th)}
<1>1. stack[th] \in Seq(Frames) /\ Distinct(stack[th]) BY DEF TypeOK, StackInv
<1>2. CASE stack[th] = <<>>
  <2>1. Active(th) = th BY <1>2 DEF Active
  <2> QED BY <2>1, TaskAssumption
<1>3. CASE stack[th] # <<>>
  <2>1. Active(th) = stack[th][Len(stack[th])] BY <1>3 DEF Active
  <2>2. /\ Active(th) \in Frames /\ Active(th) \in Elems(stack[th])
        /\ Caller(th) \in Seq(Frames) /\ Distinct(Caller(th))
        /\ Elems(Caller(th)) = Elems(stack[th]) \ {Active(th)}
    BY <1>1, <1>3, <2>1, PopProps DEF Caller
  <2>3. state[Active(th)] = "running" BY <2>2 DEF StackInv
  <2> QED BY <1>3, <2>2, <2>3, TaskAssumption
<1> QED BY <1>2, <1>3

LEMMA StackSame ==
  ASSUME StackInv, UNCHANGED stack,
         \A f \in Frames : state[f] = "running" => state'[f] = "running"
  PROVE  StackInv'
<1>1. PICK s : s = stack /\ s = stack' OBVIOUS
<1>2. \A th \in Threads : /\ Distinct(s[th])
                          /\ \A f \in Elems(s[th]) : f \in Frames /\ state[f] = "running"
  BY <1>1 DEF StackInv
<1>3. \A th, uh \in Threads : th # uh => Elems(s[th]) \intersect Elems(s[uh]) = {}
  BY <1>1 DEF StackInv
<1>4. /\ \A th \in Threads : Elems(stack[th])' = Elems(s[th])
      /\ \A th \in Threads : Distinct(stack[th])' <=> Distinct(s[th])
  BY <1>1 DEF Elems, Distinct
<1>5. \A th \in Threads : \A f \in Elems(s[th]) : f \in Frames /\ state'[f] = "running"
  BY <1>2
<1> QED BY <1>2, <1>3, <1>4, <1>5 DEF StackInv

\* The stack of one thread changes: whoever comes onto it was on no other stack, and
\* whoever is on another one still runs.
LEMMA StackStep ==
  ASSUME TypeOK, StackInv, NEW th \in Threads, NEW s \in Seq(Frames), Distinct(s),
         stack' = [stack EXCEPT ![th] = s],
         \A f \in Elems(s) : /\ f \in Frames /\ state'[f] = "running"
                             /\ f \in Elems(stack[th]) \/ state[f] # "running",
         \A f \in Frames : state[f] = "running" /\ f \notin Elems(stack[th])
                            => state'[f] = "running"
  PROVE  StackInv' /\ stack' \in [Threads -> Seq(Frames)]
<1>1. stack' \in [Threads -> Seq(Frames)] BY DEF TypeOK
<1>2. /\ stack'[th] = s
      /\ \A uh \in Threads : uh # th => stack'[uh] = stack[uh]
  BY DEF TypeOK
<1>3. ASSUME NEW uh \in Threads, uh # th
      PROVE  /\ Distinct(stack[uh]) /\ Elems(s) \intersect Elems(stack[uh]) = {}
             /\ \A f \in Elems(stack[uh]) : f \in Frames /\ state'[f] = "running"
  <2>1. /\ Elems(stack[th]) \intersect Elems(stack[uh]) = {} /\ Distinct(stack[uh])
        /\ \A f \in Elems(stack[uh]) : f \in Frames /\ state[f] = "running"
    BY <1>3 DEF StackInv
  <2> QED BY <2>1
<1>4. \A uh \in Threads : /\ Distinct(stack'[uh])
                          /\ \A f \in Elems(stack'[uh]) : f \in Frames /\ state'[f] = "running"
  BY <1>2, <1>3
<1>5. ASSUME NEW uh \in Threads, NEW vh \in Threads, uh # vh
      PROVE  Elems(stack'[uh]) \intersect Elems(stack'[vh]) = {}
  <2>1. CASE uh = th BY <1>2, <1>3, <1>5, <2>1
  <2>2. CASE vh = th BY <1>2, <1>3, <1>5, <2>2
  <2>3. CASE uh # th /\ vh # th BY <1>2, <1>5, <2>3 DEF StackInv
  <2> QED BY <2>1, <2>2, <2>3
<1> HIDE DEF Elems, Distinct
<1> QED BY <1>1, <1>4, <1>5 DEF StackInv, Elems, Distinct

-----------------------------------------------------------------------------
(* Tainted and Doomed are least fixed points.                              *)

LEMMA TaintedProps ==
  ASSUME TypeOK
  PROVE  /\ misused \subseteq Tainted /\ Tainted \subseteq Frames \union {None}
         /\ \A f \in Frames : caller[f] \in Tainted \ {None} => f \in Tainted
<1>1. misused \subseteq Tainted BY DEF Tainted, TypeOK
<1>2. ASSUME NEW f \in Frames, caller[f] \in Tainted \ {None} PROVE f \in Tainted
  <2> SUFFICES ASSUME NEW S \in SUBSET (Frames \union {None}), misused \subseteq S,
                      \A g \in Frames : caller[g] \in S \ {None} => g \in S
               PROVE  f \in S
    BY DEF Tainted
  <2>1. caller[f] \in S \ {None} BY <1>2 DEF Tainted
  <2> QED BY <2>1
<1> QED BY <1>1, <1>2 DEF Tainted

LEMMA TaintedPrime == misused' \subseteq Frames \union {None} => misused' \subseteq Tainted'
BY DEF Tainted

\* Once tainted, always tainted: callers are recorded and never forgotten.
LEMMA TaintedGrows ==
  ASSUME misused \subseteq misused',
         \A f \in Frames : caller[f] # None => caller'[f] = caller[f]
  PROVE  Tainted \subseteq Tainted'
<1> SUFFICES ASSUME NEW f \in Tainted, NEW S \in SUBSET (Frames \union {None}), misused' \subseteq S,
                    \A g \in Frames : caller'[g] \in S \ {None} => g \in S
             PROVE  f \in S
  BY DEF Tainted
<1>1. misused \subseteq S OBVIOUS
<1>2. \A g \in Frames : caller[g] \in S \ {None} => g \in S OBVIOUS
<1> QED BY <1>1, <1>2 DEF Tainted

\* Code has no Task of a coroutine that is awaited: whoever awaits is suspended.
LEMMA AwaitedElsewhere ==
  ASSUME OwnerInv, NEW th \in Threads, NEW t \in Tasks, InScope(th, t), NEW f \in Frames, handle[t] = f,
         Started(f)
  PROVE  f \in misused
<1> USE DEF OwnerInv
<1>1. Holds(t, f) BY ActiveProps DEF InScope, Holds, Live
<1>2. CASE caller[f] = None BY <1>1, <1>2 DEF HolderInv
<1>3. CASE caller[f] # None
  <2>1. Awaited(f) BY <1>3 DEF Awaited
  <2>2. scope[t] = caller[f] BY <1>1, <2>1 DEF AwaitInv, HolderInv
  <2>3. caller[f] = Active(th) /\ caller[f] \in Frames BY <1>3, <2>2 DEF InScope, TypeOK
  <2>4. state[caller[f]] = "running" BY <2>3, ActiveProps, TaskAssumption
  <2> QED BY <2>1, <2>4 DEF AwaitInv
<1> QED BY <1>2, <1>3

\* Destroying Tasks that are in scope destroys Tasks that exist, and no coroutine that
\* was started, unless it is tainted.
LEMMA DoomedProps ==
  ASSUME OwnerInv, NEW th \in Threads, NEW T, \A t \in T : t \in Tasks /\ InScope(th, t)
  PROVE  /\ T \subseteq Doomed(T) /\ Doomed(T) \subseteq Tasks
         /\ HandlesOf(Doomed(T)) \subseteq Frames
         /\ \A t \in Doomed(T) : Live(t)
         /\ \A f \in HandlesOf(Doomed(T)) : Started(f) => f \in Tainted
<1> USE DEF OwnerInv
<1> DEFINE S == {t \in Tasks : Live(t) /\ (handle[t] # None /\ Started(handle[t])
                                           => handle[t] \in Tainted)}
<1>1. T \subseteq S
  <2> SUFFICES ASSUME NEW t \in T PROVE t \in S OBVIOUS
  <2>1. Live(t) BY ActiveProps DEF InScope, Live
  <2>2. handle[t] # None /\ Started(handle[t]) => handle[t] \in misused
    BY AwaitedElsewhere DEF TypeOK
  <2> QED BY <2>1, <2>2, TaintedProps
<1>2. Locals(HandlesOf(S)) \subseteq S
  <2> SUFFICES ASSUME NEW t \in Tasks, scope[t] \in HandlesOf(S) PROVE t \in S
    BY DEF Locals
  <2>1. PICK u \in S : scope[t] = handle[u] /\ handle[u] # None BY DEF HandlesOf
  <2>2. PICK c \in Frames : c = handle[u] BY <2>1 DEF TypeOK
  <2>3. Holds(u, c) BY <2>2 DEF Holds
  <2>4. Live(t) BY <2>1, <2>2, TaskAssumption DEF Live
  <2>5. ASSUME handle[t] # None, Started(handle[t]) PROVE handle[t] \in Tainted
    <3>1. PICK f \in Frames : f = handle[t] BY <2>5 DEF TypeOK
    <3>2. Holds(t, f) BY <2>4, <3>1 DEF Holds
    <3>3. CASE caller[f] = None
      BY <2>5, <3>1, <3>2, <3>3, TaintedProps DEF HolderInv
    <3>4. CASE caller[f] # None
      <4>1. Awaited(f) BY <2>5, <3>1, <3>4 DEF Awaited
      <4>2. caller[f] = c BY <2>1, <2>2, <3>2, <4>1 DEF AwaitInv, HolderInv
      <4>3. state[c] = "child" => c \in Tainted BY <2>1, <2>2, TaskAssumption DEF Started
      <4>4. state[c] = "freed" => c \in Tainted BY <2>3 DEF GuiltInv
      <4>5. c \in Tainted BY <4>1, <4>2, <4>3, <4>4 DEF AwaitInv
      <4> QED BY <2>2, <3>1, <4>2, <4>5, TaintedProps, TaskAssumption
    <3> QED BY <3>3, <3>4
  <2> QED BY <2>4, <2>5
<1>3. T \subseteq Doomed(T) BY DEF Doomed
<1>4. S \in SUBSET Tasks OBVIOUS
<1>5. Doomed(T) \subseteq S BY <1>1, <1>2, <1>4 DEF Doomed
<1>6. HandlesOf(Doomed(T)) \subseteq Frames BY <1>5 DEF HandlesOf, TypeOK
<1>7. \A f \in HandlesOf(Doomed(T)) : Started(f) => f \in Tainted
  BY <1>5 DEF HandlesOf
<1> QED BY <1>3, <1>4, <1>5, <1>6, <1>7

LEMMA BadDestroyTainted ==
  ASSUME OwnerInv, NEW th \in Threads, NEW T, \A t \in T : t \in Tasks /\ InScope(th, t),
         NEW f \in BadDestroy(Doomed(T))
  PROVE  f \in Tainted
<1> USE DEF OwnerInv
<1>1. f \in HandlesOf(Doomed(T)) BY DEF BadDestroy
<1>2. PICK t \in Doomed(T) : f = handle[t] BY <1>1 DEF HandlesOf
<1>3. f \in Frames /\ t \in Tasks /\ Holds(t, f) BY <1>1, <1>2, DoomedProps DEF Holds
<1>4. CASE state[f] = "freed" BY <1>3, <1>4 DEF GuiltInv
<1>5. CASE state[f] = "running" BY <1>1, <1>5, DoomedProps DEF Started
<1>6. CASE \E u, w \in Doomed(T) : u # w /\ handle[u] = f /\ handle[w] = f
  <2>1. PICK u, w \in Doomed(T) : u # w /\ handle[u] = f /\ handle[w] = f BY <1>6
  <2>2. u \in Tasks /\ w \in Tasks /\ Holds(u, f) /\ Holds(w, f)
    BY <2>1, DoomedProps DEF Holds
  <2> QED BY <1>3, <2>1, <2>2 DEF HolderInv
<1> QED BY <1>4, <1>5, <1>6 DEF BadDestroy

-----------------------------------------------------------------------------
(* The steps.                                                              *)

LEMMA InitIInv == Init => IInv
<1> SUFFICES ASSUME Init PROVE IInv OBVIOUS
<1>1. stack = [th \in Threads |-> <<>>] /\ <<>> \in Seq(Frames) BY EmptySeq DEF Init
<1>2. TypeOK BY <1>1 DEF Init, TypeOK
<1>3. \A th \in Threads : Elems(stack[th]) = {} BY <1>1, EmptySeq DEF Elems
<1>4. \A th \in Threads : Distinct(stack[th]) BY <1>1, EmptySeq DEF Distinct
<1>5. StackInv BY <1>3, <1>4 DEF StackInv
<1>6. \A t \in Tasks : ~Live(t) BY DEF Init, Live
<1>7. \A f \in Frames : state[f] = "none" /\ caller[f] = None BY DEF Init
<1>8. FreshInv BY <1>6, <1>7 DEF FreshInv, Init, Holds
<1>9. HolderInv BY <1>6 DEF HolderInv, Holds
<1>10. AwaitInv BY <1>7 DEF AwaitInv, Awaited
<1>11. GuiltInv BY <1>6, <1>7 DEF GuiltInv, Init, Holds, Awaited
<1>12. OnlyAssignmentLeaks BY <1>7 DEF OnlyAssignmentLeaks
<1>13. FaultNeedsMisuse BY DEF Init, FaultNeedsMisuse
<1> QED BY <1>2, <1>5, <1>8, <1>9, <1>10, <1>11, <1>12, <1>13 DEF IInv, OwnerInv

\* The first undefined step, which strikes a tainted frame.
LEMMA FaultStep ==
  ASSUME OwnerInv, OnlyAssignmentLeaks, fault = <<>>,
         NEW kind \in {"destroy", "resume"}, NEW f, Fault(kind, f),
         misused \subseteq misused', misused' \subseteq Frames \union {None},
         f \in Tainted \union misused'
  PROVE  IInv'
<1> USE DEF OwnerInv
<1>1. UNCHANGED <<state, caller, handle, scope, fresh, stack, leaving, pending, overwritten>>
  BY DEF Fault
<1>2. fault' = <<kind, f>> BY DEF Fault
<1>3. f \in Frames \union {None} BY TaintedProps
<1>4. TypeOK'
  <2>1. fault' \in {"destroy", "resume", "use"} \X (Frames \union {None}) BY <1>2, <1>3
  <2> QED BY <1>1, <2>1 DEF TypeOK
<1>5. StackInv' BY <1>1, StackSame
<1>6. FreshInv' BY <1>1 DEF FreshInv, Live, Holds
<1>7. HolderInv' BY <1>1 DEF HolderInv, Live, Holds, Started
<1>8. AwaitInv' BY <1>1 DEF AwaitInv, Live, Holds, Started, Awaited
<1>9. Tainted \subseteq Tainted' BY <1>1, TaintedGrows
<1>10. GuiltInv' BY <1>1, <1>9 DEF GuiltInv, Live, Holds, Started, Awaited
<1>11. OnlyAssignmentLeaks' BY <1>2 DEF OnlyAssignmentLeaks
<1>12. FaultNeedsMisuse'
  <2>1. misused' \subseteq Tainted' BY <1>4, TaintedPrime
  <2> QED BY <1>2, <1>9, <2>1 DEF FaultNeedsMisuse
<1> QED BY <1>4, <1>5, <1>6, <1>7, <1>8, <1>10, <1>11, <1>12 DEF IInv

\* A coroutine is called: its frame is new, and so is the Task that holds it.
LEMMA CreateStep ==
  ASSUME OwnerInv, OnlyAssignmentLeaks, fault = <<>>,
         NEW th \in Threads, NEW t \in Tasks, NEW f \in Frames, Create(th, t, f)
  PROVE  IInv'
<1> USE DEF OwnerInv
<1>1. /\ t \in fresh /\ state[f] = "none"
      /\ state' = [state EXCEPT ![f] = "initial"]
      /\ handle' = [handle EXCEPT ![t] = f]
      /\ scope' = [scope EXCEPT ![t] = Active(th)]
      /\ fresh' = fresh \ {t}
      /\ UNCHANGED <<caller, stack, leaving, pending, fault, misused, overwritten>>
  BY DEF Create
<1>2. TypeOK' BY <1>1, ActiveProps DEF TypeOK
<1>3. /\ state'[f] = "initial" /\ \A g \in Frames : g # f => state'[g] = state[g]
      /\ ~Live(t) /\ Holds(t, f)'
      /\ \A u \in Tasks : u # t => /\ scope'[u] = scope[u] /\ (Live(u)' <=> Live(u))
                                  /\ \A g \in Frames : Holds(u, g)' <=> Holds(u, g)
      /\ \A g \in Frames : Holds(t, g)' => g = f
  BY <1>1, ActiveProps DEF TypeOK, FreshInv, Live, Holds
<1>4. \A u \in Tasks : ~Holds(u, f) BY <1>1 DEF FreshInv
<1>5. \A g \in Frames : ~Holds(t, g) BY <1>3 DEF Holds
<1>6. StackInv' BY <1>1, <1>3, StackSame
<1>7. FreshInv' BY <1>1, <1>3 DEF FreshInv, TypeOK
<1>8. \A g \in Frames : Started(g)' <=> Started(g) BY <1>1, <1>3 DEF Started
<1>9. HolderInv' BY <1>1, <1>3, <1>4, <1>8 DEF HolderInv, Started
<1>10. \A g \in Frames : Awaited(g)' <=> Awaited(g) BY <1>1, <1>8 DEF Awaited
<1>11. \A g \in Frames : Awaited(g) => caller[g] \in Frames /\ caller[g] # f
  BY <1>1 DEF AwaitInv, Awaited, TypeOK
<1>12. AwaitInv'
  <2>1. ASSUME NEW g \in Frames, Awaited(g)'
        PROVE  /\ \E u \in Tasks : Holds(u, g)' /\ scope'[u] = caller'[g]
               /\ state'[caller'[g]] \in {"child", "freed"}
    <3>1. Awaited(g) /\ caller'[g] = caller[g] BY <1>1, <1>10, <2>1
    <3>2. PICK u \in Tasks : Holds(u, g) /\ scope[u] = caller[g] BY <3>1 DEF AwaitInv
    <3>3. Holds(u, g)' /\ scope'[u] = caller'[g] BY <1>3, <1>5, <3>1, <3>2
    <3> QED BY <1>3, <1>11, <3>1, <3>3 DEF AwaitInv
  <2> QED BY <1>1, <1>10, <2>1 DEF AwaitInv
<1>13. Tainted' = Tainted BY <1>1 DEF Tainted
<1>14. GuiltInv' BY <1>1, <1>3, <1>10, <1>11, <1>13 DEF GuiltInv, TypeOK
<1>15. OnlyAssignmentLeaks' BY <1>1, <1>3, <1>5 DEF OnlyAssignmentLeaks
<1>16. FaultNeedsMisuse' BY <1>1 DEF FaultNeedsMisuse
<1> QED BY <1>2, <1>6, <1>7, <1>9, <1>12, <1>14, <1>15, <1>16 DEF IInv

\* A Task takes the frame of another, which is in scope and empty from then on. What it
\* held itself is overwritten.
LEMMA HandOver ==
  ASSUME OwnerInv, OnlyAssignmentLeaks, fault = <<>>,
         NEW th \in Threads, NEW t \in Tasks, NEW other \in Tasks, t # other, InScope(th, other),
         InScope(th, t) \/ ~Live(t),
         handle' = [handle EXCEPT ![t] = handle[other], ![other] = None],
         scope' = [scope EXCEPT ![t] = Active(th)], fresh' = fresh \ {t},
         overwritten \subseteq overwritten', overwritten' \subseteq Frames,
         \A f \in Frames : Holds(t, f) => f \in overwritten',
         UNCHANGED <<state, caller, stack, leaving, pending, fault, misused>>
  PROVE  IInv'
<1> USE DEF OwnerInv
<1>1. TypeOK' BY ActiveProps DEF TypeOK
<1>2. /\ Live(other) /\ Live(t)' /\ scope'[t] = Active(th)
      /\ \A f \in Frames : ~Holds(other, f)' /\ (Holds(t, f)' <=> Holds(other, f))
      /\ \A u \in Tasks : u # t => scope'[u] = scope[u] /\ (Live(u)' <=> Live(u))
      /\ \A u \in Tasks : u # t /\ u # other => \A f \in Frames : Holds(u, f)' <=> Holds(u, f)
  <2>1. Active(th) # Dead BY ActiveProps
  <2>2. Live(other) BY <2>1 DEF InScope, Live
  <2>3. /\ scope'[t] = Active(th) /\ handle'[t] = handle[other] /\ handle'[other] = None
        /\ \A u \in Tasks : u # t => scope'[u] = scope[u]
        /\ \A u \in Tasks : u # t /\ u # other => handle'[u] = handle[u]
    BY DEF TypeOK
  <2> QED BY <2>1, <2>2, <2>3, TaskAssumption DEF Live, Holds
<1>3. StackInv' BY StackSame
<1>4. \A u \in Tasks, f \in Frames : Holds(u, f)' => \E w \in Tasks : Holds(w, f) BY <1>2
<1>5. FreshInv' BY <1>2, <1>4 DEF FreshInv, TypeOK
<1>6. \A f \in Frames : /\ Started(f)' <=> Started(f)
                        /\ Awaited(f)' <=> Awaited(f)
  BY DEF Started, Awaited
<1>7. HolderInv' BY <1>2, <1>4, <1>6 DEF HolderInv
<1>8. \A f \in Frames : Awaited(f) => caller[f] # Active(th)
  <2> SUFFICES ASSUME NEW f \in Frames, Awaited(f), caller[f] = Active(th) PROVE FALSE OBVIOUS
  <2>1. Active(th) \in Frames BY DEF Awaited, TypeOK
  <2> QED BY <2>1, ActiveProps, TaskAssumption DEF AwaitInv
<1>9. AwaitInv'
  <2>1. ASSUME NEW f \in Frames, Awaited(f)'
        PROVE  \E u \in Tasks : Holds(u, f)' /\ scope'[u] = caller'[f]
    <3>1. Awaited(f) BY <1>6, <2>1
    <3>2. PICK u \in Tasks : Holds(u, f) /\ scope[u] = caller[f] BY <3>1 DEF AwaitInv
    <3>3. u # t /\ u # other BY <1>8, <3>1, <3>2 DEF InScope, Holds
    <3> QED BY <1>2, <3>2, <3>3
  <2> QED BY <1>6, <2>1 DEF AwaitInv
<1>10. Tainted' = Tainted BY DEF Tainted
<1>11. GuiltInv' BY <1>4, <1>6, <1>10 DEF GuiltInv
<1>12. OnlyAssignmentLeaks'
  <2> SUFFICES ASSUME NEW f \in Frames, state[f] \in {"initial", "done"}, fault = <<>>
               PROVE  f \in overwritten' \/ \E u \in Tasks : Holds(u, f)'
    BY DEF OnlyAssignmentLeaks
  <2>1. CASE f \in overwritten BY <2>1
  <2>2. CASE \E u \in Tasks : Holds(u, f)
    <3>1. PICK u \in Tasks : Holds(u, f) BY <2>2
    <3>2. CASE u = t BY <3>1, <3>2
    <3>3. CASE u = other BY <1>2, <3>1, <3>3
    <3>4. CASE u # t /\ u # other BY <1>2, <3>1, <3>4
    <3> QED BY <3>2, <3>3, <3>4
  <2> QED BY <2>1, <2>2 DEF OnlyAssignmentLeaks
<1>13. FaultNeedsMisuse' BY DEF FaultNeedsMisuse
<1> QED BY <1>1, <1>3, <1>5, <1>7, <1>9, <1>11, <1>12, <1>13 DEF IInv

LEMMA MoveStep ==
  ASSUME OwnerInv, OnlyAssignmentLeaks, fault = <<>>,
         NEW th \in Threads, NEW t \in Tasks, NEW other \in Tasks,
         MoveConstruct(th, t, other) \/ MoveAssign(th, t, other)
  PROVE  IInv'
<1> USE DEF OwnerInv
<1>1. CASE MoveConstruct(th, t, other)
  <2>1. /\ t \in fresh /\ InScope(th, other)
        /\ handle' = [handle EXCEPT ![t] = handle[other], ![other] = None]
        /\ scope' = [scope EXCEPT ![t] = Active(th)]
        /\ fresh' = fresh \ {t}
        /\ UNCHANGED <<state, caller, stack, leaving, pending, fault, misused, overwritten>>
    BY <1>1 DEF MoveConstruct
  <2>2. ~Live(t) /\ Live(other) BY <2>1, ActiveProps DEF FreshInv, InScope, Live
  <2>3. \A f \in Frames : ~Holds(t, f) BY <2>2 DEF Holds
  <2>4. overwritten \subseteq Frames BY DEF TypeOK
  <2> QED BY <2>1, <2>2, <2>3, <2>4, HandOver
<1>2. CASE MoveAssign(th, t, other)
  <2>1. /\ t # other /\ InScope(th, t) /\ InScope(th, other)
        /\ handle' = [handle EXCEPT ![t] = handle[other], ![other] = None]
        /\ overwritten' = overwritten \union ({handle[t]} \ {None})
        /\ UNCHANGED <<state, caller, scope, fresh, stack, leaving, pending, fault, misused>>
    BY <1>2 DEF MoveAssign
  <2>2. scope' = [scope EXCEPT ![t] = Active(th)] BY <2>1 DEF InScope, TypeOK
  <2>3. Live(t) BY <2>1, ActiveProps DEF InScope, Live
  <2>4. fresh' = fresh \ {t} BY <2>1, <2>3 DEF FreshInv
  <2>5. overwritten' \subseteq Frames BY <2>1 DEF TypeOK
  <2>6. \A f \in Frames : Holds(t, f) => f \in overwritten'
    BY <2>1, TaskAssumption DEF Holds
  <2> QED BY <2>1, <2>2, <2>4, <2>5, <2>6, HandOver
<1> QED BY <1>1, <1>2

\* A coroutine is started: spawn() detaches it from its Task, resume() taints it.
LEMMA StartStep ==
  ASSUME OwnerInv, OnlyAssignmentLeaks, fault = <<>>,
         NEW th \in Threads, NEW t \in Tasks, NEW f \in Frames, f = handle[t],
         InScope(th, t), state[f] = "initial", Start(th, f, stack[th]),
         UNCHANGED <<caller, scope, fresh, leaving, pending, fault, overwritten>>,
         \/ handle' = [handle EXCEPT ![t] = None] /\ UNCHANGED misused
         \/ misused' = misused \union {f} /\ UNCHANGED handle
  PROVE  IInv'
<1> USE DEF OwnerInv
<1>1. f = handle[t] OBVIOUS
<1>2. /\ InScope(th, t) /\ state[f] = "initial" /\ Start(th, f, stack[th])
      /\ UNCHANGED <<caller, scope, fresh, leaving, pending, fault, overwritten>>
      /\ \/ handle' = [handle EXCEPT ![t] = None] /\ UNCHANGED misused
         \/ misused' = misused \union {f} /\ UNCHANGED handle
  OBVIOUS
<1>3. f \notin Elems(stack[th]) BY DEF StackInv
<1>4. PICK s : s = Append(stack[th], f) OBVIOUS
<1>4a. /\ s \in Seq(Frames) /\ Distinct(s) /\ Elems(s) = Elems(stack[th]) \union {f}
       /\ stack' = [stack EXCEPT ![th] = s]
  BY <1>3, <1>4, PushProps DEF Start, StackInv, TypeOK
<1>5. /\ state' \in [Frames -> {"none", "initial", "running", "op", "child", "done", "freed"}]
      /\ state'[f] = "running" /\ \A g \in Frames : g # f => state'[g] = state[g]
  BY DEF Start, TypeOK
<1>7. \A g \in Elems(s) : /\ g \in Frames /\ state'[g] = "running"
                          /\ g \in Elems(stack[th]) \/ state[g] # "running"
  BY <1>4a, <1>5 DEF StackInv
<1>8. StackInv' /\ stack' \in [Threads -> Seq(Frames)] BY <1>4a, <1>5, <1>7, StackStep
<1>6. TypeOK' BY <1>5, <1>8 DEF TypeOK
<1>9. Holds(t, f) BY <1>1, <1>2, ActiveProps DEF InScope, Holds, Live
<1>10. /\ \A u \in Tasks : Live(u)' <=> Live(u)
       /\ \A u \in Tasks, g \in Frames : Holds(u, g)' => Holds(u, g)
       /\ \A u \in Tasks, g \in Frames : g # f => (Holds(u, g)' <=> Holds(u, g))
  BY <1>1, <1>2, TaskAssumption DEF Holds, Live, TypeOK
<1>11. f \in misused' \/ \A u \in Tasks : ~Holds(u, f)'
  <2>1. CASE f \in misused' BY <2>1
  <2>2. CASE handle' = [handle EXCEPT ![t] = None]
    <3>1. ~Holds(t, f)' BY <2>2, TaskAssumption DEF Holds, TypeOK
    <3> QED BY <1>9, <1>10, <3>1 DEF HolderInv
  <2> QED BY <1>2, <2>1, <2>2
<1>12. caller[f] = None /\ misused \subseteq misused' BY <1>2 DEF FreshInv
<1>13. FreshInv' BY <1>2, <1>5, <1>10 DEF FreshInv, TypeOK
<1>14. \A g \in Frames : g # f => (Started(g)' <=> Started(g)) BY <1>5 DEF Started
<1>15. HolderInv' BY <1>2, <1>10, <1>11, <1>12, <1>14 DEF HolderInv
<1>16. \A g \in Frames : Awaited(g)' => Awaited(g) /\ g # f /\ caller[g] \in Frames \ {f}
  <2> SUFFICES ASSUME NEW g \in Frames, Awaited(g)'
               PROVE  Awaited(g) /\ g # f /\ caller[g] \in Frames \ {f}
    OBVIOUS
  <2>1. g # f BY <1>2, <1>12 DEF Awaited
  <2>2. Awaited(g) BY <1>2, <1>14, <2>1 DEF Awaited
  <2>3. caller[g] \in Frames BY <2>2 DEF Awaited, TypeOK
  <2>4. caller[g] # f BY <1>2, <2>2 DEF AwaitInv
  <2> QED BY <2>1, <2>2, <2>3, <2>4
<1>17. AwaitInv'
  <2>1. ASSUME NEW g \in Frames, Awaited(g)'
        PROVE  /\ \E u \in Tasks : Holds(u, g)' /\ scope'[u] = caller'[g]
               /\ state'[caller'[g]] \in {"child", "freed"}
    BY <1>2, <1>5, <1>10, <1>16, <2>1 DEF AwaitInv
  <2> QED BY <1>2, <1>16, <2>1 DEF AwaitInv
<1>18. Tainted \subseteq Tainted' BY <1>2, <1>12, TaintedGrows
<1>19. GuiltInv'
  <2>1. \A g \in Frames, u \in Tasks : Holds(u, g)' /\ state'[g] = "freed" => g \in Tainted'
    BY <1>5, <1>10, <1>18 DEF GuiltInv
  <2>2. \A g \in pending' : state'[g] = "op" \/ g \in Tainted'
    BY <1>2, <1>5, <1>18 DEF GuiltInv, TypeOK
  <2>3. \A g \in Frames : Awaited(g)' /\ state'[caller'[g]] = "freed" => caller'[g] \in Tainted'
    BY <1>2, <1>5, <1>16, <1>18 DEF GuiltInv
  <2> QED BY <2>1, <2>2, <2>3 DEF GuiltInv
<1>20. OnlyAssignmentLeaks' BY <1>2, <1>5, <1>10 DEF OnlyAssignmentLeaks
<1>21. FaultNeedsMisuse' BY <1>2 DEF FaultNeedsMisuse
<1> QED BY <1>6, <1>8, <1>13, <1>15, <1>17, <1>19, <1>20, <1>21 DEF IInv

\* A frame passes from a stack to an operation or back: it stays started, held and
\* awaited as it was.
LEMMA OperationStep ==
  ASSUME OwnerInv, OnlyAssignmentLeaks, fault = <<>>, NEW f \in Frames,
         NEW from \in {"running", "op"}, NEW to \in {"running", "op"},
         state[f] = from, state' = [state EXCEPT ![f] = to],
         pending' \subseteq pending \union {f}, to = "running" => f \notin pending',
         StackInv', stack' \in [Threads -> Seq(Frames)],
         leaving' \in [Threads -> Frames \union {None}],
         UNCHANGED <<caller, handle, scope, fresh, fault, misused, overwritten>>
  PROVE  IInv'
<1> USE DEF OwnerInv
<1>1. /\ state'[f] = to /\ \A g \in Frames : g # f => state'[g] = state[g]
      /\ state' \in [Frames -> {"none", "initial", "running", "op", "child", "done", "freed"}]
  BY DEF TypeOK
<1>2. TypeOK' BY <1>1 DEF TypeOK
<1>3. StackInv' OBVIOUS
<1>4. \A u \in Tasks : /\ Live(u)' <=> Live(u)
                       /\ \A g \in Frames : Holds(u, g)' <=> Holds(u, g)
  BY DEF Live, Holds
<1>5. FreshInv' BY <1>1, <1>4 DEF FreshInv, TypeOK
<1>6. \A g \in Frames : Started(g)' <=> Started(g) BY <1>1 DEF Started
<1>7. \A g \in Frames : Awaited(g)' <=> Awaited(g) BY <1>6 DEF Awaited
<1>8. HolderInv' BY <1>4, <1>6 DEF HolderInv
<1>9. ASSUME NEW g \in Frames, Awaited(g) PROVE caller[g] \in Frames \ {f}
  <2>1. caller[g] \in Frames BY <1>9 DEF Awaited, TypeOK
  <2>2. state[caller[g]] \in {"child", "freed"} BY <1>9 DEF AwaitInv
  <2> QED BY <2>1, <2>2
<1>10. AwaitInv'
  <2>1. ASSUME NEW g \in Frames, Awaited(g)'
        PROVE  /\ \E u \in Tasks : Holds(u, g)' /\ scope'[u] = caller'[g]
               /\ state'[caller'[g]] \in {"child", "freed"}
    BY <1>1, <1>4, <1>7, <1>9, <2>1 DEF AwaitInv
  <2> QED BY <1>7, <2>1 DEF AwaitInv
<1>11. Tainted' = Tainted BY DEF Tainted
<1>12. GuiltInv'
  <2>1. \A g \in pending' : state'[g] = "op" \/ g \in Tainted
    BY <1>1 DEF GuiltInv, TypeOK
  <2> QED BY <1>1, <1>4, <1>7, <1>9, <1>11, <2>1 DEF GuiltInv
<1>13. OnlyAssignmentLeaks' BY <1>1, <1>4 DEF OnlyAssignmentLeaks
<1>14. FaultNeedsMisuse' BY DEF FaultNeedsMisuse
<1> QED BY <1>2, <1>3, <1>5, <1>8, <1>10, <1>12, <1>13, <1>14 DEF IInv

LEMMA StartOpStep ==
  ASSUME OwnerInv, OnlyAssignmentLeaks, fault = <<>>, NEW th \in Threads, StartOp(th)
  PROVE  IInv'
<1> USE DEF OwnerInv
<1>1. PICK f \in Frames : f = Active(th) /\ state[f] = "running"
  BY ActiveProps DEF StartOp
<1>2. /\ state' = [state EXCEPT ![f] = "op"] /\ pending' = pending \union {f}
      /\ stack' = [stack EXCEPT ![th] = Caller(th)]
      /\ leaving' = [leaving EXCEPT ![th] = f]
      /\ UNCHANGED <<caller, handle, scope, fresh, fault, misused, overwritten>>
  BY <1>1 DEF StartOp
<1>3. PICK s : s = Caller(th) OBVIOUS
<1>4. /\ s \in Seq(Frames) /\ Distinct(s) /\ Elems(s) = Elems(stack[th]) \ {f}
      /\ f \in Elems(stack[th])
  BY <1>1, <1>3, ActiveProps
<1>5. \A g \in Frames : g # f => state'[g] = state[g] BY <1>2 DEF TypeOK
<1>6. \A g \in Elems(s) : g \in Frames /\ state'[g] = "running" /\ g \in Elems(stack[th])
  BY <1>4, <1>5 DEF StackInv
<1>7. StackInv' /\ stack' \in [Threads -> Seq(Frames)]
  BY <1>2, <1>3, <1>4, <1>5, <1>6, StackStep
<1>8. leaving' \in [Threads -> Frames \union {None}] BY <1>2 DEF TypeOK
<1> QED BY <1>1, <1>2, <1>7, <1>8, OperationStep

\* await_suspend returns: it touches nothing of the frame.
LEMMA LeaveSuspendStep ==
  ASSUME OwnerInv, OnlyAssignmentLeaks, fault = <<>>, NEW th \in Threads, LeaveSuspend(th)
  PROVE  IInv'
<1> USE DEF OwnerInv
<1>1. /\ leaving' = [leaving EXCEPT ![th] = None]
      /\ UNCHANGED <<state, caller, handle, scope, fresh, stack, pending, fault, misused,
                     overwritten>>
  BY DEF LeaveSuspend
<1>2. TypeOK' BY <1>1 DEF TypeOK
<1>3. Tainted' = Tainted BY <1>1 DEF Tainted
<1>4a. StackInv' BY <1>1, StackSame
<1>4. OwnerInv'
  BY <1>1, <1>2, <1>3, <1>4a DEF FreshInv, HolderInv, AwaitInv, GuiltInv,
                                 Live, Holds, Started, Awaited
<1>5. OnlyAssignmentLeaks' BY <1>1 DEF OnlyAssignmentLeaks, Live, Holds
<1>6. FaultNeedsMisuse' BY <1>1 DEF FaultNeedsMisuse
<1> QED BY <1>4, <1>5, <1>6 DEF IInv

\* The handler of an operation resumes a coroutine that waits for it, or one that was
\* destroyed and is tainted.
LEMMA CompleteOpStep ==
  ASSUME OwnerInv, OnlyAssignmentLeaks, fault = <<>>, NEW th \in Threads,
         NEW f \in Frames, CompleteOp(th, f)
  PROVE  IInv'
<1> USE DEF OwnerInv
<1>1. CASE state[f] # "op"
  <2>1. f \in Tainted /\ Fault("resume", f) /\ UNCHANGED misused
    BY <1>1 DEF CompleteOp, GuiltInv
  <2> QED BY <2>1, FaultStep DEF TypeOK
<1>2. CASE state[f] = "op"
  <2>1. PICK e : e = <<>> OBVIOUS
  <2>2. e \in Seq(Frames) /\ Elems(e) = {} /\ Distinct(e)
    BY <2>1, EmptySeq DEF Elems, Distinct
  <2>3. PICK s : s = Append(e, f) OBVIOUS
  <2>4. s \in Seq(Frames) /\ Distinct(s) /\ Elems(s) = {f}
    <3> HIDE <2>1
    <3> QED BY <2>2, <2>3, PushProps
  <2>5. /\ state' = [state EXCEPT ![f] = "running"] /\ pending' = pending \ {f}
        /\ stack' = [stack EXCEPT ![th] = s]
        /\ UNCHANGED <<caller, handle, scope, fresh, leaving, fault, misused, overwritten>>
    BY <1>2, <2>1, <2>3 DEF CompleteOp, Start
  <2>6. state'[f] = "running" /\ \A g \in Frames : g # f => state'[g] = state[g]
    BY <2>5 DEF TypeOK
  <2>7. StackInv' /\ stack' \in [Threads -> Seq(Frames)]
    <3>1. \A g \in Elems(s) : /\ g \in Frames /\ state'[g] = "running"
                              /\ g \in Elems(stack[th]) \/ state[g] # "running"
      BY <1>2, <2>4, <2>6
    <3>2. \A g \in Frames : state[g] = "running" => state'[g] = "running" BY <2>6
    <3> QED BY <2>4, <2>5, <3>1, <3>2, StackStep
  <2> QED BY <1>2, <2>5, <2>7, OperationStep DEF TypeOK
<1> QED BY <1>1, <1>2

\* Misuse is recorded: Task::resume(), and spawn() of a coroutine that was started.
LEMMA ResumeStep ==
  ASSUME OwnerInv, OnlyAssignmentLeaks, fault = <<>>, NEW th \in Threads, NEW t \in Tasks,
         Spawn(th, t) \/ Resume(th, t) \/ CoAwaitEmpty(th, t)
  PROVE  IInv'
<1> USE DEF OwnerInv
<1>0. handle[t] \in Frames \union {None} BY DEF TypeOK
<1>1. CASE Spawn(th, t) /\ state[handle[t]] = "initial"
  <2>1. handle[t] \in Frames BY <1>0, <1>1 DEF Spawn
  <2> QED BY <1>1, <2>1, StartStep DEF Spawn
<1>2. CASE Resume(th, t) /\ handle[t] # None /\ state[handle[t]] = "initial"
  <2>1. handle[t] \in Frames BY <1>0, <1>2
  <2> QED BY <1>2, <2>1, StartStep DEF Resume
<1>3. CASE /\ Spawn(th, t) => state[handle[t]] # "initial"
           /\ Resume(th, t) => handle[t] = None \/ state[handle[t]] # "initial"
  <2>1. Fault("resume", handle[t]) /\ misused' = misused \union {handle[t]}
    BY <1>3 DEF Spawn, Resume, CoAwaitEmpty
  <2> QED BY <1>0, <2>1, FaultStep DEF TypeOK
<1> QED BY <1>1, <1>2, <1>3

\* A callee that was not started yet becomes the awaited child of the code that awaits it.
LEMMA CoAwaitStep ==
  ASSUME OwnerInv, OnlyAssignmentLeaks, fault = <<>>, NEW th \in Threads,
         NEW t \in Tasks, CoAwait(th, t)
  PROVE  IInv'
<1> USE DEF OwnerInv
<1>1. PICK f \in Frames : f = handle[t] BY DEF CoAwait, TypeOK
<1>2. PICK a \in Frames : a = Active(th) /\ state[a] = "running"
  BY ActiveProps DEF CoAwait
<1>3. InScope(th, t) /\ scope[t] = a /\ Holds(t, f)
  BY <1>1, <1>2, ActiveProps DEF CoAwait, InScope, Holds, Live
<1>4. CASE state[f] # "initial"
  <2>1. state[f] # "done" /\ Fault("resume", f) /\ UNCHANGED misused
    BY <1>1, <1>4 DEF CoAwait
  <2>2. state[f] # "none" BY <1>3 DEF FreshInv
  <2>3. state[f] = "freed" \/ Started(f) BY <1>4, <2>1, <2>2 DEF Started, TypeOK
  <2>4. f \in Tainted
    BY <1>1, <1>3, <2>3, AwaitedElsewhere, TaintedProps DEF GuiltInv
  <2> QED BY <2>1, <2>4, FaultStep DEF TypeOK
<1>5. CASE state[f] = "initial"
  <2>1. /\ state' = [state EXCEPT ![a] = "child", ![f] = "running"]
        /\ caller' = [caller EXCEPT ![f] = a]
        /\ stack' = [stack EXCEPT ![th] = Append(Caller(th), f)]
        /\ UNCHANGED <<handle, scope, fresh, leaving, pending, fault, misused, overwritten>>
    BY <1>1, <1>2, <1>5 DEF CoAwait
  <2>2. f # a /\ f \notin Elems(stack[th]) /\ caller[f] = None
    BY <1>2, <1>5 DEF StackInv, FreshInv
  <2>3. /\ Caller(th) \in Seq(Frames) /\ Distinct(Caller(th))
        /\ Elems(Caller(th)) = Elems(stack[th]) \ {a} /\ a \in Elems(stack[th])
    BY <1>2, ActiveProps
  <2>4. PICK s : s = Append(Caller(th), f) OBVIOUS
  <2>4a. /\ s \in Seq(Frames) /\ Distinct(s)
         /\ Elems(s) = (Elems(stack[th]) \ {a}) \union {f}
         /\ stack' = [stack EXCEPT ![th] = s]
    BY <2>1, <2>2, <2>3, <2>4, PushProps
  <2>5. /\ state'[a] = "child" /\ state'[f] = "running"
        /\ \A g \in Frames \ {a, f} : state'[g] = state[g]
        /\ state' \in [Frames -> {"none", "initial", "running", "op", "child", "done", "freed"}]
    BY <2>1, <2>2 DEF TypeOK
  <2>6. /\ caller'[f] = a /\ \A g \in Frames : g # f => caller'[g] = caller[g]
        /\ caller' \in [Frames -> Frames \union {None}]
    BY <2>1 DEF TypeOK
  <2>8. \A g \in Elems(s) : /\ g \in Frames /\ state'[g] = "running"
                            /\ g \in Elems(stack[th]) \/ state[g] # "running"
    BY <1>5, <2>4a, <2>5 DEF StackInv
  <2>9. \A g \in Frames : state[g] = "running" /\ g \notin Elems(stack[th])
                          => state'[g] = "running"
    BY <2>3, <2>5
  <2>10. StackInv' /\ stack' \in [Threads -> Seq(Frames)]
    BY <2>4a, <2>8, <2>9, StackStep
  <2>7. TypeOK' BY <2>1, <2>5, <2>6, <2>10 DEF TypeOK
  <2>11. \A u \in Tasks : /\ Live(u)' <=> Live(u)
                         /\ \A g \in Frames : Holds(u, g)' <=> Holds(u, g)
    BY <2>1 DEF Live, Holds
  <2>12. FreshInv' BY <2>1, <2>5, <2>6, <2>11 DEF FreshInv, TypeOK
  <2>13. \A g \in Frames : g # f => (Started(g)' <=> Started(g)) BY <1>2, <2>5 DEF Started
  <2>13a. \A g \in Frames : g # f => (Awaited(g)' <=> Awaited(g)) BY <2>6, <2>13 DEF Awaited
  <2>14. caller'[f] # None BY <2>6, TaskAssumption
  <2>15. HolderInv' BY <2>1, <2>6, <2>11, <2>13, <2>14 DEF HolderInv
  <2>16. \A g \in Frames : Awaited(g) => g # f /\ caller[g] \in Frames \ {a, f}
    BY <1>2, <1>5, <2>2 DEF AwaitInv, Awaited, TypeOK
  <2>17. AwaitInv'
    <3>1. ASSUME NEW g \in Frames, Awaited(g)'
          PROVE  /\ \E u \in Tasks : Holds(u, g)' /\ scope'[u] = caller'[g]
                 /\ state'[caller'[g]] \in {"child", "freed"}
      <4>1. CASE g = f BY <1>3, <2>1, <2>5, <2>6, <2>11, <4>1
      <4>2. CASE g # f
        <5>1. Awaited(g) /\ caller'[g] = caller[g] BY <2>6, <2>13a, <3>1, <4>2
        <5>2. caller[g] \in Frames \ {a, f} BY <2>16, <5>1
        <5>3. PICK u \in Tasks : Holds(u, g) /\ scope[u] = caller[g] BY <5>1 DEF AwaitInv
        <5>4. Holds(u, g)' /\ scope'[u] = caller'[g] BY <2>1, <2>11, <5>1, <5>3
        <5>5. state'[caller'[g]] \in {"child", "freed"} BY <2>5, <5>1, <5>2 DEF AwaitInv
        <5> QED BY <5>4, <5>5
      <4> QED BY <4>1, <4>2
    <3>2. ASSUME NEW g \in Frames, NEW h \in Frames, Awaited(g)', Awaited(h)',
                 caller'[g] = caller'[h]
          PROVE  g = h
      <4>1. CASE g # f /\ h # f BY <2>6, <2>13a, <3>2, <4>1 DEF AwaitInv
      <4>2. CASE g = f /\ h # f
        <5>1. caller[h] # a BY <2>16, <2>13a, <3>2, <4>2
        <5> QED BY <2>6, <2>13a, <3>2, <4>2, <5>1
      <4>3. CASE g # f /\ h = f
        <5>1. caller[g] # a BY <2>16, <2>13a, <3>2, <4>3
        <5> QED BY <2>6, <2>13a, <3>2, <4>3, <5>1
      <4> QED BY <4>1, <4>2, <4>3
    <3> QED BY <3>1, <3>2 DEF AwaitInv
  <2>18. Tainted \subseteq Tainted'
    <3>1. \A g \in Frames : caller[g] # None => caller'[g] = caller[g]
      BY <2>2, <2>6, TaskAssumption
    <3> QED BY <2>1, <3>1, TaintedGrows
  <2>19. GuiltInv'
    <3>1. \A g \in Frames, u \in Tasks : Holds(u, g)' /\ state'[g] = "freed" => g \in Tainted'
      BY <2>5, <2>11, <2>18 DEF GuiltInv
    <3>2. \A g \in pending' : state'[g] = "op" \/ g \in Tainted'
      BY <1>2, <1>5, <2>1, <2>5, <2>18 DEF GuiltInv, TypeOK
    <3>3. \A g \in Frames : Awaited(g)' /\ state'[caller'[g]] = "freed"
                              => caller'[g] \in Tainted'
      <4> SUFFICES ASSUME NEW g \in Frames, Awaited(g)', state'[caller'[g]] = "freed"
                   PROVE  caller'[g] \in Tainted'
        OBVIOUS
      <4>1. g # f BY <2>5, <2>6
      <4>2. Awaited(g) /\ caller'[g] = caller[g] BY <2>6, <2>13a, <4>1
      <4>3. state[caller[g]] = "freed" BY <2>5, <2>16, <4>2
      <4> QED BY <2>18, <4>2, <4>3 DEF GuiltInv
    <3> QED BY <3>1, <3>2, <3>3 DEF GuiltInv
  <2>20. OnlyAssignmentLeaks' BY <2>1, <2>5, <2>11 DEF OnlyAssignmentLeaks
  <2>21. FaultNeedsMisuse' BY <2>1 DEF FaultNeedsMisuse
  <2> QED BY <2>7, <2>10, <2>12, <2>15, <2>17, <2>19, <2>20, <2>21 DEF IInv
<1> QED BY <1>4, <1>5

\* A destruction that is defined strikes no coroutine that runs, nor the one that waits
\* for it: that one holds its Task.
LEMMA GoodDestroyProps ==
  ASSUME OwnerInv, NEW th \in Threads, NEW T, \A t \in T : t \in Tasks /\ InScope(th, t),
         BadDestroy(Doomed(T)) = {}
  PROVE  /\ \A f \in HandlesOf(Doomed(T)) : state[f] # "running"
         /\ \A f \in Frames : Awaited(f) /\ state[f] = "running"
              => caller[f] \notin HandlesOf(Doomed(T))
<1> USE DEF OwnerInv
<1> DEFINE D == Doomed(T)
<1>1. \A f \in HandlesOf(D) : state[f] # "running" BY DEF BadDestroy
<1>2. Locals(HandlesOf(D)) \subseteq D
  <2> SUFFICES ASSUME NEW t \in Tasks, scope[t] \in HandlesOf(D) PROVE t \in D
    BY DEF Locals
  <2> SUFFICES ASSUME NEW S \in SUBSET Tasks, T \subseteq S, Locals(HandlesOf(S)) \subseteq S
               PROVE  t \in S
    BY DEF Doomed
  <2>1. D \subseteq S BY DEF Doomed
  <2>2. scope[t] \in HandlesOf(S) BY <2>1 DEF HandlesOf
  <2> QED BY <2>2 DEF Locals
<1>3. ASSUME NEW f \in Frames, Awaited(f), state[f] = "running", caller[f] \in HandlesOf(D)
      PROVE  FALSE
  <2>1. PICK t \in Tasks : Holds(t, f) /\ scope[t] = caller[f] BY <1>3 DEF AwaitInv
  <2>2. t \in D BY <1>2, <1>3, <2>1 DEF Locals
  <2>3. f \in HandlesOf(D) BY <2>1, <2>2, TaskAssumption DEF Holds, HandlesOf
  <2> QED BY <1>1, <1>3, <2>3
<1> QED BY <1>1, <1>3

\* Tasks D are destroyed with their frames F; the coroutines X come to their end and the
\* coroutines W that waited for them run again.
Ends(D, F, X, W) ==
  /\ F = HandlesOf(D)
  /\ \A t \in D : Live(t)
  /\ \A f \in F : /\ state[f] # "running" /\ (Started(f) => f \in Tainted)
                  /\ state'[f] = "freed"
  /\ \A f \in X : /\ state[f] = "running" /\ state'[f] \in {"done", "freed"}
                  /\ state'[f] = "done" => \E t \in Tasks : Holds(t, f)
                  /\ \A t \in Tasks : state'[f] = "freed" /\ Holds(t, f) => f \in Tainted
  /\ \A f \in W : /\ state[f] = "child" /\ state'[f] = "running" /\ f \notin F
                  /\ \A g \in Frames : Awaited(g) /\ caller[g] = f => g \in X
  /\ \A f \in Frames \ (F \union X \union W) : state'[f] = state[f]
  /\ state' \in [Frames -> {"none", "initial", "running", "op", "child", "done", "freed"}]
  /\ scope' = [t \in Tasks |-> IF t \in D THEN Dead ELSE scope[t]]
  /\ StackInv' /\ stack' \in [Threads -> Seq(Frames)]
  /\ UNCHANGED <<caller, handle, fresh, leaving, pending, fault, misused, overwritten>>

LEMMA EndStep ==
  ASSUME OwnerInv, OnlyAssignmentLeaks, fault = <<>>,
         NEW D \in SUBSET Tasks, NEW F \in SUBSET Frames,
         NEW X \in SUBSET Frames, NEW W \in SUBSET Frames, Ends(D, F, X, W)
  PROVE  IInv'
<1> USE DEF Ends
<1> USE DEF OwnerInv
<1>1. TypeOK' BY DEF TypeOK
<1>2. StackInv' OBVIOUS
<1>3. /\ \A t \in D : ~Live(t)'
      /\ \A t \in Tasks \ D : scope'[t] = scope[t] /\ (Live(t)' <=> Live(t))
  BY DEF Live, TypeOK
<1>4. \A t \in Tasks, f \in Frames : Holds(t, f)' => Holds(t, f) /\ t \notin D /\ f \notin F
  <2> SUFFICES ASSUME NEW t \in Tasks, NEW f \in Frames, Holds(t, f)'
               PROVE  Holds(t, f) /\ t \notin D /\ f \notin F
    OBVIOUS
  <2>1. Holds(t, f) /\ t \notin D BY <1>3 DEF Holds
  <2>2. ASSUME f \in F PROVE FALSE
    <3>1. PICK u \in D : f = handle[u] BY <2>2 DEF HandlesOf
    <3>2. Holds(u, f) BY <3>1 DEF Holds
    <3> QED BY <2>1, <3>2 DEF HolderInv
  <2> QED BY <2>1, <2>2
<1>5. \A t \in Tasks, f \in Frames : Holds(t, f) /\ f \notin F
        => Holds(t, f)' /\ scope'[t] = scope[t]
  <2> SUFFICES ASSUME NEW t \in Tasks, NEW f \in Frames, Holds(t, f), f \notin F
               PROVE  Holds(t, f)' /\ scope'[t] = scope[t]
    OBVIOUS
  <2>1. t \notin D BY TaskAssumption DEF Holds, HandlesOf
  <2> QED BY <1>3, <2>1 DEF Holds
<1>6. FreshInv'
  <2>1. \A t \in fresh' : ~Live(t)' BY <1>3 DEF FreshInv, TypeOK
  <2>2. \A f \in Frames, t \in Tasks : Holds(t, f)' => state'[f] # "none"
    BY <1>4 DEF FreshInv
  <2>3. \A f \in Frames : state'[f] \in {"none", "initial"} => caller'[f] = None
    BY DEF FreshInv
  <2> QED BY <2>1, <2>2, <2>3 DEF FreshInv
<1>7. \A f \in Frames : Started(f)' => Started(f) /\ f \notin X \union F BY DEF Started
<1>8. HolderInv' BY <1>4, <1>7 DEF HolderInv
<1>9. \A f \in Frames : Awaited(f)' => Awaited(f) /\ f \notin X \union F
  BY <1>7 DEF Awaited
<1>10. \A f \in Frames : Awaited(f)' =>
         /\ caller[f] \in Frames \ (X \union W)
         /\ state'[caller[f]] = state[caller[f]] \/ caller[f] \in F
  <2> SUFFICES ASSUME NEW f \in Frames, Awaited(f)'
               PROVE  /\ caller[f] \in Frames \ (X \union W)
                      /\ state'[caller[f]] = state[caller[f]] \/ caller[f] \in F
    OBVIOUS
  <2>1. Awaited(f) /\ f \notin X BY <1>9
  <2>2. caller[f] \in Frames BY <2>1 DEF Awaited, TypeOK
  <2>3. caller[f] \notin X BY <2>1 DEF AwaitInv
  <2>4. caller[f] \notin W BY <2>1
  <2> QED BY <2>2, <2>3, <2>4
<1>11. AwaitInv'
  <2>1. ASSUME NEW f \in Frames, Awaited(f)'
        PROVE  /\ \E t \in Tasks : Holds(t, f)' /\ scope'[t] = caller'[f]
               /\ state'[caller'[f]] \in {"child", "freed"}
    <3>1. Awaited(f) /\ f \notin F /\ caller'[f] = caller[f] BY <1>9, <2>1
    <3>2. PICK t \in Tasks : Holds(t, f) /\ scope[t] = caller[f] BY <3>1 DEF AwaitInv
    <3>3. Holds(t, f)' /\ scope'[t] = caller'[f] BY <1>5, <3>1, <3>2
    <3>4. state'[caller'[f]] \in {"child", "freed"} BY <1>10, <2>1, <3>1 DEF AwaitInv
    <3> QED BY <3>3, <3>4
  <2>2. ASSUME NEW f \in Frames, NEW g \in Frames, Awaited(f)', Awaited(g)',
               caller'[f] = caller'[g]
        PROVE  f = g
    <3>1. Awaited(f) /\ Awaited(g) BY <1>9, <2>2
    <3> QED BY <2>2, <3>1 DEF AwaitInv
  <2> QED BY <2>1, <2>2 DEF AwaitInv
<1>12. Tainted' = Tainted BY DEF Tainted
<1>13. GuiltInv'
  <2>1. ASSUME NEW f \in Frames, NEW t \in Tasks, Holds(t, f)', state'[f] = "freed"
        PROVE  f \in Tainted
    <3>1. Holds(t, f) /\ f \notin F BY <1>4, <2>1
    <3>2. CASE f \in X BY <2>1, <3>1, <3>2
    <3>3. CASE f \notin X BY <2>1, <3>1, <3>3 DEF GuiltInv
    <3> QED BY <3>2, <3>3
  <2>2. ASSUME NEW f \in pending' PROVE state'[f] = "op" \/ f \in Tainted
    <3>1. f \in Frames /\ f \in pending BY DEF TypeOK
    <3>2. CASE f \in Tainted BY <3>2
    <3>3. CASE state[f] = "op"
      <4>1. f \notin X \union W BY <3>3
      <4>2. f \in F => f \in Tainted BY <3>3 DEF Started
      <4> QED BY <3>1, <3>3, <4>1, <4>2
    <3> QED BY <3>1, <3>2, <3>3 DEF GuiltInv
  <2>3. ASSUME NEW f \in Frames, Awaited(f)', state'[caller'[f]] = "freed"
        PROVE  caller'[f] \in Tainted
    <3>1. PICK c \in Frames : c = caller[f] /\ c = caller'[f] BY <1>10, <2>3
    <3>2. Awaited(f) BY <1>9, <2>3
    <3>3. state[c] \in {"child", "freed"} BY <3>1, <3>2 DEF AwaitInv
    <3>4. state[c] = "freed" => c \in Tainted BY <3>1, <3>2 DEF GuiltInv
    <3>5. state[c] = "child" => c \in F BY <1>10, <2>3, <3>1
    <3>6. state[c] = "child" => c \in Tainted BY <3>5 DEF Started
    <3> QED BY <3>1, <3>3, <3>4, <3>6
  <2> QED BY <1>12, <2>1, <2>2, <2>3 DEF GuiltInv
<1>14. OnlyAssignmentLeaks'
  <2> SUFFICES ASSUME NEW f \in Frames, state'[f] \in {"initial", "done"}
               PROVE  f \in overwritten \/ \E t \in Tasks : Holds(t, f)'
    BY DEF OnlyAssignmentLeaks
  <2>1. f \notin F /\ f \notin W OBVIOUS
  <2>2. f \in overwritten \/ \E t \in Tasks : Holds(t, f)
    <3>1. CASE f \in X BY <3>1
    <3>2. CASE f \notin X BY <2>1, <3>2 DEF OnlyAssignmentLeaks
    <3> QED BY <3>1, <3>2
  <2> QED BY <1>5, <2>1, <2>2
<1>15. FaultNeedsMisuse' BY DEF FaultNeedsMisuse
<1> QED BY <1>1, <1>2, <1>6, <1>8, <1>11, <1>13, <1>14, <1>15 DEF IInv

LEMMA DestroyTaskStep ==
  ASSUME OwnerInv, OnlyAssignmentLeaks, fault = <<>>, NEW th \in Threads,
         NEW t \in Tasks, DestroyTask(th, t)
  PROVE  IInv'
<1> USE DEF OwnerInv
<1>1. PICK T : T = {t} OBVIOUS
<1>2. \A u \in T : u \in Tasks /\ InScope(th, u) BY <1>1 DEF DestroyTask
<1>3. PICK D : D = Doomed(T) OBVIOUS
<1>4. CASE BadDestroy(D) # {}
  <2>1. PICK f \in BadDestroy(D) : Fault("destroy", f) /\ UNCHANGED misused
    BY <1>1, <1>3, <1>4 DEF DestroyTask
  <2>2. f \in Tainted BY <1>2, <1>3, BadDestroyTainted
  <2> QED BY <2>1, <2>2, FaultStep DEF TypeOK
<1>5. CASE BadDestroy(D) = {}
  <2>1. PICK F : F = HandlesOf(D) OBVIOUS
  <2>2. /\ state' = [f \in Frames |-> IF f \in F THEN "freed" ELSE state[f]]
        /\ scope' = [u \in Tasks |-> IF u \in D THEN Dead ELSE scope[u]]
        /\ UNCHANGED <<caller, handle, fresh, stack, leaving, pending, fault, misused, overwritten>>
    BY <1>1, <1>3, <1>5, <2>1 DEF DestroyTask, Destroy
  <2>3. /\ D \subseteq Tasks /\ F \subseteq Frames
        /\ \A u \in D : Live(u)
        /\ \A f \in F : Started(f) => f \in Tainted
    BY <1>2, <1>3, <2>1, DoomedProps
  <2>4. \A f \in F : state[f] # "running" BY <1>2, <1>3, <1>5, <2>1, GoodDestroyProps
  <2>5. /\ \A f \in F : state'[f] = "freed"
        /\ \A f \in Frames \ F : state'[f] = state[f]
        /\ state' \in [Frames -> {"none", "initial", "running", "op", "child", "done", "freed"}]
    BY <2>2, <2>3 DEF TypeOK
  <2>6. stack' \in [Threads -> Seq(Frames)] BY <2>2 DEF TypeOK
  <2>7. StackInv'
    <3>1. \A f \in Frames : state[f] = "running" => state'[f] = "running" BY <2>4, <2>5
    <3> QED BY <2>2, <3>1, StackSame
  <2>8. Ends(D, F, {}, {}) BY <2>1, <2>2, <2>3, <2>4, <2>5, <2>6, <2>7 DEF Ends
  <2> QED BY <2>3, <2>8, EndStep
<1> QED BY <1>4, <1>5

\* co_return: the frame waits to be read by the caller, which goes on, or is destroyed;
\* the caller of a coroutine is gone only if it is tainted.
LEMMA ReturnStep ==
  ASSUME OwnerInv, OnlyAssignmentLeaks, fault = <<>>, NEW th \in Threads, Return(th)
  PROVE  IInv'
<1> USE DEF OwnerInv
<1>1. PICK f \in Frames : f = Active(th) /\ state[f] = "running"
  BY ActiveProps DEF Return
<1>2. PICK T : T = Locals({f}) OBVIOUS
<1>3. \A u \in T : u \in Tasks /\ InScope(th, u) BY <1>1, <1>2 DEF Locals, InScope
<1>4. PICK D : D = Doomed(T) OBVIOUS
<1>5. CASE BadDestroy(D) # {}
  <2>1. PICK g \in BadDestroy(D) : Fault("destroy", g) /\ UNCHANGED misused
    BY <1>1, <1>2, <1>4, <1>5 DEF Return
  <2>2. g \in Tainted BY <1>3, <1>4, BadDestroyTainted
  <2> QED BY <2>1, <2>2, FaultStep DEF TypeOK
<1>6. CASE BadDestroy(D) = {} /\ caller[f] # None /\ state[caller[f]] # "child"
  <2>1. Fault("resume", caller[f]) /\ UNCHANGED misused
    BY <1>1, <1>2, <1>4, <1>6 DEF Return
  <2>2. Awaited(f) BY <1>1, <1>6 DEF Awaited, Started
  <2>3. state[caller[f]] = "freed" BY <1>6, <2>2 DEF AwaitInv
  <2>4. caller[f] \in Tainted BY <2>2, <2>3 DEF GuiltInv
  <2> QED BY <2>1, <2>4, FaultStep DEF TypeOK
<1>7. CASE BadDestroy(D) = {} /\ (caller[f] # None => state[caller[f]] = "child")
  <2>1. PICK F : F = HandlesOf(D) OBVIOUS
  <2>2. /\ state' = [g \in Frames |->
                       IF g = f THEN IF caller[f] # None THEN "done" ELSE "freed"
                       ELSE IF g = caller[f] THEN "running"
                       ELSE IF g \in F THEN "freed" ELSE state[g]]
        /\ scope' = [t \in Tasks |-> IF t \in D THEN Dead ELSE scope[t]]
        /\ stack' = [stack EXCEPT ![th] = IF caller[f] # None
                                           THEN Append(Caller(th), caller[f]) ELSE Caller(th)]
        /\ UNCHANGED <<caller, handle, fresh, leaving, pending, fault, misused, overwritten>>
    BY <1>1, <1>2, <1>4, <1>7, <2>1 DEF Return
  <2>3. /\ D \subseteq Tasks /\ F \subseteq Frames
        /\ \A u \in D : Live(u)
        /\ \A g \in F : Started(g) => g \in Tainted
    BY <1>3, <1>4, <2>1, DoomedProps
  <2>4. \A g \in F : state[g] # "running" BY <1>3, <1>4, <1>7, <2>1, GoodDestroyProps
  <2>5. f \notin F BY <1>1, <2>4
  <2>7. /\ Caller(th) \in Seq(Frames) /\ Distinct(Caller(th))
        /\ Elems(Caller(th)) = Elems(stack[th]) \ {f} /\ f \in Elems(stack[th])
    BY <1>1, ActiveProps
  <2>8. state' \in [Frames -> {"none", "initial", "running", "op", "child", "done", "freed"}]
    BY <2>2 DEF TypeOK
  <2>10. CASE caller[f] = None
    <3>1. /\ state'[f] = "freed" /\ \A g \in F : state'[g] = "freed"
          /\ \A g \in Frames \ (F \union {f}) : state'[g] = state[g]
      BY <2>2, <2>3, <2>5, <2>10, TaskAssumption
    <3>2. PICK s : s = Caller(th) OBVIOUS
    <3>2a. stack' = [stack EXCEPT ![th] = s] BY <2>2, <2>10, <3>2
    <3>3. StackInv' /\ stack' \in [Threads -> Seq(Frames)]
      <4>1. \A g \in Frames : state[g] = "running" /\ g # f => state'[g] = "running"
        BY <2>4, <3>1
      <4>2. \A g \in Elems(s) : /\ g \in Frames /\ state'[g] = "running"
                                /\ g \in Elems(stack[th])
        BY <2>7, <3>2, <4>1 DEF StackInv
      <4> QED BY <2>7, <3>2, <3>2a, <4>1, <4>2, StackStep
    <3>4. \A u \in Tasks : Holds(u, f) => f \in Tainted
      BY <1>1, <2>10, TaintedProps DEF HolderInv, Started
    <3>5. PICK X, W : X = {f} /\ W = {} OBVIOUS
    <3>6. \A g \in X : /\ state[g] = "running" /\ state'[g] \in {"done", "freed"}
                       /\ state'[g] = "done" => \E t \in Tasks : Holds(t, g)
                       /\ \A t \in Tasks : state'[g] = "freed" /\ Holds(t, g) => g \in Tainted
      BY <1>1, <3>1, <3>4, <3>5
    <3>7. \A g \in Frames \ (F \union X \union W) : state'[g] = state[g] BY <3>1, <3>5
    <3>8. \A g \in W : FALSE BY <3>5
    <3>9. /\ scope' = [t \in Tasks |-> IF t \in D THEN Dead ELSE scope[t]]
          /\ UNCHANGED <<caller, handle, fresh, leaving, pending, fault, misused, overwritten>>
      BY <2>2
    <3>10. Ends(D, F, X, W)
      BY <2>1, <2>3, <2>4, <2>8, <3>1, <3>3, <3>6, <3>7, <3>8, <3>9 DEF Ends
    <3> QED BY <2>3, <3>5, <3>10, EndStep
  <2>11. CASE caller[f] # None
    <3>1. PICK c \in Frames : c = caller[f] BY <2>11 DEF TypeOK
    <3>2. Awaited(f) BY <1>1, <2>11 DEF Awaited, Started
    <3>3. c \notin F BY <1>1, <1>3, <1>4, <1>7, <2>1, <3>1, <3>2, GoodDestroyProps
    <3>4. state[c] = "child" /\ c # f BY <1>1, <1>7, <2>11, <3>1
    <3>5. /\ state'[f] = "done" /\ state'[c] = "running" /\ \A g \in F : state'[g] = "freed"
          /\ \A g \in Frames \ (F \union {f, c}) : state'[g] = state[g]
      BY <2>2, <2>3, <2>5, <2>11, <3>1, <3>3, <3>4
    <3>6. PICK s : s = Append(Caller(th), c) OBVIOUS
    <3>6a. stack' = [stack EXCEPT ![th] = s] BY <2>2, <2>11, <3>1, <3>6
    <3>7. c \notin Elems(Caller(th)) BY <2>7, <3>4 DEF StackInv
    <3>8. /\ s \in Seq(Frames) /\ Distinct(s)
          /\ Elems(s) = (Elems(stack[th]) \ {f}) \union {c}
      BY <2>7, <3>6, <3>7, PushProps
    <3>9. StackInv' /\ stack' \in [Threads -> Seq(Frames)]
      <4>1. \A g \in Frames : state[g] = "running" /\ g # f => state'[g] = "running"
        BY <2>4, <3>4, <3>5
      <4>2. \A g \in Elems(s) : /\ g \in Frames /\ state'[g] = "running"
                                /\ g \in Elems(stack[th]) \/ state[g] # "running"
        BY <3>4, <3>5, <3>8, <4>1 DEF StackInv
      <4> QED BY <2>7, <3>6a, <3>8, <4>1, <4>2, StackStep
    <3>10. \E u \in Tasks : Holds(u, f) BY <3>2 DEF AwaitInv
    <3>11. \A g \in Frames : Awaited(g) /\ caller[g] = c => g = f
      BY <3>1, <3>2 DEF AwaitInv
    <3>12. Ends(D, F, {f}, {c})
      BY <1>1, <2>1, <2>2, <2>3, <2>4, <2>8, <3>3, <3>4, <3>5, <3>9, <3>10, <3>11
      DEF Ends
    <3> QED BY <2>3, <3>12, EndStep
  <2> QED BY <2>10, <2>11
<1> QED BY <1>5, <1>6, <1>7

-----------------------------------------------------------------------------
(* The theorems.                                                           *)

LEMMA IInvStep == IInv /\ [Next]_vars => IInv'
<1> SUFFICES ASSUME IInv, [Next]_vars PROVE IInv' OBVIOUS
<1>1. OwnerInv /\ OnlyAssignmentLeaks BY DEF IInv
<1>2. CASE UNCHANGED vars
  <2>1. UNCHANGED <<state, caller, handle, scope, fresh, stack, leaving, pending, fault,
                    misused, overwritten>>
    BY <1>2 DEF vars
  <2>2. Tainted' = Tainted BY <2>1 DEF Tainted
  <2>2a. StackInv' BY <1>1, <2>1, StackSame DEF OwnerInv
  <2>3. OwnerInv'
    BY <1>1, <2>1, <2>2, <2>2a DEF OwnerInv, TypeOK, FreshInv, HolderInv, AwaitInv, GuiltInv,
                                  Live, Holds, Started, Awaited
  <2>4. OnlyAssignmentLeaks' /\ FaultNeedsMisuse'
    BY <2>1, <2>2 DEF IInv, OnlyAssignmentLeaks, FaultNeedsMisuse, Live, Holds
  <2> QED BY <2>3, <2>4 DEF IInv
<1>3. CASE Next
  <2>1. fault = <<>> BY <1>3 DEF Next
  <2>2. PICK th \in Threads : (leaving[th] = None /\ Step(th)) \/ LeaveSuspend(th)
    BY <1>3 DEF Next
  <2>3. CASE \E t \in Tasks, f \in Frames : Create(th, t, f) BY <1>1, <2>1, <2>3, CreateStep
  <2>4. CASE \E t, u \in Tasks : MoveConstruct(th, t, u) \/ MoveAssign(th, t, u)
    BY <1>1, <2>1, <2>4, MoveStep
  <2>5. CASE \E t \in Tasks : DestroyTask(th, t) BY <1>1, <2>1, <2>5, DestroyTaskStep
  <2>6. CASE \E t \in Tasks : Spawn(th, t) \/ Resume(th, t) \/ CoAwaitEmpty(th, t)
    BY <1>1, <2>1, <2>6, ResumeStep
  <2>7. CASE \E t \in Tasks : CoAwait(th, t) BY <1>1, <2>1, <2>7, CoAwaitStep
  <2>8. CASE StartOp(th) BY <1>1, <2>1, <2>8, StartOpStep
  <2>9. CASE LeaveSuspend(th) BY <1>1, <2>1, <2>9, LeaveSuspendStep
  <2>10. CASE \E f \in Frames : CompleteOp(th, f) BY <1>1, <2>1, <2>10, CompleteOpStep
  <2>11. CASE Return(th) BY <1>1, <2>1, <2>11, ReturnStep
  <2> QED BY <2>2, <2>3, <2>4, <2>5, <2>6, <2>7, <2>8, <2>9, <2>10, <2>11 DEF Step
<1> QED BY <1>2, <1>3

\* What holds between Task objects, frames, the stack and the operations in every
\* reachable state.
THEOREM IInvHolds == Spec => []IInv
<1>1. Init => IInv BY InitIInv
<1>2. IInv /\ [Next]_vars => IInv' BY IInvStep
<1> QED BY <1>1, <1>2, PTL DEF Spec

\* Every variable of the coroutine model keeps its type.
THEOREM TypeCorrect == Spec => []TypeOK
<1>1. IInv => TypeOK BY DEF IInv, OwnerInv
<1> QED BY <1>1, IInvHolds, PTL

\* A frame is held by at most one Task, and by none once spawn has detached it.
THEOREM OneOwnerCorrect == Spec => []OneOwner
<1>1. ASSUME IInv PROVE OneOwner
  <2> SUFFICES ASSUME NEW f \in Frames
               PROVE  /\ Cardinality({t \in Tasks : Holds(t, f)}) <= 1
                      /\ state[f] \in {"running", "op", "child"} /\ caller[f] = None =>
                           f \in misused \/ ~\E t \in Tasks : Holds(t, f)
    BY DEF OneOwner
  <2>1. HolderInv BY <1>1 DEF IInv, OwnerInv
  <2> DEFINE H == {t \in Tasks : Holds(t, f)}
  <2>2. CASE H = {}
    <3>1. Cardinality(H) = 0 BY <2>2, FS_EmptySet
    <3> QED BY <2>1, <3>1 DEF HolderInv, Started
  <2>3. CASE H # {}
    <3>1. PICK t : t \in H BY <2>3
    <3>2. H = {t} BY <2>1, <3>1 DEF HolderInv
    <3>3. Cardinality(H) = 1 BY <3>2, FS_Singleton
    <3> QED BY <2>1, <3>3 DEF HolderInv, Started
  <2> QED BY <2>2, <2>3
<1> QED BY <1>1, IInvHolds, PTL

\* A frame that cannot run by itself is held by a Task, unless its Task was assigned over:
\* operator= (task.hpp) is the only operation of the class that forgets a frame.
THEOREM OnlyAssignmentLeaksCorrect == Spec => []OnlyAssignmentLeaks
<1>1. IInv => OnlyAssignmentLeaks BY DEF IInv
<1> QED BY <1>1, IInvHolds, PTL

\* However Tasks are moved, assigned, spawned, awaited and dropped, by any number of
\* threads, no frame is destroyed twice or while it runs, none is resumed that is not
\* suspended for it, and none is used by an await_suspend that was overtaken, unless a
\* Task is misused: resumed by Task::resume(), spawned once it had been started, resumed
\* or awaited when empty. What is struck is then the frame so used, or one it awaits.
THEOREM FaultNeedsMisuseCorrect == Spec => []FaultNeedsMisuse
<1>1. IInv => FaultNeedsMisuse BY DEF IInv
<1> QED BY <1>1, IInvHolds, PTL

-----------------------------------------------------------------------------
(* The asio::awaitable servers, which serve the same clients from one      *)
(* thread, without a pool.                                                 *)

\* What a client sent is unread, in the buffer of the coroutine of its connection, or gone;
\* listen() holds the one connection that has no coroutine yet; the program runs until
\* listen() and all connections have ended.
ReadInv ==
  \A k \in Conns :
    /\ nread[k] + unread[k] <= sent[k]
    /\ nread[k] # 0 => conn[k] \in {"writing", "closed"}
RunInv ==
  /\ \A k \in Conns : conn[k] = "accepted" => listener = "accepted"
  /\ \A k, l \in Conns : conn[k] = "accepted" /\ conn[l] = "accepted" => k = l
  /\ main = "setup" => listener = "spawned"
  /\ main = "returned" => listener = "ended" /\ OpenSockets = {}

AwaitableInv == AwaitableTypeOK /\ ReadInv /\ RunInv /\ EchoConserves

LEMMA InitAwaitable == AwaitableInit => AwaitableInv
BY AwaitableAssumption DEF AwaitableInit, AwaitableInv, AwaitableTypeOK, ReadInv, RunInv,
                        EchoConserves

\* Only a read, a write and a send move data.
LEMMA AwaitableData ==
  AwaitableInv /\ [AwaitableNext]_awaitableVars =>
    AwaitableTypeOK' /\ ReadInv' /\ EchoConserves'
<1> SUFFICES ASSUME AwaitableInv, [AwaitableNext]_awaitableVars
             PROVE  AwaitableTypeOK' /\ ReadInv' /\ EchoConserves'
  OBVIOUS
<1> USE AwaitableAssumption
    DEF AwaitableInv, AwaitableTypeOK, ReadInv, EchoConserves,
        serverVars, peerVars
<1>1. CASE UNCHANGED awaitableVars BY <1>1 DEF awaitableVars
<1>2. CASE StartRun \/ RunReturns
  BY <1>2 DEF StartRun, RunReturns
<1>3. CASE ListenStarts \/ AcceptThrows \/ ListenEnds
  BY <1>3 DEF ListenStarts, AcceptThrows, ListenEnds
<1>4. ASSUME NEW k \in Conns,
             AcceptDone(k) \/ SpawnProcess(k)
               \/ RemoteEndpointThrows(k) \/ ProcessStarts(k)
               \/ ReadFails(k) \/ WriteThrows(k) \/ Connect(k)
      PROVE  AwaitableTypeOK' /\ ReadInv' /\ EchoConserves'
  <2>1. PICK s \in {"accepted", "spawned", "closed", "reading", "backlog"} :
          /\ conn' = [conn EXCEPT ![k] = s]
          /\ nread[k] # 0 => s = "closed"
    BY <1>4 DEF AcceptDone, SpawnProcess,
       RemoteEndpointThrows, ProcessStarts, ReadFails,
       WriteThrows, Connect, Backlog
  <2>2. /\ UNCHANGED <<program, fd_limit, main, nread, peerVars, received>>
        /\ listener' \in {listener, "accepted", "accepting", "throwing"}
    BY <1>4 DEF AcceptDone, SpawnProcess,
       RemoteEndpointThrows, ProcessStarts, ReadFails,
       WriteThrows, Connect
  <2>3. AwaitableTypeOK' BY <2>1, <2>2
  <2>4. ReadInv' BY <2>1, <2>2
  <2> QED BY <2>2, <2>3, <2>4
<1>5. ASSUME NEW k \in Conns, ReadDone(k)
      PROVE  AwaitableTypeOK' /\ ReadInv' /\ EchoConserves'
  <2>1. PICK n \in 1 .. unread[k] : /\ unread' = [unread EXCEPT ![k] = @ - n]
                                    /\ nread' = [nread EXCEPT ![k] = n]
    BY <1>5 DEF ReadDone
  <2>2. /\ conn[k] = "reading" /\ conn' = [conn EXCEPT ![k] = "writing"]
        /\ UNCHANGED <<program, fd_limit, listener, main, peer, stalled, sent, received>>
    BY <1>5 DEF ReadDone
  <2>3. nread[k] = 0 BY <2>2
  <2>4. AwaitableTypeOK' BY <2>1, <2>2
  <2>5. ReadInv' BY <2>1, <2>2, <2>3
  <2>6. EchoConserves' BY <2>1, <2>2, <2>3
  <2> QED BY <2>4, <2>5, <2>6
<1>6. ASSUME NEW k \in Conns, WriteDone(k)
      PROVE  AwaitableTypeOK' /\ ReadInv' /\ EchoConserves'
  <2>1. /\ conn' = [conn EXCEPT ![k] = "reading"]
        /\ nread' = [nread EXCEPT ![k] = 0]
        /\ UNCHANGED <<program, fd_limit, listener, main, peerVars>>
    BY <1>6 DEF WriteDone
  <2>2. received' = [received EXCEPT ![k] =
                       @ + IF program = "benchmark_st" THEN 1 ELSE nread[k]]
    BY <1>6 DEF WriteDone
  <2>3. AwaitableTypeOK' BY <2>1, <2>2
  <2>4. ReadInv' BY <2>1
  <2>5. EchoConserves' BY <2>1, <2>2
  <2> QED BY <2>3, <2>4, <2>5
<1>7. ASSUME NEW k \in Conns, Send(k)
      PROVE  AwaitableTypeOK' /\ ReadInv' /\ EchoConserves'
  <2>1. /\ sent' = [sent EXCEPT ![k] = @ + 1] /\ unread' = [unread EXCEPT ![k] = @ + 1]
        /\ sent[k] < MaxSent
        /\ UNCHANGED <<program, fd_limit, listener, main, conn, nread, peer, stalled, received>>
    BY <1>7 DEF Send
  <2>2. AwaitableTypeOK' BY <2>1
  <2>3. ReadInv' BY <2>1
  <2>4. EchoConserves' BY <2>1
  <2> QED BY <2>2, <2>3, <2>4
<1>8. ASSUME NEW k \in Conns, HangUp(k) \/ Stall(k)
      PROVE  AwaitableTypeOK' /\ ReadInv' /\ EchoConserves'
  BY <1>8 DEF HangUp, Stall
<1> QED BY <1>1, <1>2, <1>3, <1>4, <1>5, <1>6, <1>7, <1>8
        DEF AwaitableNext, Listen, Process

\* listen() holds one connection at a time, and nothing happens after run() has returned.
LEMMA AwaitableRuns == AwaitableInv /\ [AwaitableNext]_awaitableVars => RunInv'
<1> SUFFICES ASSUME AwaitableInv, [AwaitableNext]_awaitableVars PROVE RunInv' OBVIOUS
<1> USE DEF AwaitableInv, AwaitableTypeOK, RunInv, OpenSockets,
            serverVars, peerVars
<1>1. CASE UNCHANGED awaitableVars BY <1>1 DEF awaitableVars
<1>2. CASE StartRun BY <1>2 DEF StartRun
<1>3. CASE RunReturns BY <1>3 DEF RunReturns
<1>4. CASE ListenStarts \/ AcceptThrows \/ ListenEnds
  BY <1>4 DEF ListenStarts, AcceptThrows, ListenEnds
<1>5. ASSUME NEW k \in Conns, AcceptDone(k) PROVE RunInv'
  BY <1>5 DEF AcceptDone, Backlog
<1>6. ASSUME NEW k \in Conns,
             SpawnProcess(k) \/ RemoteEndpointThrows(k)
      PROVE  RunInv'
  BY <1>6 DEF SpawnProcess, RemoteEndpointThrows
<1>7. ASSUME NEW k \in Conns,
             ProcessStarts(k) \/ ReadDone(k) \/ ReadFails(k)
               \/ WriteDone(k) \/ WriteThrows(k)
      PROVE  RunInv'
  <2>1. PICK s \in {"reading", "writing", "closed"} : conn' = [conn EXCEPT ![k] = s]
    BY <1>7 DEF ProcessStarts, ReadDone, ReadFails,
       WriteDone, WriteThrows
  <2>2. main = "run" /\ UNCHANGED <<listener, main>>
    BY <1>7 DEF ProcessStarts, ReadDone, ReadFails,
       WriteDone, WriteThrows
  <2> QED BY <2>1, <2>2
<1>8. ASSUME NEW k \in Conns, Connect(k) PROVE RunInv'
  BY <1>8 DEF Connect
<1>9. ASSUME NEW k \in Conns, Send(k) \/ HangUp(k) \/ Stall(k) PROVE RunInv'
  BY <1>9 DEF Send, HangUp, Stall
<1> QED BY <1>1, <1>2, <1>3, <1>4, <1>5, <1>6, <1>7, <1>8, <1>9
        DEF AwaitableNext, Listen, Process

\* The invariant on which the theorems about the awaitable servers rest.
THEOREM AwaitableInductive == AwaitableSpec => []AwaitableInv
<1>1. AwaitableInv /\ [AwaitableNext]_awaitableVars => AwaitableInv'
  BY AwaitableData, AwaitableRuns DEF AwaitableInv
<1> QED BY <1>1, InitAwaitable, PTL DEF AwaitableSpec

\* test_cpp20_coroutine.cpp, benchmark_st.cpp: every resumption of a coroutine keeps the
\* types.
THEOREM AwaitableTypeCorrect == AwaitableSpec => []AwaitableTypeOK
<1>1. AwaitableInv => AwaitableTypeOK BY DEF AwaitableInv
<1> QED BY <1>1, AwaitableInductive, PTL

\* test_cpp20_coroutine.cpp: the echo server loses, repeats and invents no data, for any
\* number of clients and whatever ends the other coroutines.
THEOREM EchoConservesCorrect == AwaitableSpec => []EchoConserves
<1>1. AwaitableInv => EchoConserves BY DEF AwaitableInv
<1> QED BY <1>1, AwaitableInductive, PTL

\* What an awaitable server is to its clients (the refinement mapping of Clients, by name).
Place(s) == CASE s \in {"absent", "closed"} -> s
              [] s = "backlog" -> "waiting"
              [] OTHER -> "open"
Client == [k \in Conns |->
             CASE conn[k] \in {"absent", "closed"} -> conn[k]
               [] conn[k] = "backlog" -> "waiting"
               [] OTHER -> "open"]
Gone == {k \in Conns : peer[k] # "up"}
AwaitableState == IF main = "returned" THEN "down"
                  ELSE IF listener = "ended" THEN "draining" ELSE "accepting"

\* A connection that moves is, to its client, what Place says.
LEMMA ClientMoves ==
  ASSUME conn = [j \in Conns |-> conn[j]],
         NEW k \in Conns, NEW s, conn' = [conn EXCEPT ![k] = s]
  PROVE  /\ Client[k] = Place(conn[k])
         /\ Client' = [Client EXCEPT ![k] = Place(s)]
         /\ Place(conn[k]) = Place(s) => Client' = Client
<1>1. conn \in [Conns -> {conn[j] : j \in Conns}] OBVIOUS
<1>2. Client[k] = Place(conn[k]) BY DEF Client, Place
<1>3. \A j \in Conns : Client'[j] = IF j = k THEN Place(s) ELSE Client[j]
  BY <1>1 DEF Client, Place
<1>4. /\ Client' = [j \in Conns |-> Client'[j]]
      /\ Client = [j \in Conns |-> Client[j]]
  BY DEF Client
<1> HIDE DEF Client, Place
<1>5. Client' = [Client EXCEPT ![k] = Place(s)] BY <1>3, <1>4
<1>6. ASSUME Place(conn[k]) = Place(s) PROVE Client' = Client
  <2>1. \A j \in Conns : Client'[j] = Client[j] BY <1>2, <1>3, <1>6
  <2> QED BY <1>4, <2>1
<1> QED BY <1>2, <1>5, <1>6

LEMMA AwaitableSteps ==
  /\ UNCHANGED Clients!vars <=> UNCHANGED <<Client, Gone, stalled, AwaitableState>>
  /\ \A k \in Conns :
       /\ Clients!Connect(k) <=>
            /\ Client[k] = "absent"
            /\ Client' = [Client EXCEPT ![k] = "waiting"]
            /\ UNCHANGED <<Gone, stalled, AwaitableState>>
       /\ Clients!HangUp(k) <=>
            /\ Client[k] # "absent"
            /\ Gone' = Gone \union {k}
            /\ stalled' \in {stalled, stalled \ {k}}
            /\ UNCHANGED <<Client, AwaitableState>>
       /\ Clients!Stall(k) <=>
            /\ stalled' \in {stalled \union {k}, stalled \ {k}}
            /\ UNCHANGED <<Client, Gone, AwaitableState>>
       /\ Clients!Admit(k) <=>
            /\ AwaitableState = "accepting"
            /\ Client[k] = "waiting"
            /\ Client' = [Client EXCEPT ![k] = "open"]
            /\ UNCHANGED <<Gone, stalled, AwaitableState>>
       /\ Clients!Finish(k) <=>
            /\ AwaitableState # "down"
            /\ Client[k] = "open"
            /\ k \in Gone
            /\ Client' = [Client EXCEPT ![k] = "closed"]
            /\ UNCHANGED <<Gone, stalled, AwaitableState>>
  /\ Clients!StopAccepting <=>
       /\ AwaitableState = "accepting"
       /\ AwaitableState' = "draining"
       /\ UNCHANGED <<Client, Gone, stalled>>
  /\ Clients!GoDown <=>
       /\ AwaitableState # "down"
       /\ AwaitableState' = "down"
       /\ UNCHANGED <<Client, Gone, stalled>>
BY Zenon DEF Client, Gone, AwaitableState, Clients!vars,
             Clients!Connect, Clients!HangUp, Clients!Stall, Clients!Admit,
             Clients!Finish, Clients!StopAccepting,
             Clients!GoDown

\* Every step of an awaitable server is a step of the service, or invisible to clients.
LEMMA AwaitableServes ==
  AwaitableInv /\ [AwaitableNext]_awaitableVars =>
    [Clients!Next]_(Clients!vars)
<1> SUFFICES ASSUME AwaitableInv, [AwaitableNext]_awaitableVars
             PROVE  UNCHANGED <<Client, Gone, stalled, AwaitableState>> \/ Clients!Next
  BY AwaitableSteps
<1>t. AwaitableTypeOK /\ RunInv /\ conn = [j \in Conns |-> conn[j]]
  BY DEF AwaitableInv, AwaitableTypeOK
<1> DEFINE Goal == UNCHANGED <<Client, Gone, stalled, AwaitableState>> \/ Clients!Next
<1> USE DEF serverVars, peerVars
<1>n. /\ \A k \in Conns : Clients!Connect(k) \/ Clients!HangUp(k) \/ Clients!Stall(k)
                            \/ Clients!Admit(k) \/ Clients!Finish(k)
                            => Clients!Next
      /\ Clients!StopAccepting => Clients!Next
      /\ Clients!GoDown => Clients!Next
  BY DEF Clients!Next
<1>m. ASSUME NEW k \in Conns, NEW s, conn' = [conn EXCEPT ![k] = s]
      PROVE  /\ Client[k] = Place(conn[k]) /\ Client' = [Client EXCEPT ![k] = Place(s)]
             /\ Place(conn[k]) = Place(s) => Client' = Client
  BY <1>t, <1>m, ClientMoves
<1>q. ASSUME UNCHANGED <<conn, peer, stalled, main>>, listener' = "ended" <=> listener = "ended"
      PROVE  Goal
  BY <1>q DEF Client, Gone, AwaitableState
<1>o. ASSUME NEW k \in Conns, Client[k] = "open" PROVE main # "returned"
  BY <1>o, <1>t DEF RunInv, OpenSockets, AwaitableTypeOK, Client
<1>f. ASSUME NEW k \in Conns, Place(conn[k]) = "open", peer[k] # "up",
             conn' = [conn EXCEPT ![k] = "closed"], UNCHANGED <<peer, stalled, main>>,
             listener' = "ended" <=> listener = "ended"
      PROVE  Goal
  <2>1. Place("closed") = "closed" BY DEF Place
  <2>2. Client[k] = "open" /\ Client' = [Client EXCEPT ![k] = "closed"]
    BY <1>f, <1>m, <2>1
  <2>3. AwaitableState # "down" BY <1>o, <2>2 DEF AwaitableState
  <2>4. k \in Gone /\ UNCHANGED <<Gone, stalled, AwaitableState>> BY <1>f DEF Gone, AwaitableState
  <2> QED BY <2>2, <2>3, <2>4, <1>n, AwaitableSteps
<1>1. CASE UNCHANGED awaitableVars BY <1>1, <1>q DEF awaitableVars
<1>2. CASE StartRun
  BY <1>2 DEF StartRun, Client, Gone, AwaitableState
<1>3. CASE ListenStarts \/ AcceptThrows
  BY <1>3, <1>q DEF ListenStarts, AcceptThrows
<1>4. CASE ListenEnds
  <2>1. main # "returned" BY <1>4, <1>t DEF ListenEnds, RunInv
  <2>2. AwaitableState = "accepting" /\ AwaitableState' = "draining"
    BY <1>4, <2>1 DEF ListenEnds, AwaitableState
  <2>3. UNCHANGED <<Client, Gone, stalled>> BY <1>4 DEF ListenEnds, Client, Gone
  <2> QED BY <2>2, <2>3, <1>n, AwaitableSteps
<1>5. CASE RunReturns
  <2>1. AwaitableState # "down" /\ AwaitableState' = "down"
    BY <1>5 DEF RunReturns, AwaitableState
  <2>2. UNCHANGED <<Client, Gone, stalled>> BY <1>5 DEF RunReturns, Client, Gone
  <2> QED BY <2>1, <2>2, <1>n, AwaitableSteps
<1>6. ASSUME NEW k \in Conns, AcceptDone(k) PROVE Goal
  <2>1. conn[k] = "backlog" /\ conn' = [conn EXCEPT ![k] = "accepted"]
    BY <1>6 DEF AcceptDone, Backlog
  <2>2. Place("accepted") = "open" /\ Place("backlog") = "waiting" BY DEF Place
  <2>3. Client[k] = "waiting" /\ Client' = [Client EXCEPT ![k] = "open"]
    BY <1>m, <2>1, <2>2
  <2>4. AwaitableState = "accepting" /\ UNCHANGED <<Gone, stalled, AwaitableState>>
    BY <1>6 DEF AcceptDone, AwaitableState, Gone
  <2> QED BY <2>3, <2>4, <1>n, AwaitableSteps
<1>7. ASSUME NEW k \in Conns,
             \/ SpawnProcess(k) \/ ProcessStarts(k)
             \/ ReadDone(k) \/ WriteDone(k)
      PROVE  Goal
  <2>1. PICK s \in {"spawned", "reading", "writing"} : conn' = [conn EXCEPT ![k] = s]
    BY <1>7 DEF SpawnProcess, ProcessStarts, ReadDone,
       WriteDone
  <2>2. conn[k] \in {"accepted", "spawned", "reading", "writing"} /\ UNCHANGED <<peer, stalled, main>>
    BY <1>7 DEF SpawnProcess, ProcessStarts, ReadDone,
       WriteDone
  <2>3. Place(s) = Place(conn[k]) BY <2>2 DEF Place
  <2>4. listener' = "ended" <=> listener = "ended"
    BY <1>7, <1>t DEF RunInv, SpawnProcess, ProcessStarts,
       ReadDone, WriteDone
  <2>5. Client' = Client BY <1>m, <2>1, <2>3
  <2> QED BY <2>2, <2>4, <2>5 DEF Gone, AwaitableState
<1>8. ASSUME NEW k \in Conns, RemoteEndpointThrows(k) PROVE Goal
  <2>1. /\ conn[k] = "accepted" /\ listener = "accepted" /\ listener' = "throwing"
        /\ peer[k] # "up" /\ conn' = [conn EXCEPT ![k] = "closed"] /\ UNCHANGED <<peer, stalled, main>>
    BY <1>8, <1>t DEF RunInv, RemoteEndpointThrows
  <2>2. Place(conn[k]) = "open" BY <2>1 DEF Place
  <2> QED BY <2>1, <2>2, <1>f
<1>9. ASSUME NEW k \in Conns, ReadFails(k) \/ WriteThrows(k) PROVE Goal
  <2>1. /\ conn[k] \in {"reading", "writing"} /\ UNCHANGED <<listener, peer, stalled, main>>
        /\ peer[k] # "up" /\ conn' = [conn EXCEPT ![k] = "closed"]
    BY <1>9 DEF ReadFails, WriteThrows
  <2>2. Place(conn[k]) = "open" BY <2>1 DEF Place
  <2> QED BY <2>1, <2>2, <1>f
<1>10. ASSUME NEW k \in Conns, Connect(k) PROVE Goal
  <2>1. conn[k] = "absent" /\ conn' = [conn EXCEPT ![k] = "backlog"]
    BY <1>10 DEF Connect
  <2>2. Place("absent") = "absent" /\ Place("backlog") = "waiting" BY DEF Place
  <2>3. Client[k] = "absent" /\ Client' = [Client EXCEPT ![k] = "waiting"]
    BY <1>m, <2>1, <2>2
  <2>4. UNCHANGED <<Gone, stalled, AwaitableState>> BY <1>10 DEF Connect, Gone, AwaitableState
  <2> QED BY <2>3, <2>4, <1>n, AwaitableSteps
<1>11. ASSUME NEW k \in Conns, Send(k) PROVE Goal
  BY <1>11, <1>q DEF Send
<1>12. ASSUME NEW k \in Conns, HangUp(k) PROVE Goal
  <2>1. Client[k] # "absent" /\ UNCHANGED <<Client, AwaitableState>>
    BY <1>12, <1>t DEF HangUp, Client, AwaitableState, AwaitableTypeOK
  <2>2. Gone' = Gone \union {k}
    BY <1>12, <1>t DEF HangUp, Gone, AwaitableTypeOK
  <2>3. stalled' \in {stalled, stalled \ {k}} BY <1>12 DEF HangUp
  <2> QED BY <2>1, <2>2, <2>3, <1>n, AwaitableSteps
<1>13. ASSUME NEW k \in Conns, Stall(k) PROVE Goal
  <2>1. stalled' \in {stalled \union {k}, stalled \ {k}} BY <1>13 DEF Stall
  <2>2. UNCHANGED <<Client, Gone, AwaitableState>>
    BY <1>13 DEF Stall, Client, Gone, AwaitableState
  <2> QED BY <2>1, <2>2, <1>n, AwaitableSteps
<1> QED BY <1>1, <1>2, <1>3, <1>4, <1>5, <1>6, <1>7, <1>8, <1>9, <1>10, <1>11, <1>12, <1>13
        DEF AwaitableNext, Listen, Process

\* The safety part of ServerRefinement of the awaitable servers: an exception that ends
\* listen(), or the coroutine of one connection, closes no connection of another client.
THEOREM AwaitableImplementsService ==
  AwaitableSpec =>
    Clients!Init /\ [][Clients!Next]_(Clients!vars)
<1>1. AwaitableInit => Clients!Init
  BY DEF AwaitableInit, Clients!Init
<1> QED BY <1>1, AwaitableServes, AwaitableInductive, PTL DEF AwaitableSpec
=============================================================================
