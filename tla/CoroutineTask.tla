---------------------------- MODULE CoroutineTask ----------------------------
(***************************************************************************)
(* asio/benchmark/task.hpp and runtime.hpp: who owns a coroutine frame.    *)
(* A Task owns the frame it returns for and destroys it; take() (spawn)    *)
(* gives the frame to itself, to be destroyed by its FinalAwaiter; a       *)
(* co_await starts the callee and its FinalAwaiter resumes the caller.     *)
(*                                                                         *)
(* The stack of a thread holds the coroutines being resumed on it, each by *)
(* the one below it and the first by main or by an event handler. Code at  *)
(* the top of a stack may move, assign, destroy, spawn, resume and await   *)
(* the Tasks in its scope, whatever they hold; a Task object lives in the  *)
(* scope of the code that declares it. An operation may complete on        *)
(* another thread before the await_suspend that started it has returned.   *)
(* A step that is undefined in C++, or that resumes a coroutine which      *)
(* waits for something else, sets `fault` and ends the behaviour.          *)
(***************************************************************************)
EXTENDS Sequences, FiniteSets, Integers

CONSTANTS
  Frames,      \* bound: coroutine calls, each frame is allocated once
  Tasks,       \* bound: Task objects, each constructed once
  Threads,     \* each also names its code that is no coroutine: main, a handler
  None,        \* nullptr
  Dead         \* the scope of a Task not constructed yet, or destroyed

ASSUME TaskAssumption ==
  /\ Frames \intersect Threads = {}
  /\ None \notin Frames \union Threads /\ Dead \notin Frames \union Threads
  /\ None # Dead

VARIABLES
  state,    \* of each frame; "op" awaits an operation, "child" another Task
  caller,   \* caller_ of its promise
  handle,   \* handle_ of each Task
  scope,    \* where the Task object lives
  fresh,    \* Tasks never constructed
  stack,    \* of each thread, the coroutines being executed
  leaving,  \* of each thread, the frame in whose await_suspend it still is
  pending,  \* frames a pending operation is to resume
  fault,    \* the first undefined step: <<kind, frame>>, or <<>>
  misused,  \* history: frames Task::resume() was called on, or spawned once they
            \* had been started; None when an empty Task was resumed or awaited
  overwritten \* history: frames whose Task was assigned over

vars == <<state, caller, handle, scope, fresh, stack, leaving, pending, fault,
          misused, overwritten>>

TypeOK ==
  /\ state \in [Frames -> {"none", "initial", "running", "op", "child", "done",
                           "freed"}]
  /\ caller \in [Frames -> Frames \union {None}]
  /\ handle \in [Tasks -> Frames \union {None}]
  /\ scope \in [Tasks -> Frames \union Threads \union {Dead}]
  /\ fresh \in SUBSET Tasks
  /\ stack \in [Threads -> Seq(Frames)]
  /\ leaving \in [Threads -> Frames \union {None}]
  /\ pending \in SUBSET Frames
  /\ fault \in {<<>>} \union ({"destroy", "resume", "use"} \X (Frames \union {None}))
  /\ misused \in SUBSET (Frames \union {None})
  /\ overwritten \in SUBSET Frames

Init ==
  /\ state = [f \in Frames |-> "none"]
  /\ caller = [f \in Frames |-> None]
  /\ handle = [t \in Tasks |-> None]
  /\ scope = [t \in Tasks |-> Dead]
  /\ fresh = Tasks
  /\ stack = [th \in Threads |-> <<>>]
  /\ leaving = [th \in Threads |-> None]
  /\ pending = {}
  /\ fault = <<>>
  /\ misused = {}
  /\ overwritten = {}

-----------------------------------------------------------------------------
\* The code that thread th executes, and what is below it on the stack.
Active(th) == IF stack[th] = <<>> THEN th ELSE stack[th][Len(stack[th])]
Caller(th) == SubSeq(stack[th], 1, Len(stack[th]) - 1)

Live(t) == scope[t] # Dead
InScope(th, t) == scope[t] = Active(th)
Holds(t, f) == Live(t) /\ handle[t] = f

\* The Tasks that end with the scopes S.
Locals(S) == {t \in Tasks : scope[t] \in S}
HandlesOf(T) == {handle[t] : t \in T} \ {None}

\* Destroying the Tasks T destroys their frames, with those the Tasks that live
\* in them, and so on.
Doomed(T) ==
  {t \in Tasks : \A S \in SUBSET Tasks :
                   T \subseteq S /\ Locals(HandlesOf(S)) \subseteq S => t \in S}

\* A frame must be destroyed once, and not while it runs.
BadDestroy(T) ==
  {f \in HandlesOf(T) : \/ state[f] \in {"freed", "running"}
                        \/ \E t, u \in T : t # u /\ handle[t] = f /\ handle[u] = f}

\* The frames F are destroyed and the Tasks T cease to exist.
Destroy(F, T) ==
  /\ state' = [f \in Frames |-> IF f \in F THEN "freed" ELSE state[f]]
  /\ scope' = [t \in Tasks |-> IF t \in T THEN Dead ELSE scope[t]]

Fault(kind, f) ==
  /\ fault' = <<kind, f>>
  /\ UNCHANGED <<state, caller, handle, scope, fresh, stack, leaving, pending,
                 overwritten>>

-----------------------------------------------------------------------------
(* Task objects.                                                           *)

\* Calling a coroutine: its frame is allocated, get_return_object makes the Task,
\* initial_suspend suspends it before its first line.
Create(th, t, f) ==
  /\ t \in fresh
  /\ state[f] = "none"
  /\ state' = [state EXCEPT ![f] = "initial"]
  /\ handle' = [handle EXCEPT ![t] = f]
  /\ scope' = [scope EXCEPT ![t] = Active(th)]
  /\ fresh' = fresh \ {t}
  /\ UNCHANGED <<caller, stack, leaving, pending, fault, misused, overwritten>>

\* A variant with a bug: the moved-from Task keeps its handle, as with the
\* defaulted move constructor.
MoveConstructShared(th, t, other) ==
  /\ t \in fresh
  /\ InScope(th, other)
  /\ handle' = [handle EXCEPT ![t] = handle[other]]
  /\ scope' = [scope EXCEPT ![t] = Active(th)]
  /\ fresh' = fresh \ {t}
  /\ UNCHANGED <<state, caller, stack, leaving, pending, fault, misused, overwritten>>

\* Task(Task &&other): the moved-from Task must forget the frame.
MoveConstruct(th, t, other) ==
  /\ t \in fresh
  /\ InScope(th, other)
  /\ handle' = [handle EXCEPT ![t] = handle[other], ![other] = None]
  /\ scope' = [scope EXCEPT ![t] = Active(th)]
  /\ fresh' = fresh \ {t}
  /\ UNCHANGED <<state, caller, stack, leaving, pending, fault, misused, overwritten>>

\* operator=(Task &&other): the frame *this held is not destroyed.
MoveAssign(th, t, other) ==
  /\ t # other
  /\ InScope(th, t) /\ InScope(th, other)
  /\ handle' = [handle EXCEPT ![t] = handle[other], ![other] = None]
  /\ overwritten' = overwritten \union ({handle[t]} \ {None})
  /\ UNCHANGED <<state, caller, scope, fresh, stack, leaving, pending, fault, misused>>

\* A variant with a bug: the destructor does nothing.
DestroyTaskLeaks(th, t) ==
  /\ InScope(th, t)
  /\ Destroy({}, Doomed({t}))
  /\ UNCHANGED <<caller, handle, fresh, stack, leaving, pending, fault, misused,
                 overwritten>>

\* ~Task() at the end of the scope or of the full expression.
DestroyTask(th, t) ==
  /\ InScope(th, t)
  /\ LET T == Doomed({t})
     IN IF BadDestroy(T) # {}
        THEN /\ \E f \in BadDestroy(T) : Fault("destroy", f)
             /\ UNCHANGED misused
        ELSE /\ Destroy(HandlesOf(T), T)
             /\ UNCHANGED <<caller, handle, fresh, stack, leaving, pending, fault,
                            misused, overwritten>>

-----------------------------------------------------------------------------
(* Running coroutines.                                                     *)

\* handle.resume(): f runs on thread th on top of the code that resumes it.
Start(th, f, below) ==
  /\ state' = [state EXCEPT ![f] = "running"]
  /\ stack' = [stack EXCEPT ![th] = Append(below, f)]

\* A variant with a bug: take() leaves the handle in the Task.
SpawnKeeps(th, t) ==
  /\ InScope(th, t)
  /\ handle[t] # None
  /\ state[handle[t]] = "initial"
  /\ Start(th, handle[t], stack[th])
  /\ UNCHANGED <<caller, handle, scope, fresh, leaving, pending, fault, misused,
                 overwritten>>

\* spawn(std::move(task)): take() empties the Task, the handle is resumed. Nothing
\* asks whether the coroutine has been started, or is at its end: resuming it
\* again is misuse. An empty Task makes take() terminate the program.
Spawn(th, t) ==
  /\ InScope(th, t)
  /\ handle[t] # None
  /\ IF state[handle[t]] = "initial"
     THEN /\ Start(th, handle[t], stack[th])
          /\ handle' = [handle EXCEPT ![t] = None]
          /\ UNCHANGED <<caller, scope, fresh, leaving, pending, fault, misused,
                         overwritten>>
     ELSE /\ Fault("resume", handle[t])
          /\ misused' = misused \union {handle[t]}

\* Task::resume() resumes what the Task holds, which keeps owning the frame.
\* Nothing in src/ calls it.
Resume(th, t) ==
  /\ InScope(th, t)
  /\ misused' = misused \union {handle[t]}
  /\ IF handle[t] # None /\ state[handle[t]] = "initial"
     THEN /\ Start(th, handle[t], stack[th])
          /\ UNCHANGED <<caller, handle, scope, fresh, leaving, pending, fault,
                         overwritten>>
     ELSE Fault("resume", handle[t])

\* co_await of an empty Task, which only the assertion "no callee" stops.
CoAwaitEmpty(th, t) ==
  /\ Active(th) \in Frames
  /\ InScope(th, t)
  /\ handle[t] = None
  /\ misused' = misused \union {None}
  /\ Fault("resume", None)

\* co_await task: a callee that is done is not suspended for (await_ready), any
\* other gets the awaiting coroutine as its caller_ and control.
CoAwait(th, t) ==
  /\ Active(th) \in Frames
  /\ InScope(th, t)
  /\ handle[t] # None
  /\ UNCHANGED misused
  /\ LET f == handle[t]
     IN /\ state[f] # "done"
        /\ IF state[f] # "initial"
           THEN Fault("resume", f)
           ELSE /\ state' = [state EXCEPT ![Active(th)] = "child", ![f] = "running"]
                /\ caller' = [caller EXCEPT ![f] = Active(th)]
                /\ stack' = [stack EXCEPT ![th] = Append(Caller(th), f)]
                /\ UNCHANGED <<handle, scope, fresh, leaving, pending, fault,
                               overwritten>>

\* co_await of an asio operation: await_suspend starts it, and from then on its
\* handler, which holds the handle, may run on any thread.
StartOp(th) ==
  /\ Active(th) \in Frames
  /\ state' = [state EXCEPT ![Active(th)] = "op"]
  /\ pending' = pending \union {Active(th)}
  /\ stack' = [stack EXCEPT ![th] = Caller(th)]
  /\ leaving' = [leaving EXCEPT ![th] = Active(th)]
  /\ UNCHANGED <<caller, handle, scope, fresh, fault, misused, overwritten>>

\* A variant with a bug: await_suspend writes a member of the awaiter after it has
\* started the operation.
LeaveSuspendWrites(th) ==
  LET f == leaving[th]
  IN /\ f # None
     /\ IF state[f] = "freed"
        THEN Fault("use", f) /\ UNCHANGED misused
        ELSE /\ leaving' = [leaving EXCEPT ![th] = None]
             /\ UNCHANGED <<state, caller, handle, scope, fresh, stack, pending,
                            fault, misused, overwritten>>

\* await_suspend returns to whoever resumed the coroutine. The awaiter lives in a
\* frame that another thread may have resumed, and destroyed: nothing of it is
\* used any more.
LeaveSuspend(th) ==
  /\ leaving[th] # None
  /\ leaving' = [leaving EXCEPT ![th] = None]
  /\ UNCHANGED <<state, caller, handle, scope, fresh, stack, pending, fault,
                 misused, overwritten>>

\* The event loop of a thread runs the handler of an operation: handle.resume() of
\* the coroutine, which must still wait for it.
CompleteOp(th, f) ==
  /\ stack[th] = <<>>
  /\ f \in pending
  /\ UNCHANGED misused
  /\ IF state[f] # "op"
     THEN Fault("resume", f)
     ELSE /\ Start(th, f, <<>>)
          /\ pending' = pending \ {f}
          /\ UNCHANGED <<caller, handle, scope, fresh, leaving, fault, overwritten>>

\* co_return: the locals are destroyed, then FinalAwaiter transfers control to
\* the caller, which reads the result, or destroys the frame nobody awaits.
Return(th) ==
  /\ Active(th) \in Frames
  /\ UNCHANGED misused
  /\ LET f == Active(th)
         T == Doomed(Locals({f}))
         awaited == caller[f] # None
     IN \/ /\ BadDestroy(T) # {}
           /\ \E g \in BadDestroy(T) : Fault("destroy", g)
        \/ /\ BadDestroy(T) = {}
           /\ awaited
           /\ state[caller[f]] # "child"
           /\ Fault("resume", caller[f])
        \/ /\ BadDestroy(T) = {}
           /\ awaited => state[caller[f]] = "child"
           /\ state' = [g \in Frames |->
                          IF g = f THEN IF awaited THEN "done" ELSE "freed"
                          ELSE IF g = caller[f] THEN "running"
                          ELSE IF g \in HandlesOf(T) THEN "freed"
                          ELSE state[g]]
           /\ scope' = [t \in Tasks |-> IF t \in T THEN Dead ELSE scope[t]]
           /\ stack' = [stack EXCEPT ![th] = IF awaited THEN Append(Caller(th), caller[f])
                                                        ELSE Caller(th)]
           /\ UNCHANGED <<caller, handle, fresh, leaving, pending, fault, overwritten>>

-----------------------------------------------------------------------------
\* What the code on top of a thread's stack may do.
Step(th) ==
  \/ \E t \in Tasks, f \in Frames : Create(th, t, f)
  \/ \E t, u \in Tasks : MoveConstruct(th, t, u) \/ MoveAssign(th, t, u)
  \/ \E t \in Tasks : \/ DestroyTask(th, t) \/ Spawn(th, t) \/ Resume(th, t)
                      \/ CoAwaitEmpty(th, t) \/ CoAwait(th, t)
  \/ StartOp(th)
  \/ \E f \in Frames : CompleteOp(th, f)
  \/ Return(th)

Next ==
  /\ fault = <<>>
  /\ \E th \in Threads :
       \/ leaving[th] = None /\ Step(th)
       \/ LeaveSuspend(th)

Spec == Init /\ [][Next]_vars

-----------------------------------------------------------------------------
(* Properties.                                                             *)

\* The misused frames, with all they awaited.
Tainted ==
  {f \in Frames \union {None} : \A S \in SUBSET (Frames \union {None}) :
     /\ misused \subseteq S
     /\ \A g \in Frames : caller[g] \in S \ {None} => g \in S
     => f \in S}

\* A frame is destroyed once and never while it runs, resumed only while it is
\* suspended for that very reason, and not touched by the await_suspend that
\* another thread has overtaken, whatever is moved, assigned, spawned, awaited or
\* dropped: "why does it core dump without the move constructor?" (task.hpp:95)
\* does not arise with it. What is undefined takes one of three uses that the class
\* allows and src/ avoids: Task::resume(), which runs a frame its Task keeps
\* owning; spawn() of a Task whose coroutine has been started, to its end
\* even, by co_await; an empty Task resumed or awaited. It strikes the frame so
\* used or one that frame awaits.
FaultNeedsMisuse == fault # <<>> => fault[2] \in Tainted

\* A frame has one owner: at most one Task, and none once it is detached by
\* spawn, whose FinalAwaiter destroys it.
OneOwner ==
  \A f \in Frames :
    /\ Cardinality({t \in Tasks : Holds(t, f)}) <= 1
    /\ state[f] \in {"running", "op", "child"} /\ caller[f] = None =>
         f \in misused \/ ~\E t \in Tasks : Holds(t, f)

\* No frame is forgotten except by move assignment over a Task that still holds
\* one: every other frame that cannot run any more by itself is still held.
OnlyAssignmentLeaks ==
  \A f \in Frames :
    state[f] \in {"initial", "done"} /\ fault = <<>> =>
      f \in overwritten \/ \E t \in Tasks : Holds(t, f)
=============================================================================
