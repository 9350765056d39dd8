---------------------------- MODULE ResourceLimit ----------------------------
(***************************************************************************)
(* asio/benchmark/resource_limit.hpp: benchmark_mt raises its soft limit   *)
(* of open files before it serves and restores it afterwards. The limits   *)
(* the kernel keeps are modelled as setrlimit treats them (external): a    *)
(* soft limit above the hard one is refused, and so is raising the hard    *)
(* limit. Meanwhile an administrator may change the limits (prlimit).      *)
(***************************************************************************)
EXTENDS Integers

CONSTANTS
  Infinity,  \* RLIM_INFINITY, the largest rlim_t
  Wanted     \* 65536 in the code

ASSUME LimitAssumption ==
  Infinity \in Nat /\ Wanted \in Nat /\ 0 < Wanted /\ Wanted < Infinity

Values == 0 .. Infinity
Limits == [cur : Values, max : Values]

VARIABLES
  kernel,   \* the limits of the process
  initial,  \* initial_fd_limit
  pc,       \* where main is
  failed,   \* whether a system call failed
  found,    \* history: the limits at the start of raise
  meddled   \* history: whether somebody else changed the limits

limitVars == <<kernel, initial, pc, failed, found, meddled>>

\* The kernel never keeps a soft limit above the hard one.
Legal(l) == l.cur <= l.max

LimitTypeOK ==
  /\ kernel \in Limits /\ Legal(kernel)
  /\ initial \in Limits /\ Legal(initial)
  /\ pc \in {"raise", "adjust", "serve", "done"}
  /\ failed \in BOOLEAN
  /\ found \in Limits
  /\ meddled \in BOOLEAN

LimitInit ==
  /\ kernel \in {l \in Limits : Legal(l)}
  /\ initial = [cur |-> 0, max |-> 0]
  /\ pc = "raise"
  /\ failed = FALSE
  /\ found = kernel
  /\ meddled = FALSE

Larger(a, b) == IF a >= b THEN a ELSE b
Smaller(a, b) == IF a <= b THEN a ELSE b

\* A variant of Raised with a bug: it lowers instead of raising.
RaisedLowers(l) ==
  [l EXCEPT !.cur = IF l.max # Infinity
                    THEN Smaller(Smaller(l.cur, Wanted), l.max)
                    ELSE Smaller(l.cur, Wanted)]

\* The limits raise_resource_limits asks for: at least Wanted, unless that is
\* above a finite hard limit.
Raised(l) ==
  [l EXCEPT !.cur = IF l.max # Infinity
                    THEN Smaller(Larger(l.cur, Wanted), l.max)
                    ELSE Larger(l.cur, Wanted)]

\* setrlimit: refused with EINVAL, or EPERM.
Accepted(l) == Legal(l) /\ l.max <= kernel.max

\* getrlimit may fail: the static initial_fd_limit stays zero.
GetLimit ==
  /\ pc = "raise"
  /\ pc' = "adjust"
  /\ \/ initial' = kernel /\ UNCHANGED failed
     \/ failed' = TRUE /\ UNCHANGED initial
  /\ UNCHANGED <<kernel, found, meddled>>

\* setrlimit is called only if the soft limit is to change.
SetLimit ==
  /\ pc = "adjust"
  /\ pc' = "serve"
  /\ IF Raised(initial).cur # initial.cur
     THEN IF Accepted(Raised(initial))
          THEN kernel' = Raised(initial) /\ UNCHANGED failed
          ELSE failed' = TRUE /\ UNCHANGED kernel
     ELSE UNCHANGED <<kernel, failed>>
  /\ UNCHANGED <<initial, found, meddled>>

\* A variant with a bug: one zero is enough to do nothing.
RestoreIfNonzero ==
  /\ pc = "serve"
  /\ pc' = "done"
  /\ IF initial.cur = 0 \/ initial.max = 0
     THEN UNCHANGED <<kernel, failed>>
     ELSE IF Accepted(initial)
          THEN kernel' = initial /\ UNCHANGED failed
          ELSE failed' = TRUE /\ UNCHANGED kernel
  /\ UNCHANGED <<initial, found, meddled>>

\* restore_resource_limits does nothing if the initial limits are both zero.
Restore ==
  /\ pc = "serve"
  /\ pc' = "done"
  /\ IF initial.cur = 0 /\ initial.max = 0
     THEN UNCHANGED <<kernel, failed>>
     ELSE IF Accepted(initial)
          THEN kernel' = initial /\ UNCHANGED failed
          ELSE failed' = TRUE /\ UNCHANGED kernel
  /\ UNCHANGED <<initial, found, meddled>>

Prlimit ==
  /\ pc # "done"
  /\ ~meddled
  /\ meddled' = TRUE
  /\ \E l \in Limits : Legal(l) /\ kernel' = l
  /\ UNCHANGED <<initial, pc, failed, found>>

LimitNext == GetLimit \/ SetLimit \/ Restore \/ Prlimit

LimitSpec == LimitInit /\ [][LimitNext]_limitVars

-----------------------------------------------------------------------------
\* raise_resource_limits leaves a soft limit that is as high as wanted or as
\* allowed and is never lower than before, if nothing failed or interfered.
RaisedEnough ==
  pc = "serve" /\ ~failed /\ ~meddled =>
    /\ kernel.cur >= found.cur
    /\ kernel.cur >= Wanted \/ kernel.cur = kernel.max
    /\ kernel.max = found.max

\* What raise_resource_limits asks for is never refused because of its own
\* arithmetic: with nobody interfering only getrlimit can fail.
FailsOnlyByGet ==
  failed /\ ~meddled => initial = [cur |-> 0, max |-> 0]

\* After restore_resource_limits the process has the limits it started with,
\* whichever call failed, unless somebody else changed them.
RestoredExactly ==
  pc = "done" /\ ~meddled => kernel = found
=============================================================================
