------------------------------ MODULE MCEventLoop ------------------------------
(***************************************************************************)
(* Model checking of what the event loop and the coalescing queue of       *)
(* delayed jobs may never do.  They share no state: a behaviour is one of  *)
(* one of them, its part, and the other stays as it is.  Threads of a kind *)
(* and jobs are interchangeable in the queue.                              *)
(***************************************************************************)
EXTENDS CoalescingDelayedQueue, TLC

CONSTANTS Others, FDs, Callbacks, Tasks, MaxCancels, PipeCapacity, TasksMayThrow

VARIABLES
  part,
  op_read_, op_write_, callbacks_, num_fds_, running_, runq_, pipe, lpc, back, mode, tasks, snapR,
  snapW, pc, done, cancels, reg, installed, revoked, selected, fired, early, queued, ran, threw,
  misused

Symmetry ==
  Permutations(Producers) \cup Permutations(Consumers) \cup Permutations(Jobs)

Loop == INSTANCE EventLoop

loopVars ==
  <<op_read_, op_write_, callbacks_, num_fds_, running_, runq_, pipe, lpc, back, mode, tasks, snapR,
    snapW, pc, done, cancels, reg, installed, revoked, selected, fired, early, queued, ran, threw,
    misused>>

Parts ==
  {"loop", "coalescing"}
everything ==
  <<part, coalVars, loopVars>>

\* What the other part does in a step of this one.
Only(p) ==
  /\ part = p /\ UNCHANGED part
  /\ p # "loop" => UNCHANGED loopVars
  /\ p # "coalescing" => UNCHANGED coalVars

AnyInit ==
  part \in Parts /\ Loop!Init /\ CoalInit

AnyNext ==
  \/ Only("loop") /\ Loop!Next
  \/ Only("coalescing") /\ CoalNext

AnySpec == AnyInit /\ [][AnyNext]_everything

-----------------------------------------------------------------------------

\* The loop does not sleep on what another thread has pushed to it, a callback runs only
\* when its event has happened and never after it was cancelled, and runOnce() does not
\* return while a registered descriptor is left.
LoopSafe == Loop!LoopSafe
=================================================================================
