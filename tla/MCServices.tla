------------------------------- MODULE MCServices -------------------------------
(***************************************************************************)
(* Model checking of the services that promise progress: the promise, the  *)
(* wakeup event and the delayed queue, the HTTP server's connection, a     *)
(* remote call at its server and at its client, the statsd agent and       *)
(* server, and the thread pool of the executors.  They share no state: a   *)
(* behaviour is one of one of them, its part, and the others stay as they  *)
(* are.  The modules of the promise and of the HTTP server are extended,   *)
(* the others are instances.                                               *)
(***************************************************************************)
EXTENDS Future, HTTPServer, FiniteSets

VARIABLES
  part,
  gen_, callbacks_, event_pc, oldgen, event_waiting, spliced, requested, firedAt,
  queue_, length_, now, queue_waiting, queue_op, arg, deadline, ret,
  q, call_op, at, call_waiting, called, cancelSeen,
  refcount_, handles, http, slots, rpc_at, status_, result_, is_ready_, rpc_told, rpc_gen, rpc_callbacks,
  rpc_pc, rpc_oldgen, rpc_waiting, rpc_spliced, rpc_requested, rpc_firedAt,
  value, stats_, stats_mutex, running_, agent, last_values_, joined, net, work, stats_got, lost,
  pool_kind, active_, pool_mutex, pendingTasks_, activeTasks_, active, pool_pc, current, job, cancelled,
  caller, done, raised, stopper

\* A task beside a watcher, and a watcher with the wakeup that is to end it; what timers
\* do to the pool's state is checked in MCLibrary.
Jobs == {"i", "j"}
JobKinds == {[j \in Jobs |-> IF j = "i" THEN k[1] ELSE k[2]] :
               k \in {<<"task", "writer">>, <<"reader", "wakeup">>}}

CallThreads == {"t1", "t2", "t3"}
EventThreads == {"t1", "t2"}
Poppers == {"c1", "c2"}
Workers == {"w1", "w2"}

Event == INSTANCE Wakeup WITH
  Threads <- EventThreads, Callbacks <- {"a", "b"}, MaxGen <- 2, FutureGenerations <- FALSE,
  pc <- event_pc, waiting <- event_waiting
Delayed == INSTANCE DelayedQueue WITH
  Producers <- {"p"}, Consumers <- Poppers, Jobs <- {"j"}, max_size_ <- 1, MaxLength <- 1,
  MaxTime <- 2, waiting <- queue_waiting, op <- queue_op
Call == INSTANCE RPCRequest WITH
  Threads <- CallThreads, NoThread <- "nobody", op <- call_op, waiting <- call_waiting
Rpc == INSTANCE RPC WITH
  Users <- {"u1", "u2"}, Callbacks <- {"c1"}, at <- rpc_at, told <- rpc_told, gen_ <- rpc_gen,
  callbacks_ <- rpc_callbacks, pc <- rpc_pc, oldgen <- rpc_oldgen, waiting <- rpc_waiting,
  spliced <- rpc_spliced, requested <- rpc_requested, firedAt <- rpc_firedAt
Statsd == INSTANCE Stats WITH
  Paths <- {"a", "c"}, Delta <- {"a"}, MaxValue <- 2, MaxPackets <- 1, LineSize <- 3,
  kMaxPacketSize <- 9, mutex_ <- stats_mutex, got <- stats_got
Pool == INSTANCE ThreadPool WITH
  Kinds <- JobKinds, Callers <- {"p"}, Nobody <- "nobody", kind <- pool_kind,
  mutex_ <- pool_mutex, pc <- pool_pc

eventVars ==
  <<gen_, callbacks_, event_pc, oldgen, event_waiting, spliced, requested, firedAt>>
delayedVars ==
  <<queue_, length_, now, queue_waiting, queue_op, arg, deadline, ret>>
callVars ==
  <<q, call_op, at, call_waiting, called, cancelSeen>>
rpcVars ==
  <<refcount_, handles, http, slots, rpc_at, status_, result_, is_ready_, rpc_told, rpc_gen, rpc_callbacks,
    rpc_pc, rpc_oldgen, rpc_waiting, rpc_spliced, rpc_requested, rpc_firedAt>>
statsVars ==
  <<value, stats_, stats_mutex, running_, agent, last_values_, joined, net, work, stats_got, lost>>
poolVars ==
  <<pool_kind, active_, pool_mutex, pendingTasks_, activeTasks_, active, pool_pc, current, job,
    cancelled, caller, done, raised, stopper>>

Parts ==
  {"promise", "event", "delayed", "server", "call", "rpc", "stats", "pool"}
everything ==
  <<part, vars, eventVars, delayedVars, serverVars, callVars, rpcVars, statsVars, poolVars>>

\* What the other parts do in a step of this one.
Only(p) ==
  /\ part = p /\ UNCHANGED part
  /\ p # "promise" => UNCHANGED vars
  /\ p # "event" => UNCHANGED eventVars
  /\ p # "delayed" => UNCHANGED delayedVars
  /\ p # "server" => UNCHANGED serverVars
  /\ p # "call" => UNCHANGED callVars
  /\ p # "rpc" => UNCHANGED rpcVars
  /\ p # "stats" => UNCHANGED statsVars
  /\ p # "pool" => UNCHANGED poolVars

\* A part that is not looked at stays in one of its initial states.
AnyInit ==
  /\ part \in Parts
  /\ Init /\ Event!Init /\ Delayed!Init /\ Statsd!Init
  /\ ServerInit /\ (part # "server" => service = "none")
  /\ Call!Init /\ (part # "call" => call_op = [t \in CallThreads |-> "run"])
  /\ Rpc!Init /\ (part # "rpc" => handles = {"u1"})
  /\ Pool!Init /\ (part # "pool" => pool_kind["i"] = "task")

AnyNext ==
  \/ Only("promise") /\ Next
  \/ Only("event") /\ Event!Next
  \/ Only("delayed") /\ Delayed!Next
  \/ Only("server") /\ ServerNext
  \/ Only("call") /\ Call!Next
  \/ Only("rpc") /\ Rpc!Next
  \/ Only("stats") /\ Statsd!Next
  \/ Only("pool") /\ Pool!Next

\* The fairness of each part, of the steps its own module names; those of one thread, of
\* which one is enabled at a time, are taken together.
Waits(t) == Continue(t) \/ (pc[t] = "waitFor" /\ leaveWait(t))
Pops(c) ==
  \/ Delayed!notifyAll(c) \/ Delayed!popAfterEmpty(c) \/ Delayed!popAfterTimed(c)
  \/ Delayed!timeout(c) \/ Delayed!interruptiblePop(c)

Fair ==
  /\ \A t \in Users : WF_vars(part = "promise" /\ Waits(t))
  /\ \A t \in EventThreads : WF_eventVars(part = "event" /\ Event!Continue(t))
  /\ WF_delayedVars(part = "delayed" /\ Delayed!tick)
  /\ WF_delayedVars(part = "delayed" /\ Delayed!notifyAll("p"))
  /\ SF_delayedVars(part = "delayed" /\ Delayed!insertAgain("p"))
  /\ \A c \in Poppers : WF_delayedVars(part = "delayed" /\ Pops(c))
  /\ WF_serverVars(part = "server" /\ Loop)
  /\ WF_serverVars(part = "server" /\ Work)
  /\ \A t \in CallThreads : WF_callVars(part = "call" /\ Call!Step(t))
  /\ \A t \in Rpc!Threads : WF_rpcVars(part = "rpc" /\ Rpc!Continue(t))
  /\ WF_statsVars(part = "stats" /\ Statsd!Agent)
  /\ WF_statsVars(part = "stats" /\ Statsd!join)
  /\ WF_statsVars(part = "stats" /\ net # <<>> /\ Statsd!udpReceived(1))
  /\ WF_statsVars(part = "stats" /\ work # <<>> /\ Statsd!messageReceived(1))
  /\ \A w \in Workers : /\ WF_poolVars(part = "pool" /\ UNCHANGED pool_kind /\ Pool!work(w))
                        /\ SF_poolVars(part = "pool" /\ UNCHANGED pool_kind /\ Pool!workTop(w))
  /\ \A j \in Jobs : WF_poolVars(part = "pool" /\ UNCHANGED pool_kind /\ Pool!executeNotify(j))
  /\ WF_poolVars(part = "pool" /\ UNCHANGED pool_kind /\ Pool!waitBlock("p"))

AnySpec == AnyInit /\ [][AnyNext]_everything /\ Fair

-----------------------------------------------------------------------------

\* Whoever waits is served: the callbacks and waits of a fulfilled promise, those of an
\* event whose generation has passed, and the jobs that are due in a delayed queue.  It is
\* Future's PromiseKept, Wakeup's EventServes and DelayedQueue's DueJobsLeave in one: a
\* part that is not looked at stays in its initial state, which has nobody to serve.
WaitersServed ==
  \A t \in EventThreads : []<>(Settled /\ Event!Served(t) /\ Delayed!NoneDue)

\* A finished response ends in a closed connection, and a writer that waits for its reader
\* goes on, also when the client goes away.
ServerAnswers == ResponseEnds /\ WaitForReaderReturns

\* A call is settled once although run() and cancel() race: its outcome does not change,
\* its callbacks run, the running call hears of the cancellation, and no waiter is left.
\* At its client everyone finds the outcome, and the call lives as long as it is used.
RequestSettles ==
  /\ [](part = "call" => Call!ReadyCallbackRuns /\ Call!CancelReachesCall)
  /\ Call!OutcomeFrozen
  /\ Call!RequestWaitersReturn
  /\ [](part = "rpc" => Rpc!RPCLives)
  /\ Rpc!RPCAnswers

\* What is counted arrives at the server, unless a packet is lost or the agent is stopped,
\* and the agent stops when it is told to.
StatsArrive == Statsd!CountsArrive /\ Statsd!AgentStops

\* A queued job is run, unless the pool is stopped or watchers hold all its workers.
PoolServes == Pool!PoolServes
=================================================================================
