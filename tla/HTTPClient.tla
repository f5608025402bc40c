------------------------------ MODULE HTTPClient ------------------------------
(***************************************************************************)
(* The HTTP client: requests of an HTTPConnectionPool whose scheduler is   *)
(* an EventLoop ("loop") or a ThreadPool ("threads") and whose answers are *)
(* promises, and of a blocking HTTPClient ("sync"), which runs a loop of   *)
(* its own.  A request owns at most one HTTPClientConnection and one       *)
(* HTTPResponseFuture.  What read() and write() do under the connection's  *)
(* mutex is one step; what follows the unlock, the wakeup, the tasks that  *)
(* wait for it and the return to the caller, are steps of their own: a     *)
(* loop runs those tasks in order inside wakeup(), a ThreadPool each on a  *)
(* thread that waits for the wakeup.  Bodies are counted in bytes; a       *)
(* length of UntilClose is body_bytes_expected_ = -1.  keepalive_ is never *)
(* set, so no connection is idle when parkConnection() sees it and         *)
(* connection_cache_ stays empty.  The sockets are external.               *)
(***************************************************************************)
EXTENDS Integers, FiniteSets

CONSTANTS
  Requests,     \* requests in flight
  RequestSize,  \* bytes of a generated request
  MaxBody       \* bytes of body a server announces

ASSUME ClientAssumption ==
  /\ IsFiniteSet(Requests)
  /\ RequestSize \in Nat /\ MaxBody \in Nat

UntilClose == 0 - 1

VARIABLES
  rq,                                   \* per request, see NewRequest
  current_requests, current_connections \* HTTPClientStats

clientVars == <<rq, current_requests, current_connections>>

\* op: what the scheduler is to report; pc: where the thread is that has left the
\* mutex; path: "error" when that is in error(); park, complete: the tasks for on_ready_;
\* leaked: the gauges an exception left raised; used: memory was deleted when used.
NewRequest(how) ==
  [how |-> how, op |-> "new", pc |-> "none", conn |-> "none", left |-> 0,
   parser |-> "HEADER", expected |-> 0, got |-> 0, park |-> "no", complete |-> "no",
   handler |-> "none", settled |-> 0, answer |-> "none", path |-> "response",
   leaked |-> "nothing", used |-> "valid"]

ClientInit ==
  /\ \E f \in [Requests -> {"loop", "threads", "sync"}] : rq = [r \in Requests |-> NewRequest(f[r])]
  /\ current_requests = 0 /\ current_connections = 0

\* The request becomes c; the gauges change.
Becomes(r, c, requests, connections) ==
  /\ rq' = [rq EXCEPT ![r] = c]
  /\ current_requests' = current_requests + requests
  /\ current_connections' = current_connections + connections

Failed(c) == [c EXCEPT !.op = "none", !.settled = @ + 1, !.answer = "error"]

\* HTTPResponseFuture: the promise gets its value, then the future deletes itself.
Answered(c, a) == [c EXCEPT !.settled = @ + 1, !.answer = a, !.handler = "deleted"]

\* HTTPClientConnection::executeRequest() on a new connection.
Busy(c) == [c EXCEPT !.conn = "busy", !.op = "write", !.left = RequestSize, !.handler = "live"]

\* HTTPConnectionPool::executeRequest(): the Host header is missing or does not resolve
\* and the caller gets the exception, connectAsync() raises and the promise fails, or
\* the scheduler is to report the connection.
poolExecuteRequest(r) ==
  /\ rq[r].how \in {"loop", "threads"} /\ rq[r].op = "new"
  /\ \/ Becomes(r, [rq[r] EXCEPT !.op = "none"], 0, 0)
     \/ Becomes(r, Failed(rq[r]), 0, 0)
     \/ Becomes(r, [rq[r] EXCEPT !.op = "connect"], 0, 0)

\* leaseConnection()'s callback: checkErrors() tests nothing, so the connection is used
\* as it is.
connected(r) ==
  /\ rq[r].op = "connect"
  /\ Becomes(r, [Busy(rq[r]) EXCEPT !.park = "waiting"], 1, 1)

\* It raises: runOnNextWakeup() does, as FixedSizeThreadPool's, and the connection goes
\* with its ScopedPtr; or executeRequest() does before or after it has counted the
\* request.  Then the future gets the error, and nothing will wake parkConnection() up.
connectedRaises(r) ==
  /\ rq[r].op = "connect"
  /\ LET c == [Answered(rq[r], "error") EXCEPT
                 !.op = "none", !.park = "waiting"]
     IN \/ Becomes(r, [Failed(rq[r]) EXCEPT !.conn = "deleted"], 0, 0)
        \/ Becomes(r, [c EXCEPT !.conn = "idle", !.leaked = "connection"], 0, 1)
        \/ Becomes(r, [c EXCEPT !.conn = "busy", !.leaked = "both"], 1, 1)

\* HTTPClient::executeRequest(): one at a time under its mutex.
SyncIdle ==
  \A q \in Requests : rq[q].how = "sync" => rq[q].op \notin {"write", "read"} /\ rq[q].pc = "none"

\* No address for the host, no connection, or a request under way.
clientExecuteRequest(r) ==
  /\ rq[r].how = "sync" /\ rq[r].op = "new" /\ SyncIdle
  /\ \/ Becomes(r, [rq[r] EXCEPT !.op = "none"], 0, 0)
     \/ Becomes(r, [Answered(rq[r], "error") EXCEPT !.op = "none"], 0, 0)
     \/ Becomes(r, Busy(rq[r]), 1, 1)

\* The descriptor is too large for the loop: awaitWrite() raises, the connection goes
\* with its ScopedPtr and the future gets the error; or, when the loop last ran on
\* another thread, runOnce() raises and the caller gets the exception.
clientRaises(r) ==
  /\ rq[r].how = "sync" /\ rq[r].op = "new" /\ SyncIdle
  /\ \/ Becomes(r, [Answered(rq[r], "error") EXCEPT
                      !.op = "none", !.conn = "deleted", !.leaked = "request"], 1, 0)
     \/ Becomes(r, [Busy(rq[r]) EXCEPT !.op = "none", !.leaked = "both"], 1, 1)

\* write(): the socket takes k bytes; after the last the response is awaited.
write(r, k) ==
  /\ rq[r].op = "write" /\ k <= rq[r].left
  /\ Becomes(r, [rq[r] EXCEPT !.left = @ - k,
                              !.op = IF k = rq[r].left THEN "read" ELSE "write"], 0, 0)

\* close() with the mutex held, which is then released.
Closing(c, pc) == [c EXCEPT !.conn = "closed", !.op = "none", !.pc = pc,
                               !.path = IF pc = "error" THEN "error" ELSE "response"]

\* read() or write() fails, or the response does not parse.
fails(r) ==
  /\ rq[r].op \in {"write", "read"}
  /\ Becomes(r, Closing(rq[r], "error"), 0, 0)

\* read(): the parser is done, or the connection waits for more.
Responding(r, c) ==
  IF c.parser = "DONE" THEN Becomes(r, Closing(c, "finish"), -1, 0) ELSE Becomes(r, c, 0, 0)

\* read(): the segment that completes the headers, announcing n bytes.
readHeaders(r, n) ==
  /\ rq[r].op = "read" /\ rq[r].parser = "HEADER"
  /\ Responding(r, [rq[r] EXCEPT !.expected = n,
                               !.parser = IF n = 0 THEN "DONE" ELSE "BODY"])

\* read(): k bytes of body for onBodyChunk(); done exactly at the announced size.
readBody(r, k) ==
  /\ rq[r].op = "read" /\ rq[r].parser = "BODY" /\ rq[r].got + k <= MaxBody + 1
  /\ Responding(r, [rq[r] EXCEPT !.got = @ + k,
                               !.parser = IF rq[r].got + k = rq[r].expected
                                          THEN "DONE" ELSE "BODY"])

\* Mutant: the end of the stream always completes the response.
readEof_trusting(r) ==
  /\ rq[r].op = "read"
  /\ Responding(r, [rq[r] EXCEPT !.parser = "DONE"])

\* read() returns 0: parser_.eof() accepts the end unless announced bytes are
\* missing; it accepts it before any header too.
readEof(r) ==
  /\ rq[r].op = "read"
  /\ IF rq[r].expected # UntilClose /\ rq[r].got < rq[r].expected
     THEN Becomes(r, Closing(rq[r], "error"), 0, 0)
     ELSE Responding(r, [rq[r] EXCEPT !.parser = "DONE"])

\* read(), after the unlock: runOnNextWakeup(onResponseComplete).
schedules(r) ==
  /\ rq[r].pc = "finish"
  /\ Becomes(r, [rq[r] EXCEPT !.complete = "waiting", !.pc = "wake"], 0, 0)

\* Mutant: error() leaves the gauge alone.
error_uncounted(r) ==
  /\ rq[r].pc = "error"
  /\ Becomes(r, [rq[r] EXCEPT !.pc = "wake"], 0, 0)

\* error() counts the request down.
error(r) ==
  /\ rq[r].pc = "error"
  /\ Becomes(r, [rq[r] EXCEPT !.pc = "wake"], -1, 0)

Woken(task) == IF task = "waiting" THEN "due" ELSE task

\* on_ready_.wakeup() under on_ready_'s mutex: the tasks that wait for it may run.
wakes(r) ==
  /\ rq[r].pc = "wake"
  /\ Becomes(r, [rq[r] EXCEPT !.park = Woken(@), !.complete = Woken(@), !.pc = "notify"], 0, 0)

AfterWakeup(c) == IF c.path = "error" THEN "onError" ELSE "none"

\* The connection is used, by a thread that may come too late.
Touched(c) == IF c.conn = "deleted" THEN "deleted" ELSE c.used

\* on_ready_'s condition variable is notified; a loop's callbacks come next.
notifies(r) ==
  /\ rq[r].pc = "notify"
  /\ Becomes(r, [rq[r] EXCEPT !.used = Touched(rq[r]),
                   !.pc = IF rq[r].how = "threads" THEN AfterWakeup(rq[r]) ELSE "callbacks"], 0, 0)

\* wakeup() has called all its callbacks.
returns(r) ==
  /\ rq[r].pc = "callbacks" /\ rq[r].park # "due" /\ rq[r].complete # "due"
  /\ Becomes(r, [rq[r] EXCEPT !.pc = AfterWakeup(rq[r])], 0, 0)

\* Who may run a task that is due.
Runs(c) == c.how = "threads" \/ c.pc = "callbacks"

\* HTTPConnectionPool::parkConnection(): the connection is closed and not idle.
parkConnection(r) ==
  /\ rq[r].park = "due" /\ Runs(rq[r])
  /\ Becomes(r, [rq[r] EXCEPT !.park = "no", !.conn = "deleted"], 0, -1)

\* onResponseComplete(), after parkConnection() in a loop; a thread of a ThreadPool may
\* still have to wait on on_ready_ then.  The future of a blocking client owns the
\* connection.
onResponseComplete(r) ==
  /\ rq[r].complete = "due" /\ Runs(rq[r]) /\ (rq[r].how # "threads" => rq[r].park # "due")
  /\ LET c == [Answered(rq[r], "ok") EXCEPT !.complete = "no"]
     IN IF c.how = "sync" THEN Becomes(r, [c EXCEPT !.conn = "deleted"], 0, -1)
        ELSE \/ Becomes(r, c, 0, 0)
             \/ /\ c.how = "threads" /\ c.conn = "deleted"
                /\ Becomes(r, [c EXCEPT !.used = "deleted"], 0, 0)

\* error() reads cur_handler_ from the connection, which parkConnection() may have
\* deleted: it finds the handler still, or crashes.
onError(r) ==
  /\ rq[r].pc = "onError"
  /\ LET c == [Answered(rq[r], "error") EXCEPT !.pc = "none",
                 !.used = Touched(rq[r])]
     IN IF c.how = "sync" THEN Becomes(r, [c EXCEPT !.conn = "deleted"], 0, -1)
        ELSE \/ Becomes(r, c, 0, 0)
             \/ /\ rq[r].conn = "deleted"
                /\ Becomes(r, [rq[r] EXCEPT !.pc = "crashed", !.used = "deleted"], 0, 0)

RequestStep(r) ==
  \/ poolExecuteRequest(r) \/ connected(r) \/ connectedRaises(r)
  \/ clientExecuteRequest(r) \/ clientRaises(r)
  \/ \E k \in 1..RequestSize : write(r, k)
  \/ fails(r) \/ readEof(r)
  \/ \E n \in {UntilClose} \cup 0..MaxBody : readHeaders(r, n)
  \/ \E k \in 1..MaxBody : readBody(r, k)
  \/ schedules(r) \/ error(r) \/ wakes(r) \/ notifies(r) \/ returns(r)
  \/ parkConnection(r) \/ onResponseComplete(r) \/ onError(r)

ClientNext == \E r \in Requests : RequestStep(r)

ClientSpec == ClientInit /\ [][ClientNext]_clientVars

-----------------------------------------------------------------------------
\* A request of which nobody has anything to do any more.
AtRest(c) == c.op = "none" /\ c.pc = "none" /\ c.park # "due" /\ c.complete # "due"

\* The request is counted from executeRequest() until read() or error() counts it down.
Waiting(c) == c.conn = "busy" \/ c.pc = "error"

LeakedRequest(c) == c.leaked \in {"request", "both"}
LeakedConnection(c) == c.leaked \in {"connection", "both"}

Exists(c) == c.conn \notin {"none", "deleted"}

\* The gauges of HTTPClientStats count the requests that wait and the connections that
\* exist, and what an exception of executeRequest() has left behind for ever; at each
\* point between the unlock, the wakeup and the tasks.
ClientAccounting ==
  /\ current_requests = Cardinality({r \in Requests : Waiting(rq[r]) \/ LeakedRequest(rq[r])})
  /\ current_connections = Cardinality({r \in Requests : Exists(rq[r])})

\* A promise is settled at most once, with the future that settles it; when nobody works
\* on a request any more it has been settled, its future is gone and its connection
\* deleted, unless executeRequest() raised.
SettledOnce ==
  \A r \in Requests : LET c == rq[r] IN
    /\ c.settled <= 1
    /\ c.handler = "live" => c.settled = 0
    /\ c.handler = "deleted" => c.settled = 1
    /\ AtRest(c) => /\ c.handler = "live" => LeakedConnection(c)
                    /\ Exists(c) => LeakedConnection(c)

\* A deleted connection is touched by nobody, in no order of the tasks: but for the
\* requests that fail in a pool, and for the pools on a ThreadPool, whose threads wait on
\* the on_ready_ of a connection that another one deletes.
NoUseAfterDelete ==
  \A r \in Requests :
    rq[r].used = "deleted" => rq[r].how = "threads" \/ (rq[r].how = "loop" /\ rq[r].path = "error")

\* A response is reported complete only when no announced byte is missing.
NoTruncatedResponse ==
  \A r \in Requests : rq[r].answer = "ok" => rq[r].expected = UntilClose \/ rq[r].got >= rq[r].expected

\* A client's promise is settled once, its connection is disposed of once and not used
\* afterwards, the gauges are right at every step, and a response cut short is never
\* taken for a whole one.  An executeRequest() that raises, and error(), which uses the
\* connection after on_ready_.wakeup() has had it deleted, are the exceptions stated above.
ClientSafe == ClientAccounting /\ SettledOnce /\ NoUseAfterDelete /\ NoTruncatedResponse
=============================================================================
