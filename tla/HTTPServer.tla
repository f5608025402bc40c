------------------------------ MODULE HTTPServer ------------------------------
(***************************************************************************)
(* One connection of the HTTP server, from accept to free: the             *)
(* HTTPServerConnection, the HTTPRequestStream and HTTPResponseStream on   *)
(* top of it, the handlers the router creates (HTTPServiceHandler,         *)
(* NoSuchRouteHandler), and the two threads that meet there: "L", the      *)
(* thread of the EventLoop, and "W", the pool thread that runs the         *)
(* service.  A lock is its owner; a step holds a lock across steps only    *)
(* where the code keeps it over a wait.  Bodies are counted in bytes, the  *)
(* response is the sequence 0 (the head), 1, 2, ... of its pieces.         *)
(* A client sends at most Content-Length bytes of body.  The scheduler is  *)
(* an EventLoop, so a task it queues itself runs before the next event of  *)
(* the descriptor (see EventLoop).                                         *)
(***************************************************************************)
EXTENDS Integers, Sequences

CONSTANTS
  MaxRequestBody,       \* bytes of request body a client may announce
  MaxResponseBody,      \* pieces of response body a service writes
  kMaxWriteBufferSize   \* HTTPResponseStream::kMaxWriteBufferSize

ASSUME ServerBounds ==
  /\ MaxRequestBody \in Nat /\ MaxResponseBody \in Nat
  /\ kMaxWriteBufferSize \in Nat \ {0}

VARIABLES
  service,      \* which handler the router picks: "streaming", "plain", "none"
  doing,        \* [L, W]: what each thread is doing
  mutex_, lk,   \* owners of the connection's and the response stream's mutex
  state_, expected, got,    \* parser_: its state, body_bytes_expected_/_read_
  bodyCb, body_buf,         \* parser_.onBodyChunk and body_buf_
  onError, onWritten,       \* on_error_cb_ and on_write_completed_cb_
  write_buf, sent,          \* write_buf_, and what the client received
  op, runq,                 \* the loop: armed operation of the fd, queued tasks
  closed, refs,             \* closed_; who holds a reference to the connection
  callback_running, headers_written, response_finished, error,
  buf, out, srefs,          \* stream: buf_, the chunk being handed over, refcount
  given,                    \* pieces of body the service has written
  delivered, woken, reqError, bodyRead,   \* HTTPRequestStream::readBody
  catching,                 \* W is in HTTPServiceHandler's catch block
  todo,                     \* what W does when the current call returns
  failed                    \* the client went away

parserVars == <<state_, expected, got, bodyCb, body_buf>>
connVars == <<onError, onWritten, write_buf, closed, refs>>
streamVars == <<callback_running, headers_written, response_finished, error,
                buf, out, srefs, given>>
readVars == <<delivered, woken, reqError, bodyRead>>
workVars == <<catching, todo>>
serverVars == <<service, doing, mutex_, lk, parserVars, connVars, sent, op, runq,
                streamVars, readVars, workVars, failed>>

ServerInit ==
  /\ service \in {"streaming", "plain", "none"}
  /\ doing = [L |-> "idle", W |-> "absent"]
  /\ mutex_ = "free" /\ lk = "free"
  /\ state_ = "HEADER" /\ expected = 0 /\ got = 0
  /\ bodyCb = "buffer" /\ body_buf = 0
  /\ onError = "null" /\ onWritten = "null"
  /\ write_buf = <<>> /\ sent = <<>>
  /\ op = "read" /\ runq = <<>>
  /\ closed = FALSE /\ refs = {"start"}
  /\ callback_running = FALSE /\ headers_written = FALSE
  /\ response_finished = FALSE /\ error = FALSE
  /\ buf = <<>> /\ out = <<>> /\ srefs = 0 /\ given = 0
  /\ delivered = 0 /\ woken = FALSE /\ reqError = FALSE /\ bodyRead = FALSE
  /\ catching = FALSE /\ todo = "run"
  /\ failed = FALSE

Go(t, p) == doing' = [doing EXCEPT ![t] = p]

\* The same with cv_.notify_all(): a writer in waitForReader() wakes up.
GoNotify(t, p) ==
  doing' = [[doing EXCEPT ![t] = p] EXCEPT !["W"] = IF @ = "cvWait" THEN "run" ELSE @]

\* A RAISE ends the loop (nothing above a callback catches) or takes the worker
\* to its catch block, and out of that.
Raise(t) ==
  IF t = "L" THEN Go("L", "dead") /\ UNCHANGED workVars
  ELSE /\ Go("W", IF catching THEN "leave" ELSE "catch")
       /\ UNCHANGED workVars

\* The stream loses one reference, and with the last one frees itself and its
\* reference to the connection.
DecRef(keep) ==
  /\ srefs' = srefs - 1
  /\ refs' = (IF srefs = 1 THEN refs \ {"res"} ELSE refs) \ keep

\* The call a thread made returns: the loop drops the reference the callback
\* held, the worker goes on with its service.
Resume(t) == Go(t, IF t = "L" THEN "decRef" ELSE todo')

-----------------------------------------------------------------------------
(* The loop thread: reading the request.                                   *)

\* An event of the descriptor is handled only after the tasks the loop queued.
LoopFree(o) ==
  /\ doing["L"] = "idle" /\ op = o /\ mutex_ = "free"
  /\ \A i \in DOMAIN runq : runq[i].by # "L"

Chunk(n, b) == [task |-> "chunk", size |-> n, last |-> b, by |-> "L"]

\* read(): the segment that completes the headers, with k bytes of body behind
\* them.  The handler runs inside parse(): a streaming service goes to the pool,
\* the other handlers install their body callback at once.
readHeaders(n, k) ==
  /\ LoopFree("read") /\ state_ = "HEADER" /\ k <= n
  /\ expected' = n /\ got' = k
  /\ state_' = IF k = n THEN "DONE" ELSE "BODY"
  /\ op' = IF k = n THEN "none" ELSE "read"
  /\ IF service = "streaming"
     THEN /\ Go("W", "start") /\ body_buf' = k
          /\ UNCHANGED <<bodyCb, onError, runq>>
     ELSE /\ bodyCb' = "deliver" /\ onError' = "nop"
          /\ runq' = IF k > 0 \/ n = 0 THEN Append(runq, Chunk(k, k = n)) ELSE runq
          /\ UNCHANGED <<doing, body_buf>>
  /\ UNCHANGED <<service, mutex_, lk, onWritten, write_buf, closed, refs, sent,
                 streamVars, readVars, workVars, failed>>

\* read(): k more bytes of the body, given to the callback installed by then.
readMore(k) ==
  /\ LoopFree("read") /\ state_ = "BODY" /\ got + k <= expected
  /\ got' = got + k
  /\ state_' = IF got' = expected THEN "DONE" ELSE "BODY"
  /\ op' = IF got' = expected THEN "none" ELSE "read"
  /\ IF bodyCb = "buffer"
     THEN body_buf' = body_buf + k /\ UNCHANGED runq
     ELSE /\ body_buf' = 0
          /\ runq' = Append(runq, Chunk(body_buf + k, state_' = "DONE"))
  /\ UNCHANGED <<service, doing, mutex_, lk, expected, bodyCb, connVars, sent,
                 streamVars, readVars, workVars, failed>>

\* read(): an error, an end of file or bytes that do not parse: the error
\* callback, then close() once the mutex is released.
readFails ==
  /\ LoopFree("read")
  /\ failed' = TRUE /\ op' = "none"
  /\ Go("L", "close")
  /\ IF onError = "req" THEN reqError' = TRUE /\ woken' = TRUE
                        ELSE UNCHANGED <<reqError, woken>>
  /\ UNCHANGED <<service, mutex_, lk, parserVars, connVars, sent, runq,
                 streamVars, delivered, bodyRead, workVars>>

\* close() on the loop's own thread.
close ==
  /\ doing["L"] = "close" /\ mutex_ = "free"
  /\ IF closed
     THEN Raise("L") /\ UNCHANGED <<closed, op, refs>>
     ELSE /\ closed' = TRUE /\ op' = "none" /\ refs' = refs \ {"start"}
          /\ Go("L", "idle") /\ UNCHANGED workVars
  /\ UNCHANGED <<service, mutex_, lk, parserVars, onError, onWritten, write_buf,
                 sent, runq, streamVars, readVars, failed>>

\* A queued body chunk: HTTPRequestStream's callback, HTTPServiceHandler's, or
\* discardRequestBody()'s for a request without a route.
runChunk ==
  /\ doing["L"] = "idle" /\ runq # <<>> /\ Head(runq).task = "chunk"
  /\ runq' = Tail(runq)
  /\ delivered' = delivered + Head(runq).size
  /\ CASE service = "streaming" ->
            /\ woken' = (woken \/ Head(runq).last)
            /\ UNCHANGED <<doing, onError, onWritten, write_buf, op>>
       [] service = "plain" ->
            /\ IF Head(runq).last THEN Go("W", "start") ELSE UNCHANGED doing
            /\ UNCHANGED <<woken, onError, onWritten, write_buf, op>>
       [] OTHER ->
            /\ mutex_ = "free"
            /\ IF Head(runq).last
               THEN /\ write_buf' = <<0>> /\ onWritten' = "finish"
                    /\ onError' = "nop" /\ op' = "write"
               ELSE UNCHANGED <<onError, onWritten, write_buf, op>>
            /\ UNCHANGED <<doing, woken>>
  /\ UNCHANGED <<service, mutex_, lk, parserVars, closed, refs, sent, streamVars,
                 reqError, bodyRead, workVars, failed>>

\* The loop arms or cancels the descriptor for another thread.
runTask ==
  /\ doing["L"] = "idle" /\ runq # <<>> /\ Head(runq).task \in {"arm", "cancel"}
  /\ runq' = Tail(runq)
  /\ op' = IF Head(runq).task = "arm" THEN "write" ELSE "none"
  /\ IF Head(runq).task = "cancel" THEN Go("W", "cancelled") ELSE UNCHANGED doing
  /\ UNCHANGED <<service, mutex_, lk, parserVars, connVars, sent, streamVars,
                 readVars, workVars, failed>>

-----------------------------------------------------------------------------
(* The loop thread: writing the response.                                  *)

\* write(): the socket takes the first k pieces.
write(k) ==
  /\ LoopFree("write")
  /\ sent' = sent \o SubSeq(write_buf, 1, k)
  /\ write_buf' = SubSeq(write_buf, k + 1, Len(write_buf))
  /\ IF k < Len(write_buf)
     THEN UNCHANGED <<op, doing>>
     ELSE /\ op' = "none"
          /\ Go("L", IF onWritten = "finish" THEN "close" ELSE "completed")
  /\ UNCHANGED <<service, mutex_, lk, parserVars, onError, onWritten, closed,
                 refs, runq, streamVars, readVars, workVars, failed>>

\* write() fails: the error callback runs with the mutex held.
writeFails ==
  /\ LoopFree("write")
  /\ failed' = TRUE /\ op' = "none"
  /\ IF onError = "stream" THEN mutex_' = "L" /\ Go("L", "error")
                           ELSE Go("L", "close") /\ UNCHANGED mutex_
  /\ UNCHANGED <<service, lk, parserVars, connVars, sent, runq, streamVars,
                 readVars, workVars>>

\* Mutant: the stream does not remember the error.
onCallbackError_forgets ==
  /\ doing["L"] = "error" /\ lk = "free"
  /\ callback_running' = FALSE /\ UNCHANGED error
  /\ DecRef({}) /\ mutex_' = "free" /\ GoNotify("L", "close")
  /\ UNCHANGED <<service, lk, parserVars, onError, onWritten, write_buf, closed,
                 sent, op, runq, headers_written, response_finished, buf, out,
                 given, readVars, workVars, failed>>

\* Mutant: a waiting writer is not notified.
onCallbackError_silent ==
  /\ doing["L"] = "error" /\ lk = "free"
  /\ callback_running' = FALSE /\ error' = TRUE
  /\ DecRef({}) /\ mutex_' = "free" /\ Go("L", "close")
  /\ UNCHANGED <<service, lk, parserVars, onError, onWritten, write_buf, closed,
                 sent, op, runq, headers_written, response_finished, buf, out,
                 given, readVars, workVars, failed>>

onCallbackError ==
  /\ doing["L"] = "error" /\ lk = "free"
  /\ callback_running' = FALSE /\ error' = TRUE
  /\ DecRef({}) /\ mutex_' = "free" /\ GoNotify("L", "close")
  /\ UNCHANGED <<service, lk, parserVars, onError, onWritten, write_buf, closed,
                 sent, op, runq, headers_written, response_finished, buf, out,
                 given, readVars, workVars, failed>>

\* onStateChanged() with running and b as the values of callback_running_ and
\* buf_: hand the next chunk over, finish the response, or nothing.
onStateChanged(t, running, b, finished) ==
  /\ callback_running' = (running \/ (headers_written /\ b # <<>>))
  /\ IF running \/ ~headers_written \/ (b = <<>> /\ ~finished)
     THEN buf' = b /\ lk' = "free" /\ Resume(t) /\ UNCHANGED <<out, srefs>>
     ELSE IF b # <<>>
     THEN LET n == IF Len(b) > kMaxWriteBufferSize THEN kMaxWriteBufferSize
                                                   ELSE Len(b)
          IN /\ out' = SubSeq(b, 1, n) /\ buf' = SubSeq(b, n + 1, Len(b))
             /\ srefs' = srefs + 1 /\ lk' = "free" /\ GoNotify(t, "writeBody")
     ELSE buf' = b /\ lk' = t /\ Go(t, "finish") /\ UNCHANGED <<out, srefs>>

onCallbackCompleted ==
  /\ doing["L"] = "completed" /\ lk = "free"
  /\ onStateChanged("L", FALSE, buf, response_finished)
  /\ UNCHANGED <<service, mutex_, parserVars, connVars, sent, op, runq,
                 headers_written, response_finished, error, given, readVars,
                 workVars, failed>>

\* onCallbackCompleted() drops the reference the finished write held.
decRef ==
  /\ doing["L"] = "decRef"
  /\ DecRef({}) /\ Go("L", "idle")
  /\ UNCHANGED <<service, mutex_, lk, parserVars, onError, onWritten, write_buf,
                 closed, sent, op, runq, callback_running, headers_written,
                 response_finished, error, buf, out, given, readVars, workVars,
                 failed>>

\* awaitWrite(): the worker's registration goes through the loop's queue.
awaitWrite(t) ==
  IF t = "L" THEN op' = "write" /\ UNCHANGED runq
  ELSE runq' = Append(runq, [task |-> "arm", by |-> "W"]) /\ UNCHANGED op

\* HTTPServerConnection::writeResponse() and writeResponseBody().
writeResponse(t, p, data) ==
  /\ doing[t] = p /\ mutex_ = "free"
  /\ IF state_ # "DONE"
     THEN Raise(t) /\ UNCHANGED <<write_buf, onWritten, onError, op, runq>>
     ELSE /\ write_buf' = write_buf \o data
          /\ onWritten' = "stream" /\ onError' = "stream"
          /\ IF closed THEN Raise(t) /\ UNCHANGED <<op, runq>>
             ELSE UNCHANGED workVars /\ awaitWrite(t) /\ Resume(t)
  /\ UNCHANGED <<service, mutex_, lk, parserVars, closed, refs, sent, streamVars,
                 readVars, failed>>

writeResponseBody(t) == writeResponse(t, "writeBody", out)

\* finishResponse() of the connection, called with the stream's mutex held.
\* Off the loop's thread close() waits in cancelFD() for the loop, with the
\* connection's mutex held as well.
finishResponse(t) ==
  /\ doing[t] = "finish" /\ mutex_ = "free"
  /\ IF closed
     THEN Raise(t) /\ lk' = "free" /\ UNCHANGED <<closed, op, runq, refs, mutex_>>
     ELSE /\ closed' = TRUE /\ UNCHANGED workVars
          /\ IF t = "L"
             THEN /\ op' = "none" /\ refs' = refs \ {"start"} /\ lk' = "free"
                  /\ Resume(t) /\ UNCHANGED <<runq, mutex_>>
             ELSE /\ runq' = Append(runq, [task |-> "cancel", by |-> "W"])
                  /\ mutex_' = "W" /\ Go("W", "cancelFD")
                  /\ UNCHANGED <<op, refs, lk>>
  /\ UNCHANGED <<service, parserVars, onError, onWritten, write_buf, sent,
                 streamVars, readVars, failed>>

cancelFDReturns ==
  /\ doing["W"] = "cancelled"
  /\ mutex_' = "free" /\ lk' = "free" /\ refs' = refs \ {"start"}
  /\ UNCHANGED workVars /\ Resume("W")
  /\ UNCHANGED <<service, parserVars, onError, onWritten, write_buf, closed,
                 sent, op, runq, streamVars, readVars, failed>>

-----------------------------------------------------------------------------
(* The worker: the service and the calls it makes on its streams.          *)

workerOnly == <<service, mutex_, parserVars, onError, onWritten, write_buf,
                closed, sent, op, failed>>

\* HTTPServiceHandler::dispatchRequest(): the runnable makes the streams.  On a
\* connection that was freed before it ran the outcome is undefined: no step.
dispatchRequest ==
  /\ doing["W"] = "start" /\ refs # {}
  /\ refs' = refs \cup {"req", "res"} /\ srefs' = 1
  /\ Go("W", "run")
  /\ UNCHANGED <<workerOnly, lk, runq, callback_running, headers_written,
                 response_finished, error, buf, out, given, readVars, workVars>>

\* readBody(): readRequestBody() installs the callback and unlocks ...
readBody ==
  /\ doing["W"] = "run" /\ service = "streaming" /\ bodyCb = "buffer"
  /\ ~headers_written /\ mutex_ = "free"
  /\ bodyCb' = "deliver" /\ onError' = "req" /\ Go("W", "installed")
  /\ UNCHANGED <<service, mutex_, lk, state_, expected, got, body_buf, onWritten,
                 write_buf, closed, refs, sent, op, runq, streamVars, readVars,
                 workVars, failed>>

\* Mutant: the buffered bytes stay in body_buf_.
readBuffered_keeps ==
  /\ doing["W"] = "installed" /\ mutex_ = "free"
  /\ runq' = Append(runq, [Chunk(body_buf, state_ = "DONE") EXCEPT !.by = "W"])
  /\ Go("W", "waitForFirstWakeup")
  /\ UNCHANGED <<service, mutex_, lk, parserVars, connVars, sent, op, streamVars,
                 readVars, workVars, failed>>

\* ... and then delivers what was buffered.
readBuffered ==
  /\ doing["W"] = "installed" /\ mutex_ = "free"
  /\ runq' = IF state_ = "DONE" \/ body_buf > 0
             THEN Append(runq, [Chunk(body_buf, state_ = "DONE") EXCEPT !.by = "W"])
             ELSE runq
  /\ body_buf' = 0 /\ Go("W", "waitForFirstWakeup")
  /\ UNCHANGED <<service, mutex_, lk, state_, expected, got, bodyCb, connVars,
                 sent, op, streamVars, readVars, workVars, failed>>

readBodyReturns ==
  /\ doing["W"] = "waitForFirstWakeup" /\ woken
  /\ IF reqError THEN Raise("W") /\ UNCHANGED bodyRead
     ELSE bodyRead' = TRUE /\ Go("W", "run") /\ UNCHANGED workVars
  /\ UNCHANGED <<workerOnly, lk, refs, runq, streamVars, delivered, woken,
                 reqError>>

\* Mutant: the head is not counted as an outstanding write.
startResponse_untracked(next) ==
  /\ todo' = next
  /\ lk = "free" /\ ~headers_written /\ ~error
  /\ headers_written' = TRUE /\ UNCHANGED callback_running
  /\ srefs' = srefs + 1 /\ Go("W", "writeHead")
  /\ UNCHANGED <<workerOnly, lk, refs, runq, response_finished, error, buf, out,
                 given, readVars, catching>>

\* startResponse(), alone or as the first half of writeResponse().
startResponse(next) ==
  /\ todo' = next
  /\ lk = "free"
  /\ IF headers_written \/ error
     THEN /\ Go("W", IF catching THEN "leave" ELSE "catch")
          /\ UNCHANGED <<headers_written, callback_running, srefs>>
     ELSE /\ headers_written' = TRUE /\ callback_running' = TRUE
          /\ srefs' = srefs + 1 /\ Go("W", "writeHead")
  /\ UNCHANGED <<workerOnly, lk, refs, runq, response_finished, error, buf, out,
                 given, readVars, catching>>

writeBodyChunk ==
  /\ doing["W"] = "run" /\ service = "streaming" /\ headers_written
  /\ given < MaxResponseBody /\ lk = "free"
  /\ todo' = "run" /\ UNCHANGED catching
  /\ IF error
     THEN /\ Go("W", "catch")
          /\ UNCHANGED <<callback_running, buf, out, srefs, lk, given>>
     ELSE /\ given' = given + 1
          /\ onStateChanged("W", callback_running, Append(buf, given + 1), FALSE)
  /\ UNCHANGED <<workerOnly, refs, runq, headers_written, response_finished,
                 error, readVars>>

\* Mutant: finishing leaves the rest to the next write callback.
finishStream_lazy ==
  /\ lk = "free" /\ todo' = "leave" /\ UNCHANGED catching
  /\ response_finished' = TRUE /\ Go("W", "leave")
  /\ UNCHANGED <<workerOnly, lk, refs, runq, callback_running, headers_written,
                 error, buf, out, srefs, given, readVars>>

\* HTTPResponseStream::finishResponse().
finishStream ==
  /\ lk = "free"
  /\ todo' = "leave" /\ UNCHANGED catching
  /\ IF response_finished
     THEN /\ Go("W", "leave")
          /\ UNCHANGED <<callback_running, response_finished, buf, out, srefs, lk>>
     ELSE IF error
     THEN /\ Go("W", IF catching THEN "leave" ELSE "catch")
          /\ UNCHANGED <<callback_running, response_finished, buf, out, srefs, lk>>
     ELSE /\ response_finished' = TRUE
          /\ onStateChanged("W", callback_running, buf, TRUE)
  /\ UNCHANGED <<workerOnly, refs, runq, headers_written, error, given, readVars>>

\* waitForReader(): backpressure.  A notified writer looks again before it goes
\* on with its service.
waitForReader ==
  /\ doing["W"] = "run" /\ service = "streaming" /\ headers_written /\ lk = "free"
  /\ \/ error /\ Go("W", "catch")
     \/ ~error /\ Len(buf) > kMaxWriteBufferSize /\ Go("W", "cvWait")
  /\ UNCHANGED <<workerOnly, lk, refs, runq, streamVars, readVars, workVars>>

\* The service throws: the handler's catch block.
throws ==
  /\ doing["W"] = "run" /\ Go("W", "catch")
  /\ UNCHANGED <<workerOnly, lk, refs, runq, streamVars, readVars, workVars>>

\* The catch block finishes a started response, or answers 500.
catches ==
  /\ doing["W"] = "catch" /\ lk = "free"
  /\ catching' = TRUE /\ todo' = "run"
  /\ Go("W", IF headers_written THEN "finishStream" ELSE "respond")
  /\ UNCHANGED <<workerOnly, lk, refs, runq, streamVars, readVars>>

\* The service ends, and with it its references to both streams.
leaves ==
  /\ doing["W"] = "leave"
  /\ DecRef({"req"}) /\ Go("W", "gone")
  /\ UNCHANGED <<workerOnly, lk, runq, callback_running, headers_written,
                 response_finished, error, buf, out, given, readVars, workVars>>

serviceStarts ==
  /\ doing["W"] = "run" /\ service = "streaming" /\ ~headers_written
  /\ startResponse("run")

serviceResponds ==
  /\ \/ doing["W"] = "respond"
     \/ doing["W"] = "run" /\ ~headers_written
  /\ startResponse("finishStream")

serviceFinishes ==
  /\ \/ doing["W"] = "finishStream"
     \/ doing["W"] = "run" /\ service = "streaming" /\ headers_written
  /\ finishStream

writeHead == writeResponse("W", "writeHead", <<0>>)

-----------------------------------------------------------------------------

Loop ==
  \/ \E n \in 0..MaxRequestBody : \E k \in 0..n : readHeaders(n, k)
  \/ \E k \in 1..MaxRequestBody : readMore(k)
  \/ readFails \/ close \/ runChunk \/ runTask
  \/ \E k \in 1..Len(write_buf) : write(k)
  \/ writeFails \/ onCallbackError \/ onCallbackCompleted \/ decRef
  \/ writeResponseBody("L") \/ finishResponse("L")

Work ==
  \/ dispatchRequest \/ readBody \/ readBuffered \/ readBodyReturns
  \/ serviceStarts \/ serviceResponds \/ serviceFinishes \/ writeBodyChunk
  \/ waitForReader \/ throws \/ catches \/ leaves \/ writeHead
  \/ writeResponseBody("W") \/ finishResponse("W") \/ cancelFDReturns

ServerNext == Loop \/ Work

\* The loop keeps polling, the worker keeps running, and a client reads its
\* response or goes away.
ServerSpec ==
  ServerInit /\ [][ServerNext]_serverVars /\ WF_serverVars(Loop) /\ WF_serverVars(Work)

-----------------------------------------------------------------------------
(* Properties.                                                             *)

\* No RAISE escapes into the event loop: close() is never called twice and no
\* callback writes to a connection that was closed meanwhile.
LoopSurvives == doing["L"] # "dead"

\* close() waits for the loop with both mutexes held (the stream's by
\* finishResponse(), the connection's by close()): the loop is never itself in
\* a callback that needs one of them.
NoLockCycle == doing["W"] = "cancelFD" => doing["L"] \in {"idle", "decRef"}

\* The client receives the head and the chunks in the order the service wrote
\* them, and a response that is finished without a client error is closed only
\* after all of it was sent, whichever thread finishes it.
ResponseComplete ==
  /\ \A i \in DOMAIN sent : sent[i] = i - 1
  /\ (closed /\ ~failed /\ service # "none") => sent = [i \in 1..(given + 1) |-> i - 1]

\* readBody() returns without an error only when every byte of the body was
\* delivered, each once, however the loop's chunks and the buffered ones
\* interleave with the installation of the callback.
BodyComplete ==
  /\ delivered <= got
  /\ bodyRead => delivered = expected

\* No exception escapes into the event loop, and no thread waits for the loop with a
\* mutex the loop needs.
ServerSafe == LoopSurvives /\ NoLockCycle

\* A service reads the whole body of its request, each byte once, and its client
\* receives the whole response in order before the connection is closed.
ServerComplete == BodyComplete /\ ResponseComplete

\* A response that was started on a complete request and finished ends in a
\* closed connection.
ResponseEnds == []<>(response_finished /\ onWritten = "stream" => closed)

\* A writer waiting for the reader goes on, also when the client goes away.
WaitForReaderReturns == []<>(doing["W"] # "cvWait")

\* The connection "will free itself once it is closed": when both threads are
\* done with a closed connection, nobody holds a reference to it.
FreesItself ==
  (closed /\ doing["L"] = "idle" /\ doing["W"] \in {"absent", "gone"} /\ runq = <<>>)
    => refs = {}
=============================================================================
