---------------------------- MODULE RelaySession ----------------------------
(***************************************************************************)
(* One call of relay.Serve: the goroutines that serve a single WebSocket   *)
(* session with the EduKod gateway.  They are                              *)
(*                                                                         *)
(*   - Serve itself, which says hello, starts the others, waits for a      *)
(*     reason to stop and then tears the session down in order;            *)
(*   - the read loop, which admits, refuses and cancels requests;          *)
(*   - a pool of workers, which forward admitted requests to the local     *)
(*     model API and answer them;                                          *)
(*   - the heartbeat.                                                      *)
(*                                                                         *)
(* They share the jobs channel, the cancellations map (every access is     *)
(* one critical section under requestsMu, hence one step), the session     *)
(* context serveCtx, two error channels of capacity one, and the           *)
(* connection.  A request message is a member of Requests; two of them may *)
(* carry the same id, as a gateway that reuses ids sends them.             *)
(***************************************************************************)
EXTENDS Naturals, Sequences, FiniteSets

CONSTANTS
    Requests,   \* the request messages the gateway may send in this session
    Ids,        \* the request ids they carry
    IdOf,       \* IdOf[r] is the id of request r
    Malformed,  \* the requests ValidateRequest refuses at any time
    Padded,     \* the requests with spaces around the method: ValidateRequest
                \* trims them away, http.NewRequest refuses the method
    Deadlined,  \* the requests that carry an explicit deadline_unix_ms
    Replayable, \* the GET requests, which net/http replays on a stale connection
    MaxAttempts, \* bound: how often net/http writes one of those
    Workers,    \* the worker goroutines: Options.Concurrency of them
    QueueSize,  \* Options.QueueSize, the capacity of the jobs channel
    None        \* stands for "no request"

ASSUME RelayAssumption ==
    /\ IdOf \in [Requests -> Ids]
    /\ Malformed \subseteq Requests
    /\ Padded \subseteq Requests
    /\ Deadlined \subseteq Requests
    /\ Replayable \subseteq Requests
    /\ MaxAttempts \in Nat
    /\ Workers # {} /\ IsFiniteSet(Workers)
    /\ QueueSize \in Nat \ {0}
    /\ None \notin Requests

VARIABLES
    serve,         \* control point of Serve
    result,        \* which error Serve returns
    readerAt,      \* control point of the read loop
    readerReq,     \* the request the read loop is handling
    readerCode,    \* the refusal it is about to send
    workerAt,      \* control point of each worker
    workerJob,     \* the request each worker is handling
    workerCode,    \* the outcome each worker is about to send
    written,       \* the workers in whose Forward call requestWritePhase # 0
    heartbeat,     \* control point of the heartbeat goroutine
    jobs,          \* contents of the jobs channel
    jobsClosed,    \* has close(jobs) been called?
    cancellations, \* the map from active ids to cancel functions
    ctx,           \* state of each request's context
    late,          \* the requests whose own deadline has passed
    stopped,       \* has stop(), the cancel function of serveCtx, been called?
    interrupted,   \* has the caller cancelled its own context?
    readErrors,    \* does the readErrors channel hold an error?
    writeErrors,   \* does the writeErrors channel hold an error?
    connection,    \* is the connection open?
    unread,        \* the requests the gateway has not sent yet
    responses,     \* history: number of responses written for each request
    calls          \* history: times each request was written to the model

serveVars   == <<serve, result, jobsClosed>>
readerVars  == <<readerAt, readerReq, readerCode, unread>>
workerVars  == <<workerAt, workerJob, workerCode, written, calls>>
ctxVars     == <<ctx, late>>
stopVars    == <<stopped, interrupted>>
errorVars   == <<readErrors, writeErrors>>
notReading  == <<serveVars, workerVars, heartbeat>>
notWorking  == <<serveVars, readerVars, heartbeat>>
queueVars   == <<jobs, cancellations>>
lineVars    == <<stopVars, errorVars, connection, responses>>
vars == <<serveVars, readerVars, workerVars, heartbeat, jobs, cancellations,
          ctxVars, stopVars, errorVars, connection, responses>>

ErrorCodes == {"canceled", "local_predispatch_unavailable", "timeout",
               "local_invalid_response", "local_unavailable"}
RefusalCodes == {"bad_request", "duplicate_request", "busy"}

\* The control points at which a worker has a request in its hands.
Handling == {"forward", "connect", "write", "await", "settle", "answer"}

FlagsOK ==
    /\ jobsClosed \in BOOLEAN
    /\ stopped \in BOOLEAN
    /\ interrupted \in BOOLEAN
    /\ readErrors \in BOOLEAN
    /\ writeErrors \in BOOLEAN

\* The type invariant.  It includes that the read loop and the workers hold a
\* request exactly at the control points where the code has one in scope: a
\* cancel function is looked up and not called when there is none, and a worker
\* never runs on the zero job of a closed channel.
TypeOK ==
    /\ serve \in {"hello", "serving", "closing", "joining", "draining", "returned"}
    /\ result \in {"none", "canceled", "read", "write"}
    /\ readerAt \in {"unborn", "poll", "read", "register", "offer", "refuse",
                     "cancel", "done"}
    /\ readerReq \in Requests \cup {None}
    /\ readerCode \in RefusalCodes \cup {"none"}
    /\ workerAt \in [Workers -> {"unborn", "idle", "forward", "connect", "write",
                                 "await", "settle", "answer", "exited"}]
    /\ workerJob \in [Workers -> Requests \cup {None}]
    /\ workerCode \in [Workers -> {"ok", "none"} \cup ErrorCodes]
    /\ written \subseteq Workers
    /\ heartbeat \in {"unborn", "ticking", "done"}
    /\ jobs \in Seq(Requests)
    /\ cancellations \in [Ids -> Requests \cup {None}]
    /\ ctx \in [Requests -> {"none", "live", "canceled", "expired"}]
    /\ late \subseteq Requests
    /\ FlagsOK
    /\ connection \in {"open", "closed"}
    /\ unread \subseteq Requests
    /\ responses \in [Requests -> Nat]
    /\ calls \in [Requests -> Nat]
    /\ readerReq # None <=> readerAt \in {"register", "offer", "refuse", "cancel"}
    /\ \A w \in Workers : workerJob[w] # None <=> workerAt[w] \in Handling

Init ==
    /\ serve = "hello"
    /\ result = "none"
    /\ readerAt = "unborn"
    /\ readerReq = None
    /\ readerCode = "none"
    /\ workerAt = [w \in Workers |-> "unborn"]
    /\ workerJob = [w \in Workers |-> None]
    /\ workerCode = [w \in Workers |-> "none"]
    /\ written = {}
    /\ heartbeat = "unborn"
    /\ jobs = <<>>
    /\ cancellations = [id \in Ids |-> None]
    /\ ctx = [r \in Requests |-> "none"]
    /\ late = {}
    /\ jobsClosed = FALSE
    /\ stopped = FALSE
    /\ interrupted = FALSE
    /\ readErrors = FALSE
    /\ writeErrors = FALSE
    /\ connection = "open"
    /\ unread = Requests
    /\ responses = [r \in Requests |-> 0]
    /\ calls = [r \in Requests |-> 0]

-----------------------------------------------------------------------------
(***************************************************************************)
(* Contexts and the write closure                                          *)
(***************************************************************************)

\* serveCtx.Done() is ready: stop() was called, or the caller's context,
\* serveCtx's parent, is done.
SessionDone == stopped \/ interrupted

\* The error of a request's context.  It is a child of serveCtx, so the end of
\* the session cancels it, unless its own end came first.
CtxErr(r) == IF ctx[r] = "live" /\ SessionDone THEN "canceled" ELSE ctx[r]

\* cancel() on a request the session is done with.  Nobody looks at the error of
\* its context after that, so it does not matter if it had ended before.
Release(r) == ctx' = [ctx EXCEPT ![r] = "canceled"]

\* Mutant: a failed write ends the session and is not reported.
FailWriteSilently ==
    /\ stopped' = TRUE
    /\ UNCHANGED writeErrors

\* A failed write: the error goes to writeErrors unless one is there already,
\* and the session is stopped.
FailWrite ==
    /\ writeErrors' = TRUE
    /\ stopped' = TRUE

\* The closure write(...) on a response for r: either the frame is written, or
\* the write fails, which it does always once the connection is closed.
Respond(r) ==
    \/ /\ connection = "open"
       /\ responses' = [responses EXCEPT ![r] = @ + 1]
       /\ UNCHANGED <<writeErrors, stopped>>
    \/ /\ FailWrite
       /\ UNCHANGED responses

-----------------------------------------------------------------------------
(***************************************************************************)
(* Where a request is                                                      *)
(***************************************************************************)

Queued(r) == \E i \in DOMAIN jobs : jobs[i] = r

\* Some worker has the request and has not yet taken it out of the map.
InForward(r) ==
    \E w \in Workers : workerJob[w] = r /\ workerAt[w] \in Handling \ {"answer"}

\* The request was registered and is still in the hands of the session.
Active(r) ==
    \/ Queued(r)
    \/ InForward(r)
    \/ readerAt = "offer" /\ readerReq = r

\* The request was handed to the workers and has no response yet.
Accepted(r) == Queued(r) \/ \E w \in Workers : workerJob[w] = r

-----------------------------------------------------------------------------
(***************************************************************************)
(* The read loop                                                           *)
(***************************************************************************)

\* The select at the top of the loop.
PollRead ==
    /\ readerAt = "poll"
    /\ readerAt' = IF SessionDone THEN "done" ELSE "read"
    /\ UNCHANGED <<notReading, readerReq, readerCode, unread, queueVars, ctxVars,
                   lineVars>>

\* ReadMessage fails, or returns a message the loop treats as fatal: too
\* large, not JSON, of an unknown type, or an invalid cancel or ping.
ReadFails ==
    /\ readerAt = "read"
    /\ readErrors' = TRUE
    /\ readerAt' = "done"
    /\ UNCHANGED <<notReading, readerReq, readerCode, unread, queueVars, ctxVars,
                   stopVars, writeErrors, connection, responses>>

\* protocol.ValidateRequest at the present time.
Valid(r) == r \notin Malformed /\ r \notin late

\* Mutant: nobody looks for an active request with the same id.
VerdictWithoutLookup(r) == IF ~Valid(r) THEN "bad_request" ELSE "none"

\* What the read loop decides for r from ValidateRequest and the first look at
\* the cancellations map.
Verdict(r) ==
    IF ~Valid(r) THEN "bad_request"
    ELSE IF cancellations[IdOf[r]] # None THEN "duplicate_request"
    ELSE "none"

\* A read that was under way when the connection was closed may still return
\* what had been buffered, so this does not ask for an open connection.
ReadRequest(r) ==
    /\ readerAt = "read"
    /\ r \in unread
    /\ unread' = unread \ {r}
    /\ readerReq' = r
    /\ readerCode' = Verdict(r)
    /\ readerAt' = IF Verdict(r) = "none" THEN "register" ELSE "refuse"
    /\ UNCHANGED <<notReading, queueVars, ctxVars, lineVars>>

\* context.WithDeadline(serveCtx, deadline) and the insertion in the map.
Register ==
    /\ readerAt = "register"
    /\ ctx' = [ctx EXCEPT ![readerReq] =
                  IF readerReq \in late /\ ~SessionDone THEN "expired" ELSE "live"]
    /\ cancellations' = [cancellations EXCEPT ![IdOf[readerReq]] = readerReq]
    /\ readerAt' = "offer"
    /\ UNCHANGED <<notReading, readerReq, readerCode, unread, jobs, late, lineVars>>

\* Mutant: the queue takes one request more.
QueueHasRoomForMore == Len(jobs) <= QueueSize

\* The jobs channel takes another request without blocking.
QueueHasRoom == Len(jobs) < QueueSize

\* Mutant: the entry stays.
ForgetNothing(r) == UNCHANGED cancellations

\* delete(cancellations, id) under the lock.
Forget(r) == cancellations' = [cancellations EXCEPT ![IdOf[r]] = None]

\* The three cases of the select that hands the request to the workers.  Go
\* takes any ready case, and the default one only when no other is ready.
Enqueue ==
    /\ readerAt = "offer"
    /\ QueueHasRoom
    /\ jobs' = Append(jobs, readerReq)
    /\ readerAt' = "poll"
    /\ readerReq' = None
    /\ UNCHANGED <<notReading, readerCode, unread, cancellations, ctxVars, lineVars>>

AbortOffer ==
    /\ readerAt = "offer"
    /\ SessionDone
    /\ Release(readerReq)
    /\ readerAt' = "done"
    /\ readerReq' = None
    /\ UNCHANGED <<notReading, readerCode, unread, queueVars, late, lineVars>>

Overflow ==
    /\ readerAt = "offer"
    /\ ~QueueHasRoom
    /\ ~SessionDone
    /\ Forget(readerReq)
    /\ Release(readerReq)
    /\ readerCode' = "busy"
    /\ readerAt' = "refuse"
    /\ UNCHANGED <<notReading, readerReq, unread, jobs, late, lineVars>>

\* Mutant: a missing "continue" after the refusal.
RefuseAndGoOn ==
    /\ readerAt = "refuse"
    /\ Respond(readerReq)
    /\ readerAt' = "register"
    /\ readerCode' = "none"
    /\ UNCHANGED <<notReading, readerReq, unread, queueVars, ctxVars, interrupted,
                   readErrors, connection>>

\* The error response for a request that was not admitted; the loop goes on
\* whether or not it could be written.
Refuse ==
    /\ readerAt = "refuse"
    /\ Respond(readerReq)
    /\ readerAt' = "poll"
    /\ readerReq' = None
    /\ readerCode' = "none"
    /\ UNCHANGED <<notReading, unread, queueVars, ctxVars, interrupted, readErrors,
                   connection>>

\* Mutant: the result of the lookup is called without looking at it.
ReadCancelUnchecked(id) ==
    /\ readerAt = "read"
    /\ readerReq' = cancellations[id]
    /\ readerAt' = "cancel"
    /\ UNCHANGED <<notReading, readerCode, unread, queueVars, ctxVars, lineVars>>

\* A cancel message: the cancel function is read from the map under the lock...
ReadCancel(id) ==
    /\ readerAt = "read"
    /\ readerReq' = cancellations[id]
    /\ readerAt' = IF cancellations[id] = None THEN "poll" ELSE "cancel"
    /\ UNCHANGED <<notReading, readerCode, unread, queueVars, ctxVars, lineVars>>

\* ... and called after it is released, by which time the request may be done.
CallCancel ==
    /\ readerAt = "cancel"
    /\ ctx' = [ctx EXCEPT ![readerReq] =
                  IF CtxErr(readerReq) = "live" THEN "canceled" ELSE @]
    /\ readerAt' = "poll"
    /\ readerReq' = None
    /\ UNCHANGED <<notReading, readerCode, unread, queueVars, late, lineVars>>

\* A protocol ping and its pong.  Nothing depends on the pong itself.
AnswerPing ==
    /\ readerAt = "read"
    /\ FailWrite \/ UNCHANGED <<writeErrors, stopped>>
    /\ readerAt' = "poll"
    /\ UNCHANGED <<notReading, readerReq, readerCode, unread, queueVars, ctxVars,
                   interrupted, readErrors, connection, responses>>

-----------------------------------------------------------------------------
(***************************************************************************)
(* The workers: for work := range jobs                                     *)
(***************************************************************************)

Take(w) ==
    /\ workerAt[w] = "idle"
    /\ jobs # <<>>
    /\ workerJob' = [workerJob EXCEPT ![w] = Head(jobs)]
    /\ jobs' = Tail(jobs)
    /\ workerAt' = [workerAt EXCEPT ![w] = "forward"]
    /\ UNCHANGED <<notWorking, workerCode, written, calls, cancellations, ctxVars,
                   lineVars>>

Exit(w) ==
    /\ workerAt[w] = "idle"
    /\ jobsClosed
    /\ jobs = <<>>
    /\ workerAt' = [workerAt EXCEPT ![w] = "exited"]
    /\ UNCHANGED <<notWorking, workerJob, workerCode, written, calls, queueVars, ctxVars,
                   lineVars>>

\* Mutant: an error that carries no phase counts as one before dispatch.
ErrorCodeWithoutPhase(cause, phase) ==
    IF cause = "canceled" THEN "canceled"
    ELSE IF phase # "written" THEN "local_predispatch_unavailable"
    ELSE IF cause = "expired" THEN "timeout"
    ELSE "local_unavailable"

\* execute's translation of a Forward error.  cause is what errors.Is and the
\* text of the error tell; phase is "written" or "unwritten" when the error is
\* a localapi.TransportError, and "unknown" when it carries no phase.
ErrorCode(cause, phase) ==
    IF cause = "canceled" THEN "canceled"
    ELSE IF phase = "unwritten" THEN "local_predispatch_unavailable"
    ELSE IF cause = "expired" THEN "timeout"
    ELSE IF cause = "invalid" THEN "local_invalid_response"
    ELSE "local_unavailable"

\* Forward returns to execute, which sets the code of the response.
Settle(w, code) ==
    /\ workerAt' = [workerAt EXCEPT ![w] = "settle"]
    /\ workerCode' = [workerCode EXCEPT ![w] = code]

forwardUnchanged == <<notWorking, workerJob, queueVars, ctxVars, lineVars>>

\* Forward validates the request a second time, at the time it starts, and
\* makes an HTTP request of it.  The error of either step is a plain one.
BeginForward(w) ==
    /\ workerAt[w] = "forward"
    /\ IF Valid(workerJob[w]) /\ workerJob[w] \notin Padded
         THEN /\ workerAt' = [workerAt EXCEPT ![w] = "connect"]
              /\ UNCHANGED workerCode
         ELSE Settle(w, ErrorCode("other", "unknown"))
    /\ written' = written \ {w}
    /\ UNCHANGED <<forwardUnchanged, calls>>

\* Mutant: the HTTP request is made without the context of the request.
ConnectDetached(w) ==
    /\ workerAt[w] = "connect"
    /\ workerAt' = [workerAt EXCEPT ![w] = "write"]
    /\ UNCHANGED <<forwardUnchanged, workerCode, written, calls>>

\* net/http looks at the context and gets a connection to the model API.
Connect(w) ==
    /\ workerAt[w] = "connect"
    /\ CtxErr(workerJob[w]) = "live"
    /\ workerAt' = [workerAt EXCEPT ![w] = "write"]
    /\ UNCHANGED <<forwardUnchanged, workerCode, written, calls>>

\* net/http writes the request, wholly or in part, and the WroteRequest
\* callback sets requestWritePhase.
WriteRequest(w) ==
    /\ workerAt[w] = "write"
    /\ calls' = [calls EXCEPT ![workerJob[w]] = @ + 1]
    /\ written' = written \cup {w}
    /\ workerAt' = [workerAt EXCEPT ![w] = "await"]
    /\ UNCHANGED <<forwardUnchanged, workerCode>>

\* The phase of the TransportError that Forward makes of an error.
Phase(w) == IF w \in written THEN "written" ELSE "unwritten"

\* Nothing of the request gets out.  The callback runs all the same; on a
\* kept-alive connection net/http then tries once more on another one.
WriteFails(w) ==
    /\ workerAt[w] = "write"
    /\ written' = written \cup {w}
    /\ \/ workerAt' = [workerAt EXCEPT ![w] = "connect"] /\ UNCHANGED workerCode
       \/ Settle(w, ErrorCode("other", "written"))
    /\ UNCHANGED <<forwardUnchanged, calls>>

\* Mutant: every request is marked as idempotent.
ReplayAny(w) ==
    /\ workerAt[w] = "await"
    /\ calls[workerJob[w]] < MaxAttempts
    /\ workerAt' = [workerAt EXCEPT ![w] = "connect"]
    /\ UNCHANGED <<forwardUnchanged, workerCode, written, calls>>

\* The model API closes a kept-alive connection without an answer: net/http
\* writes a GET again, and no other request.
Replay(w) ==
    /\ workerAt[w] = "await"
    /\ workerJob[w] \in Replayable
    /\ calls[workerJob[w]] < MaxAttempts
    /\ workerAt' = [workerAt EXCEPT ![w] = "connect"]
    /\ UNCHANGED <<forwardUnchanged, workerCode, written, calls>>

\* The request's context ends while net/http is at work.
Abandon(w) ==
    /\ workerAt[w] \in {"connect", "write", "await"}
    /\ CtxErr(workerJob[w]) # "live"
    /\ Settle(w, ErrorCode(CtxErr(workerJob[w]), Phase(w)))
    /\ UNCHANGED <<forwardUnchanged, written, calls>>

\* The model API refuses the connection or breaks it off.
TransportFails(w) ==
    /\ workerAt[w] \in {"connect", "await"}
    /\ Settle(w, ErrorCode("other", Phase(w)))
    /\ UNCHANGED <<forwardUnchanged, written, calls>>

\* The model API answers: with a body to relay, or with one that is not JSON
\* or too large.
ModelAnswers(w) ==
    /\ workerAt[w] = "await"
    /\ \/ Settle(w, "ok")
       \/ Settle(w, ErrorCode("invalid", "unknown"))
    /\ UNCHANGED <<forwardUnchanged, written, calls>>

\* delete(cancellations, work.request.ID) under the lock.
Unregister(w) ==
    /\ workerAt[w] = "settle"
    /\ Forget(workerJob[w])
    /\ workerAt' = [workerAt EXCEPT ![w] = "answer"]
    /\ UNCHANGED <<notWorking, workerJob, workerCode, written, calls, jobs, ctxVars,
                   lineVars>>

\* write(response); work.cancel().
Answer(w) ==
    /\ workerAt[w] = "answer"
    /\ Respond(workerJob[w])
    /\ Release(workerJob[w])
    /\ workerAt' = [workerAt EXCEPT ![w] = "idle"]
    /\ workerJob' = [workerJob EXCEPT ![w] = None]
    /\ workerCode' = [workerCode EXCEPT ![w] = "none"]
    /\ UNCHANGED <<notWorking, written, calls, queueVars, late, interrupted, readErrors,
                   connection>>

-----------------------------------------------------------------------------
(***************************************************************************)
(* The heartbeat                                                           *)
(***************************************************************************)

\* A ping that could be written changes nothing modelled here; the goroutine
\* ends with the session, or ends it when a ping cannot be written.
StopHeartbeat ==
    /\ heartbeat = "ticking"
    /\ SessionDone
    /\ heartbeat' = "done"
    /\ UNCHANGED <<serveVars, readerVars, workerVars, queueVars, ctxVars, lineVars>>

HeartbeatFails ==
    /\ heartbeat = "ticking"
    /\ FailWrite
    /\ heartbeat' = "done"
    /\ UNCHANGED <<serveVars, readerVars, workerVars, queueVars, ctxVars, interrupted,
                   readErrors, connection, responses>>

-----------------------------------------------------------------------------
(***************************************************************************)
(* Serve itself                                                            *)
(***************************************************************************)

\* The hello is written and every goroutine is started.
Hello ==
    /\ serve = "hello"
    /\ serve' = "serving"
    /\ readerAt' = "poll"
    /\ workerAt' = [w \in Workers |-> "idle"]
    /\ heartbeat' = "ticking"
    /\ UNCHANGED <<result, jobsClosed, readerReq, readerCode, unread, workerJob,
                   workerCode, written, calls, queueVars, ctxVars, lineVars>>

\* The hello cannot be written: the deferred stop() and Close() run.
HelloFails ==
    /\ serve = "hello"
    /\ serve' = "returned"
    /\ result' = "write"
    /\ stopped' = TRUE
    /\ connection' = "closed"
    /\ UNCHANGED <<jobsClosed, readerVars, workerVars, heartbeat, queueVars, ctxVars,
                   interrupted, errorVars, responses>>

\* The select that waits for a reason to stop, and the stop() after it.  When
\* several cases are ready Go takes any of them.
Wake ==
    /\ serve = "serving"
    /\ \/ SessionDone /\ result' = "canceled" /\ UNCHANGED errorVars
       \/ readErrors /\ result' = "read" /\ readErrors' = FALSE
                     /\ UNCHANGED writeErrors
       \/ writeErrors /\ result' = "write" /\ writeErrors' = FALSE
                      /\ UNCHANGED readErrors
    /\ stopped' = TRUE
    /\ serve' = "closing"
    /\ UNCHANGED <<jobsClosed, readerVars, workerVars, heartbeat, queueVars, ctxVars,
                   interrupted, connection, responses>>

\* Mutant: the connection stays open while Serve waits for the read loop.
CloseLater ==
    /\ serve = "closing"
    /\ serve' = "joining"
    /\ UNCHANGED <<result, jobsClosed, readerVars, workerVars, heartbeat, queueVars,
                   ctxVars, lineVars>>

\* connection.Close().
Close ==
    /\ serve = "closing"
    /\ connection' = "closed"
    /\ serve' = "joining"
    /\ UNCHANGED <<result, jobsClosed, readerVars, workerVars, heartbeat, queueVars,
                   ctxVars, stopVars, errorVars, responses>>

\* Mutant: Serve does not wait for the read loop.
ReadDoneAssumed == TRUE

\* <-readDone returns.
ReadDone == readerAt = "done"

\* <-readDone; every registered cancel function is called; close(jobs).
Drain ==
    /\ serve = "joining"
    /\ ReadDone
    /\ ctx' = [r \in Requests |->
                  IF cancellations[IdOf[r]] = r /\ ctx[r] = "live"
                  THEN "canceled" ELSE ctx[r]]
    /\ jobsClosed' = TRUE
    /\ serve' = "draining"
    /\ UNCHANGED <<result, readerVars, workerVars, heartbeat, queueVars, late, lineVars>>

\* Mutant: Serve does not wait for the workers.
WorkersAssumedDone == TRUE

\* workers.Wait() returns.
WorkersDone == \A w \in Workers : workerAt[w] = "exited"

\* workers.Wait(); <-heartbeatDone; return result.
Return ==
    /\ serve = "draining"
    /\ WorkersDone
    /\ heartbeat = "done"
    /\ serve' = "returned"
    /\ UNCHANGED <<result, jobsClosed, readerVars, workerVars, heartbeat, queueVars,
                   ctxVars, lineVars>>

-----------------------------------------------------------------------------
(***************************************************************************)
(* The environment                                                         *)
(***************************************************************************)

\* The caller's context ends: SIGINT or SIGTERM.  After stop() it would change
\* nothing.
Interrupt ==
    /\ ~SessionDone
    /\ interrupted' = TRUE
    /\ UNCHANGED <<notReading, readerVars, queueVars, ctxVars, stopped, errorVars,
                   connection, responses>>

\* Mutant: only the deadline that a request carries is set.
ExplicitDeadlineAhead(r) ==
    r \in Deadlined /\ (CtxErr(r) = "live" \/ ctx[r] = "none")

\* Someone still waits for or looks at the deadline of r: its context, whose
\* deadline is the one r carries or the default one, or ValidateRequest, which
\* knows the former only.
DeadlineAhead(r) ==
    \/ CtxErr(r) = "live"
    \/ r \in Deadlined /\ ctx[r] = "none"
    \/ r \in Deadlined /\ Queued(r)
    \/ r \in Deadlined /\ \E w \in Workers : workerJob[w] = r /\ workerAt[w] = "forward"

\* The deadline of r passes.
Expire(r) ==
    /\ r \notin late
    /\ DeadlineAhead(r)
    /\ late' = late \cup ({r} \cap Deadlined)
    /\ ctx' = [ctx EXCEPT ![r] = IF CtxErr(r) = "live" THEN "expired" ELSE @]
    /\ UNCHANGED <<notReading, readerVars, queueVars, lineVars>>

\* Serve has returned; nothing is left to happen.
Finished == serve = "returned" /\ UNCHANGED vars

Reader ==
    \/ PollRead \/ ReadFails \/ Register \/ Enqueue \/ AbortOffer \/ Overflow
    \/ Refuse \/ CallCancel \/ AnswerPing
    \/ \E r \in Requests : ReadRequest(r)
    \/ \E id \in Ids : ReadCancel(id)

Worker(w) ==
    \/ Take(w) \/ Exit(w) \/ BeginForward(w) \/ Connect(w) \/ WriteRequest(w)
    \/ WriteFails(w) \/ Replay(w) \/ Abandon(w) \/ TransportFails(w) \/ ModelAnswers(w)
    \/ Unregister(w) \/ Answer(w)

Heartbeat == StopHeartbeat \/ HeartbeatFails

Main == Hello \/ HelloFails \/ Wake \/ Close \/ Drain \/ Return

Next ==
    \/ Reader
    \/ \E w \in Workers : Worker(w)
    \/ Heartbeat
    \/ Main
    \/ Interrupt
    \/ \E r \in Requests : Expire(r)
    \/ Finished

(***************************************************************************)
(* Fairness: a runnable goroutine eventually runs, a write ends because    *)
(* wsclient gives it a deadline, a read fails once the connection is       *)
(* closed, and time passes.  Nothing is assumed of the gateway, of the     *)
(* caller, or of the model API, which may never connect or answer.         *)
(***************************************************************************)
Fairness ==
    /\ WF_vars(Main)
    /\ WF_vars(\/ PollRead \/ Register \/ Enqueue \/ AbortOffer \/ Overflow
               \/ Refuse \/ CallCancel
               \/ connection = "closed" /\ ReadFails)
    /\ WF_vars(StopHeartbeat)
    /\ \A w \in Workers :
          WF_vars(\/ Take(w) \/ Exit(w) \/ BeginForward(w) \/ Abandon(w)
                  \/ Unregister(w) \/ Answer(w))
    /\ \A r \in Requests : WF_vars(Expire(r))

Spec == Init /\ [][Next]_vars
FairSpec == Spec /\ Fairness

-----------------------------------------------------------------------------
(***************************************************************************)
(* Safety                                                                  *)
(***************************************************************************)

\* The cancellations map leads from the id of every request that is queued or
\* being forwarded to that request.  The read loop's check for a duplicate and
\* the insertion are two critical sections, and a worker deletes by id alone,
\* whoever owns the entry: a lost entry would be a request no cancel message
\* can reach.
CancelReachesActive == \A r \in Requests : Active(r) => cancellations[IdOf[r]] = r

\* The map holds nothing else, so no id stays taken when its request is done.
\* Only the read loop, on its way out, leaves the entry of a request behind.
RegistryHasNoGhosts ==
    readerAt # "done" =>
        \A id \in Ids : cancellations[id] # None => Active(cancellations[id])

\* README: "Request IDs are unique while active".
UniqueWhileActive ==
    \A q, r \in Requests :
        Active(q) /\ Active(r) /\ IdOf[q] = IdOf[r] => q = r

\* README: "returns one response per accepted request".  Never two, whichever
\* of the read loop and the workers answers.
OneResponse == \A r \in Requests : responses[r] <= 1

\* README: "Requests are not replayed after a connection failure".  True of the
\* requests that net/http does not replay by itself.
InferenceNotReplayed == \A r \in Requests \ Replayable : calls[r] <= 1

\* The read loop never sends on the jobs channel once it is closed (it would
\* panic), and by the time it is closed every worker finds only requests whose
\* context is done, so that none of them blocks the shutdown.
NoSendOnClosedQueue ==
    jobsClosed =>
        /\ readerAt = "done"
        /\ \A r \in Requests : Accepted(r) => CtxErr(r) # "live"

\* When Serve returns nothing of the session is left: no goroutine, no queued
\* request and no open connection.  The next session may start.
QuiescentOnReturn ==
    serve = "returned" =>
        /\ readerAt \in {"unborn", "done"}
        /\ \A w \in Workers : workerAt[w] \in {"unborn", "exited"}
        /\ heartbeat \in {"unborn", "done"}
        /\ jobs = <<>>
        /\ connection = "closed"

\* localapi: "Callers may safely retry/fallback only when a local connection
\* failed before that point".  A request reported as not dispatched was never
\* written to the model API, over all the attempts net/http made.
PredispatchNeverCalled ==
    \A w \in Workers :
        workerCode[w] = "local_predispatch_unavailable" => calls[workerJob[w]] = 0

\* Requests beyond the workers and the queue are refused, not held: at most
\* Concurrency + QueueSize requests wait, run or are about to be answered.
BacklogBounded ==
    Cardinality({r \in Requests : Accepted(r)}) <= Cardinality(Workers) + QueueSize

\* Serve reports that it was cancelled only if its caller did cancel it or a
\* write failed: the end of the gateway's stream is never mistaken for it, and
\* app.run would exit quietly only in the first case.
CanceledResultHasCause ==
    serve = "returned" /\ result = "canceled" => interrupted \/ writeErrors

\* The id of a request is free again before its response goes out.  A gateway
\* that reuses an id only after the response never sees duplicate_request.
FreeIdNeverRefused ==
    [][\A r \in Requests :
          ReadRequest(r) /\ readerCode' = "duplicate_request"
             => \E q \in Requests :
                   q # r /\ IdOf[q] = IdOf[r] /\ q \notin unread /\ responses[q] = 0
      ]_vars

\* relay_test: local_unavailable is the code of an ambiguous failure, and
\* local_predispatch_unavailable that of one before dispatch.
LocalUnavailableIsAmbiguous ==
    \A w \in Workers : workerCode[w] = "local_unavailable" => w \in written

-----------------------------------------------------------------------------
(***************************************************************************)
(* Liveness                                                                *)
(***************************************************************************)

\* Every request handed to the workers is answered, even if the model API never
\* answers, unless the session ends first.
AcceptedIsAnswered ==
    \A r \in Requests : Queued(r) ~> (responses[r] > 0 \/ SessionDone)

\* Once a reason to stop is there, Serve returns: nobody waits for anybody.
ShutdownCompletes == (SessionDone \/ readErrors) ~> serve = "returned"
=============================================================================
