--------------------------- MODULE RelayInvariant ---------------------------
(***************************************************************************)
(* The inductive invariant of RelaySession, from which its safety          *)
(* properties follow.  The safety properties are not inductive: whether    *)
(* two requests of one id may become active depends on who has which       *)
(* request and on what the map holds before either of them is.             *)
(***************************************************************************)
EXTENDS RelaySession

\* The read loop has r, which is not in the queue and at no worker.
Held(r) == readerReq = r /\ readerAt \in {"register", "offer", "refuse"}

AtWorker(r) == \E w \in Workers : workerJob[w] = r

\* The goroutines are started together, once the hello is written.
StartOrder ==
    /\ serve = "hello" => readerAt = "unborn"
    /\ readerAt = "unborn" =>
          /\ serve \in {"hello", "returned"}
          /\ heartbeat = "unborn"
          /\ jobs = <<>>
          /\ \A w \in Workers : workerAt[w] = "unborn"
    /\ readerAt # "unborn" =>
          /\ heartbeat # "unborn"
          /\ \A w \in Workers : workerAt[w] # "unborn"

\* The steps of the shutdown and what holds after each.
StopOrder ==
    /\ serve \in {"closing", "joining", "draining", "returned"} => stopped
    /\ serve \in {"joining", "draining", "returned"} => connection = "closed"
    /\ serve = "draining" => jobsClosed
    /\ jobsClosed => readerAt = "done" /\ serve \in {"draining", "returned"}
    /\ \A w \in Workers : workerAt[w] = "exited" => jobsClosed /\ jobs = <<>>
    /\ serve = "returned" /\ readerAt # "unborn" =>
          /\ readerAt = "done"
          /\ jobsClosed
          /\ heartbeat = "done"
          /\ jobs = <<>>
          /\ \A w \in Workers : workerAt[w] = "exited"

\* A request is in one place only, and has no response while it is anywhere.
OnePlace ==
    /\ \A i, j \in DOMAIN jobs : jobs[i] = jobs[j] => i = j
    /\ \A v, w \in Workers : workerJob[v] = workerJob[w] /\ workerJob[v] # None => v = w
    /\ \A r \in Requests :
          /\ Queued(r) => ~AtWorker(r)
          /\ Held(r) => ~Queued(r) /\ ~AtWorker(r)
          /\ r \in unread => ~Queued(r) /\ ~AtWorker(r) /\ ~Held(r)
          /\ r \in unread \/ Held(r) \/ Queued(r) \/ AtWorker(r) => responses[r] = 0
          /\ responses[r] <= 1

\* The cancellations map holds exactly the active requests.
RegistryExact ==
    /\ \A r \in Requests : Active(r) => cancellations[IdOf[r]] = r
    /\ \A id \in Ids :
          cancellations[id] # None =>
              /\ IdOf[cancellations[id]] = id
              /\ cancellations[id] \notin unread
              /\ readerAt # "done" => Active(cancellations[id])
    /\ readerAt = "register" => cancellations[IdOf[readerReq]] = None

\* The queue never holds more than the channel takes.
QueueBounded == Len(jobs) <= QueueSize

\* What the model API has seen of a request, by where the request is, and what
\* the worker that has it remembers of that.
CallsExact ==
    /\ \A r \in Requests : r \in unread \/ Held(r) \/ Queued(r) => calls[r] = 0
    /\ \A w \in Workers :
          /\ workerAt[w] = "forward" => calls[workerJob[w]] = 0
          /\ workerAt[w] \in {"connect", "write"}
                 /\ (w \notin written \/ workerJob[w] \notin Replayable)
                => calls[workerJob[w]] = 0
          /\ workerAt[w] = "await" => w \in written
          /\ workerCode[w] = "local_predispatch_unavailable" =>
                workerAt[w] \in {"settle", "answer"} /\ calls[workerJob[w]] = 0
    /\ InferenceNotReplayed

\* Whoever stops the session while Serve waits leaves the error of a write.
CauseKept ==
    /\ serve \in {"hello", "serving"} /\ stopped => writeErrors
    /\ result = "canceled" => interrupted \/ writeErrors

\* A request has no context before it is registered.
CtxFresh ==
    /\ \A r \in Requests : r \in unread => ctx[r] = "none"
    /\ readerAt = "register" => ctx[readerReq] = "none"
    /\ readerAt = "cancel" => readerReq \notin unread

\* The inductive invariant: who started what, in which order it stops, where
\* each request is, what the cancellations map says of it, and what the model
\* API has seen of it.
IInv ==
    /\ TypeOK /\ StartOrder /\ StopOrder /\ OnePlace /\ RegistryExact
    /\ QueueBounded /\ CallsExact /\ CauseKept /\ CtxFresh
=============================================================================
