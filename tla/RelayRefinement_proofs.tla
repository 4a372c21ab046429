----------------------- MODULE RelayRefinement_proofs -----------------------
(***************************************************************************)
(* Every step of RelaySession is a step of RelayContract or changes        *)
(* nothing that RelayContract speaks of.                                   *)
(***************************************************************************)
EXTENDS RelayRefinement, RelaySession_proofs

USE DEF ErrorCodes, RefusalCodes, Handling, serveVars, notReading, notWorking, queueVars,
        lineVars, readerVars, workerVars, ctxVars, stopVars, errorVars, vars,
        forwardUnchanged

(***************************************************************************)
(* The status of a request, by where it is                                 *)
(***************************************************************************)

\* The status the mapping gives r, for each place r may be in.
StatusAt(r) ==
    /\ responses[r] > 0 => statusBar[r] = "answered"
    /\ r \in unread => statusBar[r] = "new"
    /\ Held(r) => statusBar[r] = IF readerAt = "refuse" THEN "settled" ELSE "new"
    /\ Queued(r) => statusBar[r] = "waiting"
    /\ \A w \in Workers :
          workerJob[w] = r =>
             statusBar[r] =
               IF workerAt[w] \in {"settle", "answer"} THEN "settled"
               ELSE IF workerAt[w] \in {"write", "await"} THEN "running"
               ELSE IF workerAt[w] = "connect" /\ w \in written THEN "running"
               ELSE "waiting"
    /\ responses[r] = 0 /\ r \notin unread /\ ~Held(r) /\ ~Queued(r) /\ ~AtWorker(r)
          => statusBar[r] = "settled"
    /\ statusBar[r] \in {"waiting", "running"} => Queued(r) \/ InForward(r)

StatusExact == \A r \in Requests : StatusAt(r)

\* The value of the CASE of the mapping, one arm at a time.
LEMMA StatusValue ==
  ASSUME NEW r \in Requests, responses[r] \in Nat
  PROVE  /\ responses[r] > 0 => statusBar[r] = "answered"
         /\ responses[r] = 0 /\ Waits(r) => statusBar[r] = "waiting"
         /\ responses[r] = 0 /\ ~Waits(r) /\ Runs(r) => statusBar[r] = "running"
         /\ responses[r] = 0 /\ ~Waits(r) /\ ~Runs(r) /\ Fresh(r) => statusBar[r] = "new"
         /\ responses[r] = 0 /\ ~Waits(r) /\ ~Runs(r) /\ ~Fresh(r)
               => statusBar[r] = "settled"
  BY DEF statusBar

LEMMA StatusByPlace == IInv => StatusExact
<1> SUFFICES ASSUME IInv, NEW r \in Requests PROVE StatusAt(r)
  BY DEF StatusExact
<1> USE RelayAssumption
<1>0. TypeOK /\ OnePlace
  BY DEF IInv
<1>1. responses[r] \in Nat
  BY <1>0 DEF TypeOK
<1>2. Waits(r) => Queued(r) \/ InForward(r)
  BY DEF Waits, InForward
<1>3. Runs(r) => InForward(r)
  BY DEF Runs, InForward
<1>4. InForward(r) => AtWorker(r)
  BY DEF InForward, AtWorker
<1>5. Fresh(r) <=> r \in unread \/ (Held(r) /\ readerAt # "refuse")
  BY DEF Fresh, Held
<1>6. ASSUME NEW w \in Workers, workerJob[w] = r
      PROVE  /\ responses[r] = 0 /\ ~Fresh(r) /\ ~Queued(r)
             /\ \A v \in Workers : workerJob[v] = r => v = w
             /\ workerAt[w] \in Handling
  BY <1>0, <1>5, <1>6 DEF OnePlace, AtWorker, TypeOK
<1>7. ASSUME NEW w \in Workers, workerJob[w] = r
      PROVE  statusBar[r] =
               IF workerAt[w] \in {"settle", "answer"} THEN "settled"
               ELSE IF workerAt[w] \in {"write", "await"} THEN "running"
               ELSE IF workerAt[w] = "connect" /\ w \in written THEN "running"
               ELSE "waiting"
  <2>1. /\ Waits(r) <=> \/ workerAt[w] = "forward"
                        \/ workerAt[w] = "connect" /\ w \notin written
        /\ Runs(r) <=> \/ workerAt[w] \in {"write", "await"}
                       \/ workerAt[w] = "connect" /\ w \in written
    BY <1>6, <1>7 DEF Waits, Runs
  <2> QED
    BY <1>1, <1>6, <1>7, <2>1, StatusValue
<1>8. Queued(r) => Waits(r) /\ responses[r] = 0
  BY <1>0 DEF Waits, OnePlace
<1>9. r \in unread \/ Held(r) => ~Waits(r) /\ ~Runs(r) /\ responses[r] = 0
  BY <1>0, <1>2, <1>3, <1>4 DEF OnePlace
<1>10. statusBar[r] \in {"waiting", "running"} => Waits(r) \/ Runs(r)
  BY <1>1, StatusValue
<1>11. Held(r) => r \notin unread
  BY <1>0 DEF OnePlace
<1> QED
  BY <1>1, <1>2, <1>3, <1>4, <1>5, <1>7, <1>8, <1>9, <1>10, <1>11, StatusValue DEF StatusAt

LEMMA StatusByPlaceNext == IInv' => StatusExact'
  BY StatusByPlace, PTL

\* Nothing that the status of q depends on changes.
SameStage(q) ==
    /\ responses'[q] = responses[q]
    /\ Waits(q)' <=> Waits(q)
    /\ Runs(q)' <=> Runs(q)
    /\ Fresh(q)' <=> Fresh(q)

LEMMA SameStatus ==
  ASSUME NEW q \in Requests, SameStage(q) PROVE statusBar'[q] = statusBar[q]
  BY DEF SameStage, statusBar

LEMMA StatusStays ==
  ASSUME \A q \in Requests : SameStage(q) PROVE statusBar' = statusBar
<1>1. \A q \in Requests : statusBar'[q] = statusBar[q]
  BY SameStatus
<1>2. /\ statusBar = [q \in Requests |-> statusBar[q]]
      /\ statusBar' = [q \in Requests |-> statusBar'[q]]
  BY DEF statusBar
<1> QED
  BY <1>1, <1>2

LEMMA StatusMoves ==
  ASSUME NEW r \in Requests, \A q \in Requests \ {r} : SameStage(q), NEW to,
         statusBar'[r] = to
  PROVE  statusBar' = [statusBar EXCEPT ![r] = to]
<1>1. \A q \in Requests \ {r} : statusBar'[q] = statusBar[q]
  BY SameStatus
<1>2. /\ statusBar = [q \in Requests |-> statusBar[q]]
      /\ statusBar' = [q \in Requests |-> statusBar'[q]]
  BY DEF statusBar
<1> QED
  BY <1>1, <1>2

-----------------------------------------------------------------------------
(***************************************************************************)
(* The dead                                                                *)
(***************************************************************************)
LEMMA DeadStay ==
    IInv /\ [Next]_vars => deadBar \subseteq deadBar' /\ deadBar' \subseteq Requests
<1> SUFFICES ASSUME IInv, [Next]_vars PROVE deadBar \subseteq deadBar'
  BY DEF deadBar
<1> USE RelayAssumption
<1>0. TypeOK
  BY DEF IInv
<1>1. ASSUME SessionDone => SessionDone',
             \A r \in Requests : \/ ctx'[r] = ctx[r]
                                 \/ ctx[r] = "none"
                                 \/ ctx'[r] \in {"canceled", "expired"}
      PROVE  deadBar \subseteq deadBar'
  BY <1>0, <1>1 DEF deadBar, CtxErr, TypeOK
<1>2. SessionDone => SessionDone'
  <2>1. CASE Reader
    BY <2>1 DEF Reader, PollRead, ReadFails, Register, Enqueue, AbortOffer, Overflow,
                Refuse, Respond, FailWrite, CallCancel, AnswerPing, ReadRequest,
                ReadCancel, SessionDone
  <2>2. ASSUME NEW w \in Workers, Worker(w) PROVE SessionDone => SessionDone'
    BY <2>2 DEF Worker, Take, Exit, BeginForward, Connect, WriteRequest, WriteFails,
                Replay, Abandon, TransportFails, ModelAnswers, Unregister, Answer,
                Respond, FailWrite, SessionDone
  <2>3. CASE Heartbeat \/ Main \/ Interrupt \/ Finished \/ UNCHANGED vars
    BY <2>3 DEF Heartbeat, StopHeartbeat, HeartbeatFails, FailWrite, Main, Hello,
                HelloFails, Wake, Close, Drain, Return, Interrupt, Finished, SessionDone
  <2>4. ASSUME NEW r \in Requests, Expire(r) PROVE SessionDone => SessionDone'
    BY <2>4 DEF Expire, SessionDone
  <2> QED
    BY <2>1, <2>2, <2>3, <2>4 DEF Next
<1>3. \A r \in Requests : \/ ctx'[r] = ctx[r]
                          \/ ctx[r] = "none"
                          \/ ctx'[r] \in {"canceled", "expired"}
  <2> USE <1>0 DEF TypeOK
  <2>1. CASE Reader
    <3>1. CASE Register
      BY <3>1 DEF Register, IInv, CtxFresh
    <3>2. CASE ~Register
      BY <2>1, <3>2 DEF Reader, PollRead, ReadFails, Enqueue, AbortOffer, Overflow,
                Refuse, CallCancel, AnswerPing, ReadRequest, ReadCancel, Release
    <3> QED
      BY <3>1, <3>2
  <2>2. ASSUME NEW w \in Workers, Worker(w)
        PROVE  UNCHANGED ctx \/ ctx' = [ctx EXCEPT ![workerJob[w]] = "canceled"]
    BY <2>2 DEF Worker, Take, Exit, BeginForward, Connect, WriteRequest, WriteFails,
                Replay, Abandon, TransportFails, ModelAnswers, Unregister, Answer, Release
  <2>3. CASE Heartbeat \/ Main \/ Interrupt \/ Finished \/ UNCHANGED vars
    BY <2>3 DEF Heartbeat, StopHeartbeat, HeartbeatFails, Main, Hello,
                HelloFails, Wake, Close, Drain, Return, Interrupt, Finished
  <2>4. ASSUME NEW r \in Requests, Expire(r)
        PROVE  UNCHANGED ctx \/ ctx' = [ctx EXCEPT ![r] = "expired"]
    BY <2>4 DEF Expire
  <2> QED
    BY <2>1, <2>2, <2>3, <2>4 DEF Next
<1> QED
  BY <1>1, <1>2, <1>3
-----------------------------------------------------------------------------
(***************************************************************************)
(* The steps                                                               *)
(***************************************************************************)

\* Nothing happens to a request that the contract has a word for.
Stutters == UNCHANGED <<statusBar, calls, serve>>

\* A request gets on.
GetsOn ==
    \E r \in Requests :
        \/ Contract!Admit(r) \/ Contract!Decline(r) \/ Contract!Start(r)
        \/ Contract!Show(r) \/ Contract!Conclude(r) \/ Contract!Reply(r)

LEMMA MappedMove ==
  ASSUME NEW r \in Requests, NEW from, NEW to,
         statusBar[r] \in from, statusBar'[r] = to,
         \A q \in Requests \ {r} : SameStage(q), UNCHANGED <<calls, serve>>
  PROVE  Contract!Move(r, from, to)
<1>1. statusBar' = [statusBar EXCEPT ![r] = to]
  BY StatusMoves
<1> QED
  BY <1>1 DEF Contract!Move

LEMMA ReaderStep ==
  ASSUME IInv, IInv', Reader PROVE Stutters \/ GetsOn
<1> USE RelayAssumption
<1>0. /\ TypeOK /\ OnePlace
      /\ \A r \in Requests : StatusAt(r)
      /\ \A r \in Requests : StatusAt(r)'
  BY StatusByPlace, StatusByPlaceNext DEF IInv, StatusExact
<1>1. UNCHANGED <<calls, serve, workerAt, workerJob, written>>
  BY DEF Reader, PollRead, ReadFails, Register, Enqueue, AbortOffer, Overflow,
         Refuse, CallCancel, AnswerPing, ReadRequest, ReadCancel
<1>2. ASSUME UNCHANGED <<responses, jobs>>,
             \A q \in Requests : Fresh(q)' <=> Fresh(q)
      PROVE  Stutters
  <2>1. \A q \in Requests : SameStage(q)
    BY <1>1, <1>2 DEF SameStage, Waits, Runs, Queued
  <2> QED
    BY <1>1, <2>1, StatusStays DEF Stutters
<1>3. CASE \/ PollRead \/ ReadFails \/ CallCancel \/ AnswerPing \/ Register
           \/ \E id \in Ids : ReadCancel(id)
  BY <1>2, <1>3 DEF PollRead, ReadFails, CallCancel, AnswerPing, Register, ReadCancel, Fresh
<1>4. ASSUME NEW r \in Requests, ReadRequest(r) PROVE Stutters \/ GetsOn
  <2>1. /\ readerAt = "read" /\ readerReq' = r
        /\ r \in unread /\ unread' = unread \ {r}
        /\ readerAt' \in {"register", "refuse"}
        /\ UNCHANGED <<jobs, responses>>
    BY <1>4 DEF ReadRequest
  <2>2. CASE readerAt' = "register"
    BY <1>2, <2>1, <2>2 DEF Fresh
  <2>3. CASE readerAt' = "refuse"
    <3>1. statusBar[r] = "new"
      BY <1>0, <2>1 DEF StatusAt
    <3>2. statusBar'[r] = "settled"
      BY <1>0, <2>1, <2>3 DEF StatusAt, Held
    <3>3. \A q \in Requests \ {r} : SameStage(q)
      BY <1>1, <2>1, <2>3 DEF SameStage, Waits, Runs, Fresh, Queued
    <3>4. Contract!Decline(r)
      BY <1>1, <3>1, <3>2, <3>3, MappedMove DEF Contract!Decline
    <3> QED
      BY <3>4 DEF GetsOn
  <2> QED
    BY <2>1, <2>2, <2>3
<1>5. CASE Enqueue
  <2>1. PICK r \in Requests : r = readerReq
    BY <1>0, <1>5 DEF Enqueue, TypeOK
  <2>2. /\ readerAt = "offer" /\ readerAt' = "poll"
        /\ UNCHANGED <<unread, responses, cancellations>>
    BY <1>5 DEF Enqueue
  <2>3. \A q \in Requests : Queued(q)' <=> Queued(q) \/ q = r
    BY <1>0, <1>5, <2>1, EnqueueQueue
  <2>4. statusBar[r] = "new"
    BY <1>0, <2>1, <2>2 DEF StatusAt, Held
  <2>5. statusBar'[r] = "waiting"
    BY <1>0, <2>3 DEF StatusAt
  <2>6. \A q \in Requests \ {r} : SameStage(q)
    BY <1>1, <2>1, <2>2, <2>3 DEF SameStage, Waits, Runs, Fresh
  <2>7. ASSUME NEW q \in Requests, statusBar[q] \in {"waiting", "running"}
        PROVE  IdOf[q] # IdOf[r]
    <3>1. Active(q) /\ Active(r) /\ q # r
      BY <1>0, <2>1, <2>2, <2>4, <2>7 DEF StatusAt, Active
    <3> QED
      BY <3>1 DEF IInv, RegistryExact
  <2>8. Contract!Admit(r)
    BY <1>1, <2>4, <2>5, <2>6, <2>7, MappedMove DEF Contract!Admit, Contract!InSession
  <2> QED
    BY <2>8 DEF GetsOn
<1>6. CASE AbortOffer \/ Overflow
  <2>1. PICK r \in Requests : r = readerReq
    BY <1>0, <1>6 DEF AbortOffer, Overflow, TypeOK
  <2>2. /\ readerAt = "offer" /\ readerAt' \in {"done", "refuse"}
        /\ readerAt' = "refuse" => readerReq' = r
        /\ UNCHANGED <<unread, responses, jobs>>
    BY <1>6, <2>1 DEF AbortOffer, Overflow
  <2>3. Held(r) /\ statusBar[r] = "new"
    BY <1>0, <2>1, <2>2 DEF StatusAt, Held
  <2>4. r \notin unread /\ ~Queued(r) /\ ~AtWorker(r) /\ responses[r] = 0
    BY <1>0, <2>3 DEF OnePlace
  <2>5. statusBar'[r] = "settled"
    BY <1>0, <1>1, <2>2, <2>4 DEF StatusAt, Held, Queued, AtWorker
  <2>6. \A q \in Requests \ {r} : SameStage(q)
    BY <1>1, <2>1, <2>2 DEF SameStage, Waits, Runs, Fresh, Queued
  <2>7. Contract!Decline(r)
    BY <1>1, <2>3, <2>5, <2>6, MappedMove DEF Contract!Decline
  <2> QED
    BY <2>7 DEF GetsOn
<1>7. CASE Refuse
  <2>1. PICK r \in Requests : r = readerReq
    BY <1>0, <1>7 DEF Refuse, TypeOK
  <2>2. /\ readerAt = "refuse" /\ readerAt' = "poll"
        /\ UNCHANGED <<unread, jobs>>
        /\ Respond(r)
    BY <1>7, <2>1 DEF Refuse
  <2>3. /\ \A q \in Requests : q # r => responses'[q] = responses[q]
        /\ responses'[r] \in {responses[r], responses[r] + 1}
    BY <1>0, <2>2, RespondStep DEF TypeOK
  <2>4. \A q \in Requests \ {r} : SameStage(q)
    BY <1>1, <2>2, <2>3 DEF SameStage, Waits, Runs, Fresh, Queued
  <2>5. CASE responses'[r] = responses[r]
    <3>1. SameStage(r)
      BY <1>1, <2>2, <2>5 DEF SameStage, Waits, Runs, Fresh, Queued
    <3> QED
      BY <1>1, <2>4, <3>1, StatusStays DEF Stutters
  <2>6. CASE responses'[r] = responses[r] + 1
    <3>1. responses[r] = 0 /\ statusBar[r] = "settled"
      BY <1>0, <2>1, <2>2 DEF StatusAt, Held, OnePlace
    <3>2. statusBar'[r] = "answered"
      BY <1>0, <2>6, <3>1 DEF StatusAt
    <3>3. Contract!Reply(r)
      BY <1>1, <2>4, <3>1, <3>2, MappedMove DEF Contract!Reply
    <3> QED
      BY <3>3 DEF GetsOn
  <2> QED
    BY <2>3, <2>5, <2>6
<1> QED
  BY <1>3, <1>4, <1>5, <1>6, <1>7 DEF Reader

LEMMA WorkerStep ==
  ASSUME IInv, IInv', NEW w \in Workers, Worker(w) PROVE Stutters \/ GetsOn
<1> USE RelayAssumption
<1>0. /\ TypeOK /\ OnePlace /\ CallsExact
      /\ \A r \in Requests : StatusAt(r)
      /\ \A r \in Requests : StatusAt(r)'
  BY StatusByPlace, StatusByPlaceNext DEF IInv, StatusExact
<1>1. UNCHANGED <<unread, readerReq, readerAt, serve>>
  BY DEF Worker, Take, Exit, BeginForward, Connect, WriteRequest, WriteFails,
         Replay, Abandon, TransportFails, ModelAnswers, Unregister, Answer
<1>2. CASE Take(w)
  <2>1. PICK job \in Requests : job = Head(jobs)
    BY <1>0, <1>2 DEF Take, TypeOK
  <2>2. /\ workerAt[w] = "idle"
        /\ workerJob' = [workerJob EXCEPT ![w] = job]
        /\ workerAt' = [workerAt EXCEPT ![w] = "forward"]
        /\ UNCHANGED <<responses, calls, written>>
    BY <1>2, <2>1 DEF Take
  <2>3. Queued(job) /\ \A q \in Requests : Queued(q)' <=> Queued(q) /\ q # job
    BY <1>0, <1>2, <2>1, TakeQueue DEF OnePlace, Distinct
  <2>4. workerJob[w] = None
    BY <1>0, <2>2 DEF TypeOK
  <2>5. \A q \in Requests : /\ Waits(q)' <=> Waits(q)
                            /\ Runs(q)' <=> Runs(q)
    BY <1>0, <2>2, <2>3, <2>4 DEF Waits, Runs, TypeOK
  <2>6. \A q \in Requests : SameStage(q)
    BY <1>1, <2>2, <2>5 DEF SameStage, Fresh
  <2> QED
    BY <1>1, <2>2, <2>6, StatusStays DEF Stutters
<1>3. CASE Exit(w)
  <2>1. \A q \in Requests : SameStage(q)
    BY <1>0, <1>3 DEF Exit, SameStage, Waits, Runs, Fresh, Queued, TypeOK
  <2> QED
    BY <1>1, <1>3, <2>1, StatusStays DEF Exit, Stutters
<1>4. CASE ~Take(w) /\ ~Exit(w)
  <2>1. PICK job \in Requests : job = workerJob[w]
    BY <1>0, <1>4 DEF Worker, BeginForward, Connect, WriteRequest, WriteFails, Replay,
                      Abandon, TransportFails, ModelAnswers, Unregister, Answer, TypeOK
  <2>2. /\ \A v \in Workers : v # w => workerJob[v] # job
        /\ responses[job] = 0 /\ job \notin unread /\ ~Held(job) /\ ~Queued(job)
    BY <1>0, <2>1 DEF OnePlace, AtWorker
  <2>3. ASSUME UNCHANGED <<jobs, responses, workerJob>>,
               \A v \in Workers \ {w} : /\ workerAt'[v] = workerAt[v]
                                        /\ v \in written' <=> v \in written
        PROVE  \A q \in Requests \ {job} : SameStage(q)
    BY <1>1, <2>1, <2>3 DEF SameStage, Waits, Runs, Fresh, Queued
  <2>4. ASSUME UNCHANGED <<jobs, responses, workerJob, calls>>,
               \A v \in Workers \ {w} : /\ workerAt'[v] = workerAt[v]
                                        /\ v \in written' <=> v \in written,
               statusBar'[job] = statusBar[job]
        PROVE  Stutters
    <3>1. statusBar' = [statusBar EXCEPT ![job] = statusBar[job]]
      BY <2>3, <2>4, StatusMoves
    <3>2. statusBar' = statusBar
      BY <3>1 DEF statusBar
    <3> QED
      BY <1>1, <2>4, <3>2 DEF Stutters
  <2>5. ASSUME UNCHANGED <<jobs, responses, workerJob, calls>>,
               workerAt' = [workerAt EXCEPT ![w] = "settle"],
               workerAt[w] \in {"forward", "connect", "write", "await"},
               \A v \in Workers \ {w} : v \in written' <=> v \in written
        PROVE  GetsOn
    <3>1. /\ \A v \in Workers \ {w} : workerAt'[v] = workerAt[v]
          /\ workerAt'[w] = "settle" /\ workerJob'[w] = job
      BY <1>0, <2>1, <2>5 DEF TypeOK
    <3>2. statusBar[job] \in {"waiting", "running"}
      BY <1>0, <2>1, <2>5 DEF StatusAt
    <3>3. statusBar'[job] = "settled"
      BY <1>0, <3>1 DEF StatusAt
    <3>4. Contract!Conclude(job)
      BY <1>1, <2>3, <2>5, <3>1, <3>2, <3>3, MappedMove DEF Contract!Conclude
    <3> QED
      BY <3>4 DEF GetsOn
  <2>6. CASE BeginForward(w)
    <3>1. workerAt[w] = "forward" /\ UNCHANGED <<jobs, responses, workerJob, calls>>
          /\ written' = written \ {w}
      BY <2>6 DEF BeginForward
    <3>2. CASE workerAt' = [workerAt EXCEPT ![w] = "connect"]
      <4>1. /\ workerAt'[w] = "connect" /\ workerJob'[w] = job /\ w \notin written'
            /\ \A v \in Workers \ {w} : workerAt'[v] = workerAt[v]
        BY <1>0, <2>1, <3>1, <3>2 DEF TypeOK
      <4>2. statusBar[job] = "waiting" /\ statusBar'[job] = "waiting"
        BY <1>0, <2>1, <3>1, <4>1 DEF StatusAt
      <4> QED
        BY <2>4, <3>1, <4>1, <4>2
    <3>3. CASE workerAt' = [workerAt EXCEPT ![w] = "settle"]
      BY <2>5, <3>1, <3>3
    <3> QED
      BY <2>6, <3>2, <3>3 DEF BeginForward, Settle
  <2>7. CASE Connect(w)
    <3>1. /\ workerAt[w] = "connect" /\ UNCHANGED <<jobs, responses, workerJob, calls, written>>
          /\ CtxErr(job) = "live"
          /\ workerAt' = [workerAt EXCEPT ![w] = "write"]
      BY <2>1, <2>7 DEF Connect
    <3>2. /\ workerAt'[w] = "write" /\ workerJob'[w] = job
          /\ \A v \in Workers \ {w} : workerAt'[v] = workerAt[v]
      BY <1>0, <2>1, <3>1 DEF TypeOK
    <3>3. /\ statusBar[job] = IF w \in written THEN "running" ELSE "waiting"
          /\ statusBar'[job] = "running"
      BY <1>0, <2>1, <3>1, <3>2 DEF StatusAt
    <3>4. CASE w \in written
      BY <2>4, <3>1, <3>2, <3>3, <3>4
    <3>5. CASE w \notin written
      <4>1. Contract!Move(job, {"waiting"}, "running")
        BY <1>1, <2>3, <3>1, <3>2, <3>3, <3>5, MappedMove
      <4>2. job \notin deadBar
        BY <3>1 DEF deadBar
      <4> QED
        BY <4>1, <4>2 DEF GetsOn, Contract!Start
    <3> QED
      BY <3>4, <3>5
  <2>8. CASE WriteRequest(w)
    <3>1. /\ workerAt[w] = "write" /\ UNCHANGED <<jobs, responses, workerJob>>
          /\ calls' = [calls EXCEPT ![job] = @ + 1] /\ written' = written \cup {w}
          /\ workerAt' = [workerAt EXCEPT ![w] = "await"]
      BY <2>1, <2>8 DEF WriteRequest
    <3>2. /\ workerAt'[w] = "await" /\ workerJob'[w] = job
          /\ \A v \in Workers \ {w} : workerAt'[v] = workerAt[v]
      BY <1>0, <2>1, <3>1 DEF TypeOK
    <3>3. statusBar[job] = "running" /\ statusBar'[job] = "running"
      BY <1>0, <2>1, <3>1, <3>2 DEF StatusAt
    <3>4. statusBar' = statusBar
      <4>1. statusBar' = [statusBar EXCEPT ![job] = "running"]
        BY <2>3, <3>1, <3>2, <3>3, StatusMoves
      <4> QED
        BY <3>3, <4>1 DEF statusBar
    <3>5. job \in Replayable \/ calls[job] = 0
      BY <1>0, <2>1, <3>1 DEF CallsExact
    <3>6. Contract!Show(job)
      BY <1>1, <3>1, <3>3, <3>4, <3>5 DEF Contract!Show
    <3> QED
      BY <3>6 DEF GetsOn
  <2>9. CASE WriteFails(w)
    <3>1. /\ workerAt[w] = "write" /\ UNCHANGED <<jobs, responses, workerJob, calls>>
          /\ written' = written \cup {w}
      BY <2>9 DEF WriteFails
    <3>2. CASE workerAt' = [workerAt EXCEPT ![w] = "connect"]
      <4>1. /\ workerAt'[w] = "connect" /\ workerJob'[w] = job /\ w \in written'
            /\ \A v \in Workers \ {w} : workerAt'[v] = workerAt[v]
        BY <1>0, <2>1, <3>1, <3>2 DEF TypeOK
      <4>2. statusBar[job] = "running" /\ statusBar'[job] = "running"
        BY <1>0, <2>1, <3>1, <4>1 DEF StatusAt
      <4> QED
        BY <2>4, <3>1, <4>1, <4>2
    <3>3. CASE workerAt' = [workerAt EXCEPT ![w] = "settle"]
      BY <2>5, <3>1, <3>3
    <3> QED
      BY <2>9, <3>2, <3>3 DEF WriteFails, Settle
  <2>10. CASE Replay(w)
    <3>1. /\ workerAt[w] = "await" /\ UNCHANGED <<jobs, responses, workerJob, calls, written>>
          /\ workerAt' = [workerAt EXCEPT ![w] = "connect"] /\ w \in written
      BY <1>0, <2>10 DEF Replay, CallsExact
    <3>2. /\ workerAt'[w] = "connect" /\ workerJob'[w] = job /\ w \in written'
          /\ \A v \in Workers \ {w} : workerAt'[v] = workerAt[v]
      BY <1>0, <2>1, <3>1 DEF TypeOK
    <3>3. statusBar[job] = "running" /\ statusBar'[job] = "running"
      BY <1>0, <2>1, <3>1, <3>2 DEF StatusAt
    <3> QED
      BY <2>4, <3>1, <3>2, <3>3
  <2>11. CASE Abandon(w) \/ TransportFails(w) \/ ModelAnswers(w)
    BY <2>5, <2>11 DEF Abandon, TransportFails, ModelAnswers, Settle
  <2>12. CASE Unregister(w)
    <3>1. /\ workerAt[w] = "settle" /\ UNCHANGED <<jobs, responses, workerJob, calls, written>>
          /\ workerAt' = [workerAt EXCEPT ![w] = "answer"]
      BY <2>12 DEF Unregister
    <3>2. /\ workerAt'[w] = "answer" /\ workerJob'[w] = job
          /\ \A v \in Workers \ {w} : workerAt'[v] = workerAt[v]
      BY <1>0, <2>1, <3>1 DEF TypeOK
    <3>3. statusBar[job] = "settled" /\ statusBar'[job] = "settled"
      BY <1>0, <2>1, <3>1, <3>2 DEF StatusAt
    <3> QED
      BY <2>4, <3>1, <3>2, <3>3
  <2>13. CASE Answer(w)
    <3>1. /\ workerAt[w] = "answer" /\ UNCHANGED <<jobs, calls, written>>
          /\ Respond(job)
          /\ workerAt' = [workerAt EXCEPT ![w] = "idle"]
          /\ workerJob' = [workerJob EXCEPT ![w] = None]
      BY <2>1, <2>13 DEF Answer
    <3>2. /\ \A q \in Requests : q # job => responses'[q] = responses[q]
          /\ responses'[job] \in {0, 1}
      <4>1. /\ \A q \in Requests : q # job => responses'[q] = responses[q]
            /\ responses'[job] \in {responses[job], responses[job] + 1}
        BY <1>0, <3>1, RespondStep DEF TypeOK
      <4> QED
        BY <2>2, <4>1
    <3>3. /\ workerAt'[w] = "idle" /\ workerJob'[w] = None
          /\ \A v \in Workers \ {w} : workerAt'[v] = workerAt[v] /\ workerJob'[v] = workerJob[v]
      BY <1>0, <3>1 DEF TypeOK
    <3>4. \A q \in Requests \ {job} : SameStage(q)
      BY <1>1, <2>1, <3>1, <3>2, <3>3 DEF SameStage, Waits, Runs, Fresh, Queued
    <3>5. statusBar[job] = "settled"
      BY <1>0, <2>1, <3>1 DEF StatusAt
    <3>6. CASE responses'[job] = 1
      <4>1. statusBar'[job] = "answered"
        BY <1>0, <3>6 DEF StatusAt
      <4>2. Contract!Reply(job)
        BY <1>1, <3>1, <3>4, <3>5, <4>1, MappedMove DEF Contract!Reply
      <4> QED
        BY <4>2 DEF GetsOn
    <3>7. CASE responses'[job] = 0
      <4>1. ~Queued(job)' /\ ~AtWorker(job)' /\ ~Held(job)' /\ job \notin unread'
        BY <1>1, <2>1, <2>2, <3>1, <3>3 DEF Queued, AtWorker, Held
      <4>2. statusBar'[job] = "settled"
        BY <1>0, <3>7, <4>1 DEF StatusAt
      <4>3. statusBar' = [statusBar EXCEPT ![job] = "settled"]
        BY <3>4, <4>2, StatusMoves
      <4>4. statusBar' = statusBar
        BY <3>5, <4>3 DEF statusBar
      <4> QED
        BY <1>1, <3>1, <4>4 DEF Stutters
    <3> QED
      BY <3>2, <3>6, <3>7
  <2> QED
    BY <1>4, <2>6, <2>7, <2>8, <2>9, <2>10, <2>11, <2>12, <2>13 DEF Worker
<1> QED
  BY <1>2, <1>3, <1>4

-----------------------------------------------------------------------------
\* Nothing happens after the session has returned.
LEMMA ReturnedStep ==
  ASSUME IInv, serve = "returned", [Next]_vars
  PROVE  Stutters /\ UNCHANGED deadBar
<1> USE DEF IInv
<1>1. /\ readerAt \in {"unborn", "done"} /\ heartbeat \in {"unborn", "done"}
      /\ \A w \in Workers : workerAt[w] \in {"unborn", "exited"}
      /\ stopped
  BY DEF StartOrder, StopOrder
<1>2. ~Reader
  BY <1>1 DEF Reader, PollRead, ReadFails, Register, Enqueue, AbortOffer, Overflow,
              Refuse, CallCancel, AnswerPing, ReadRequest, ReadCancel
<1>3. ASSUME NEW w \in Workers PROVE ~Worker(w)
  BY <1>1 DEF Worker, Take, Exit, BeginForward, Connect, WriteRequest, WriteFails,
              Replay, Abandon, TransportFails, ModelAnswers, Unregister, Answer
<1>4. ~Heartbeat /\ ~Main /\ ~Interrupt
  BY <1>1 DEF Heartbeat, StopHeartbeat, HeartbeatFails, Main, Hello, HelloFails, Wake,
              Close, Drain, Return, Interrupt, SessionDone
<1>5. ASSUME NEW r \in Requests, Expire(r) PROVE UNCHANGED ctx
  <2>1. CtxErr(r) # "live"
    BY <1>1 DEF CtxErr, SessionDone
  <2> QED
    BY <1>5, <2>1 DEF Expire, TypeOK
<1>6. UNCHANGED <<serve, calls, ctx, stopped, interrupted, responses, jobs, workerAt,
                  workerJob, written, unread, readerReq, readerAt>>
  BY <1>2, <1>3, <1>4, <1>5 DEF Next, Expire, Finished
<1>7. \A q \in Requests : SameStage(q)
  BY <1>6 DEF SameStage, Waits, Runs, Fresh, Queued
<1>8. UNCHANGED deadBar
  BY <1>6 DEF deadBar, CtxErr, SessionDone
<1> QED
  BY <1>6, <1>7, <1>8, StatusStays DEF Stutters

\* The steps of Serve, the heartbeat and the environment.
LEMMA OtherStep ==
  ASSUME IInv, IInv', serve # "returned",
         \/ Heartbeat \/ Main \/ Interrupt \/ Finished \/ UNCHANGED vars
         \/ \E r \in Requests : Expire(r)
  PROVE  \/ Stutters
         \/ UNCHANGED <<statusBar, calls>> /\ serve' # "returned"
         \/ Contract!End
<1> USE DEF IInv
<1>0. /\ UNCHANGED <<calls, responses, jobs, workerJob, written, unread, readerReq>>
      /\ \A q \in Requests : Fresh(q)' <=> Fresh(q)
      /\ \/ UNCHANGED workerAt
         \/ \A w \in Workers : workerAt[w] = "unborn" /\ workerAt'[w] = "idle"
  BY DEF Heartbeat, StopHeartbeat, HeartbeatFails, Main, Hello, HelloFails, Wake,
         Close, Drain, Return, Interrupt, Expire, Finished, Fresh, StartOrder
<1>1. \A q \in Requests : SameStage(q)
  BY <1>0 DEF SameStage, Waits, Runs, Queued
<1>2. UNCHANGED statusBar
  BY <1>1, StatusStays
<1>3. CASE serve' # "returned"
  BY <1>0, <1>2, <1>3
<1>4. CASE serve' = "returned"
  <2>1. \A w \in Workers : workerAt'[w] \in {"unborn", "exited"}
    BY <1>4 DEF StartOrder, StopOrder
  <2>2. jobs' = <<>>
    BY <1>4 DEF StartOrder, StopOrder
  <2>3. ASSUME NEW r \in Requests PROVE statusBar[r] \notin {"waiting", "running"}
    <3>1. ~Queued(r)
      BY <1>0, <2>2 DEF Queued
    <3>2. ~InForward(r)
      BY <1>0, <2>1 DEF InForward
    <3> QED
      BY <3>1, <3>2, StatusByPlace DEF StatusExact, StatusAt
  <2> QED
    BY <1>0, <1>2, <1>4, <2>3 DEF Contract!End, Contract!InSession
<1> QED
  BY <1>3, <1>4

LEMMA ContractStep ==
    IInv /\ IInv' /\ [Next]_vars => [Contract!ContractNext]_Contract!contractVars
<1> SUFFICES ASSUME IInv, IInv', [Next]_vars
             PROVE  [Contract!ContractNext]_Contract!contractVars
  OBVIOUS
<1>1. CASE serve = "returned"
  BY <1>1, ReturnedStep DEF Stutters, Contract!contractVars
<1>2. CASE serve # "returned"
  <2>1. deadBar \subseteq deadBar' /\ deadBar' \subseteq Requests
    BY DeadStay
  <2>2. \/ Stutters \/ GetsOn
        \/ UNCHANGED <<statusBar, calls>> /\ serve' # "returned"
        \/ Contract!End
    BY <1>2, ReaderStep, WorkerStep, OtherStep DEF Next
  <2> QED
    BY <1>2, <2>1, <2>2 DEF Stutters, GetsOn, Contract!ContractNext
<1> QED
  BY <1>1, <1>2

\* The goroutines, the channel, the map and the contexts of a session together
\* keep the promises of the contract, for any number of requests and workers.
THEOREM SessionKeepsContract == Spec => ImplementsContract
<1>1. Init => Contract!ContractInit
  <2> SUFFICES ASSUME Init PROVE Contract!ContractInit
    OBVIOUS
  <2>1. StatusExact /\ calls = [r \in Requests |-> 0]
    BY InitIInv, StatusByPlace DEF Init
  <2>2. statusBar = [r \in Requests |-> "new"]
    <3>1. \A r \in Requests : statusBar[r] = "new"
      BY <2>1 DEF Init, StatusExact, StatusAt
    <3> QED
      BY <3>1 DEF statusBar
  <2>3. deadBar = {} /\ serve # "returned"
    BY DEF Init, deadBar, CtxErr
  <2> QED
    BY <2>1, <2>2, <2>3 DEF Contract!ContractInit
<1>2. IInv /\ IInv' /\ [Next]_vars => [Contract!ContractNext]_Contract!contractVars
  BY ContractStep
<1> QED
  BY Inductive, <1>1, <1>2, PTL DEF Spec, ImplementsContract, Contract!ContractSpec
=============================================================================
