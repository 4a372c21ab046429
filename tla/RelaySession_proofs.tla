------------------------ MODULE RelaySession_proofs ------------------------
(***************************************************************************)
(* Theorems about RelaySession, for any number of requests, ids and        *)
(* workers, and any queue size.                                            *)
(***************************************************************************)
EXTENDS RelayInvariant, FiniteSetTheorems, TLAPS

USE DEF ErrorCodes, RefusalCodes, Handling, serveVars, notReading, notWorking, queueVars, lineVars, readerVars, workerVars,
        ctxVars, stopVars, errorVars, vars, forwardUnchanged

LEMMA ErrorCodeType ==
    ASSUME NEW cause, NEW phase PROVE ErrorCode(cause, phase) \in ErrorCodes
  BY DEF ErrorCode

LEMMA InitTypeOK == Init => TypeOK
<1>1. Init => FlagsOK
  BY Zenon DEF Init, FlagsOK
<1> QED
  BY <1>1, RelayAssumption DEF Init, TypeOK

flagVars == <<jobsClosed, stopped, interrupted, readErrors, writeErrors>>

LEMMA StepFlagsOK == FlagsOK /\ [Next]_vars => FlagsOK'
<1> SUFFICES ASSUME FlagsOK, [Next]_vars PROVE FlagsOK'
  OBVIOUS
<1>1. CASE UNCHANGED flagVars
  BY <1>1, Zenon DEF FlagsOK, flagVars
<1>2. CASE Reader
  <2>1. CASE ReadFails
    BY <2>1, Zenon DEF ReadFails, FlagsOK
  <2>2. CASE Refuse
    BY <2>2, Zenon DEF Refuse, Respond, FailWrite, FlagsOK
  <2>3. CASE AnswerPing
    BY <2>3, Zenon DEF AnswerPing, FailWrite, FlagsOK
  <2>4. CASE PollRead \/ Register \/ Enqueue \/ AbortOffer \/ Overflow \/ CallCancel
    BY <1>1, <2>4 DEF PollRead, Register, Enqueue, AbortOffer, Overflow, CallCancel,
                      flagVars
  <2>5. ASSUME NEW r \in Requests, ReadRequest(r) PROVE FlagsOK'
    BY <1>1, <2>5 DEF ReadRequest, flagVars
  <2>6. ASSUME NEW id \in Ids, ReadCancel(id) PROVE FlagsOK'
    BY <1>1, <2>6 DEF ReadCancel, flagVars
  <2> QED
    BY <1>2, <2>1, <2>2, <2>3, <2>4, <2>5, <2>6 DEF Reader
<1>3. ASSUME NEW w \in Workers, Worker(w) PROVE FlagsOK'
  <2>1. CASE Answer(w)
    BY <2>1, Zenon DEF Answer, Respond, FailWrite, FlagsOK
  <2>2. CASE Take(w) \/ Exit(w) \/ BeginForward(w) \/ Connect(w) \/ WriteRequest(w)
    BY <1>1, <2>2 DEF Take, Exit, BeginForward, Connect, WriteRequest, flagVars
  <2>3. CASE \/ WriteFails(w) \/ Replay(w) \/ Abandon(w) \/ TransportFails(w)
             \/ ModelAnswers(w) \/ Unregister(w)
    BY <1>1, <2>3 DEF WriteFails, Replay, Abandon, TransportFails, ModelAnswers,
                      Unregister, flagVars
  <2> QED
    BY <1>3, <2>1, <2>2, <2>3 DEF Worker
<1>4. CASE StopHeartbeat \/ Hello \/ Close \/ Return
  BY <1>1, <1>4 DEF StopHeartbeat, Hello, Close, Return, flagVars
<1>5. CASE HeartbeatFails
  BY <1>5, Zenon DEF HeartbeatFails, FailWrite, FlagsOK
<1>6. CASE HelloFails
  BY <1>6, Zenon DEF HelloFails, FlagsOK
<1>7. CASE Wake
  BY <1>7, Zenon DEF Wake, FlagsOK
<1>8. CASE Drain
  BY <1>8, Zenon DEF Drain, FlagsOK
<1>9. CASE Interrupt
  BY <1>9, Zenon DEF Interrupt, FlagsOK
<1>10. ASSUME NEW r \in Requests, Expire(r) PROVE FlagsOK'
  BY <1>1, <1>10 DEF Expire, flagVars
<1>11. CASE Finished \/ UNCHANGED vars
  BY <1>1, <1>11 DEF Finished, flagVars
<1> QED
  BY <1>2, <1>3, <1>4, <1>5, <1>6, <1>7, <1>8, <1>9, <1>10, <1>11
  DEF Next, Heartbeat, Main

LEMMA RespondStep ==
    ASSUME NEW r \in Requests, responses \in [Requests -> Nat], Respond(r)
    PROVE  /\ responses' \in [Requests -> Nat]
           /\ \A q \in Requests : q # r => responses'[q] = responses[q]
           /\ responses'[r] \in {responses[r], responses[r] + 1}
<1>1. CASE responses' = [responses EXCEPT ![r] = @ + 1]
  BY <1>1
<1>2. CASE UNCHANGED responses
  BY <1>2
<1> QED
  BY <1>1, <1>2, Zenon DEF Respond

LEMMA StepTypeOK == TypeOK /\ StartOrder /\ [Next]_vars => TypeOK'
<1> SUFFICES ASSUME TypeOK, StartOrder, [Next]_vars PROVE TypeOK'
  OBVIOUS
<1>0. FlagsOK'
  BY StepFlagsOK DEF TypeOK
<1> USE <1>0, RelayAssumption DEF TypeOK
<1>1. CASE Reader
  <2>1. CASE PollRead
    BY <2>1 DEF PollRead
  <2>2. CASE ReadFails
    BY <2>2 DEF ReadFails
  <2>3. CASE Register
    BY <2>3 DEF Register
  <2>4. CASE Enqueue
    BY <2>4 DEF Enqueue
  <2>5. CASE AbortOffer
    BY <2>5 DEF AbortOffer, Release
  <2>6. CASE Overflow
    BY <2>6 DEF Overflow, Forget, Release
  <2>7. CASE Refuse
    <3>1. responses' \in [Requests -> Nat]
      BY <2>7, RespondStep DEF Refuse
    <3> QED
      BY <2>7, <3>1 DEF Refuse
  <2>8. CASE CallCancel
    BY <2>8 DEF CallCancel
  <2>9. CASE AnswerPing
    BY <2>9 DEF AnswerPing
  <2>10. ASSUME NEW r \in Requests, ReadRequest(r) PROVE TypeOK'
    BY <2>10 DEF ReadRequest, Verdict
  <2>11. ASSUME NEW id \in Ids, ReadCancel(id) PROVE TypeOK'
    BY <2>11 DEF ReadCancel
  <2> QED
    BY <1>1, <2>1, <2>2, <2>3, <2>4, <2>5, <2>6, <2>7, <2>8, <2>9, <2>10, <2>11
    DEF Reader
<1>2. ASSUME NEW w \in Workers, Worker(w) PROVE TypeOK'
  <2>0. workerAt[w] \in Handling => workerJob[w] \in Requests
    OBVIOUS
  <2>1. CASE Take(w)
    <3>1. Head(jobs) \in Requests /\ Tail(jobs) \in Seq(Requests)
      BY <2>1 DEF Take
    <3> QED
      BY <2>1, <3>1 DEF Take
  <2>2. CASE Exit(w)
    BY <2>2 DEF Exit
  <2>3. ASSUME NEW code \in ErrorCodes \cup {"ok"}, Settle(w, code),
               workerAt[w] \in Handling, written' \subseteq Workers, forwardUnchanged' = forwardUnchanged,
               UNCHANGED calls
        PROVE  TypeOK'
    BY <2>3 DEF Settle
  <2>4. ASSUME NEW point \in Handling, workerAt' = [workerAt EXCEPT ![w] = point],
               workerAt[w] \in Handling, written' \subseteq Workers, calls' \in [Requests -> Nat],
               forwardUnchanged' = forwardUnchanged, UNCHANGED workerCode
        PROVE  TypeOK'
    BY <2>4
  <2>5. CASE BeginForward(w)
    BY <2>3, <2>4, <2>5, ErrorCodeType DEF BeginForward
  <2>6. CASE Connect(w)
    BY <2>4, <2>6 DEF Connect
  <2>7. CASE WriteRequest(w)
    <3>1. calls' \in [Requests -> Nat]
      BY <2>0, <2>7 DEF WriteRequest
    <3> QED
      BY <2>4, <2>7, <3>1 DEF WriteRequest
  <2>8. CASE WriteFails(w)
    BY <2>3, <2>4, <2>8, ErrorCodeType DEF WriteFails
  <2>9. CASE Replay(w)
    BY <2>4, <2>9 DEF Replay
  <2>10. CASE Abandon(w) \/ TransportFails(w) \/ ModelAnswers(w)
    BY <2>3, <2>10, ErrorCodeType DEF Abandon, TransportFails, ModelAnswers
  <2>11. CASE Unregister(w)
    BY <2>0, <2>11 DEF Unregister, Forget
  <2>12. CASE Answer(w)
    <3>1. responses' \in [Requests -> Nat]
      BY <2>0, <2>12, RespondStep DEF Answer
    <3>2. ctx' \in [Requests -> {"none", "live", "canceled", "expired"}]
      BY <2>0, <2>12 DEF Answer, Release
    <3> QED
      BY <2>12, <3>1, <3>2 DEF Answer
  <2> QED
    BY <1>2, <2>1, <2>2, <2>5, <2>6, <2>7, <2>8, <2>9, <2>10, <2>11, <2>12 DEF Worker
<1>3. CASE Heartbeat
  BY <1>3 DEF Heartbeat, StopHeartbeat, HeartbeatFails
<1>4. CASE Main
  <2>1. CASE Hello
    <3>0. \A w \in Workers : workerAt[w] = "unborn"
      BY <2>1 DEF Hello, StartOrder
    <3>1. \A w \in Workers : workerJob[w] = None
      BY <3>0
    <3> QED
      BY <2>1, <3>1 DEF Hello, StartOrder
  <2>2. CASE HelloFails
    BY <2>2 DEF HelloFails
  <2>3. CASE Wake
    BY <2>3 DEF Wake
  <2>4. CASE Close
    BY <2>4 DEF Close
  <2>5. CASE Drain
    BY <2>5 DEF Drain
  <2>6. CASE Return
    BY <2>6 DEF Return
  <2> QED
    BY <1>4, <2>1, <2>2, <2>3, <2>4, <2>5, <2>6 DEF Main
<1>5. CASE Interrupt
  BY <1>5 DEF Interrupt
<1>6. ASSUME NEW r \in Requests, Expire(r) PROVE TypeOK'
  BY <1>6 DEF Expire
<1>7. CASE Finished \/ UNCHANGED vars
  BY <1>7 DEF Finished
<1> QED
  BY <1>1, <1>2, <1>3, <1>4, <1>5, <1>6, <1>7 DEF Next

-----------------------------------------------------------------------------
LEMMA StepStartOrder == TypeOK /\ StartOrder /\ [Next]_vars => StartOrder'
<1> SUFFICES ASSUME TypeOK, StartOrder, [Next]_vars PROVE StartOrder'
  OBVIOUS
<1> USE DEF TypeOK, StartOrder
<1>1. CASE Reader
  BY <1>1 DEF Reader, PollRead, ReadFails, Register, Enqueue, AbortOffer, Overflow,
              Refuse, CallCancel, AnswerPing, ReadRequest, ReadCancel
<1>2. ASSUME NEW w \in Workers, Worker(w) PROVE StartOrder'
  <2>1. workerAt[w] # "unborn" /\ readerAt # "unborn"
    BY <1>2 DEF Worker, Take, Exit, BeginForward, Connect, WriteRequest, WriteFails,
                Replay, Abandon, TransportFails, ModelAnswers, Unregister, Answer
  <2>2. /\ \A v \in Workers : workerAt'[v] # "unborn"
        /\ UNCHANGED <<serve, readerAt, heartbeat>>
    BY <1>2, <2>1 DEF Worker, Take, Exit, BeginForward, Connect, WriteRequest, WriteFails,
                Replay, Abandon, TransportFails, ModelAnswers, Unregister, Answer, Settle
  <2> QED
    BY <2>1, <2>2
<1>3. CASE Heartbeat
  BY <1>3 DEF Heartbeat, StopHeartbeat, HeartbeatFails
<1>4. CASE Main
  BY <1>4 DEF Main, Hello, HelloFails, Wake, Close, Drain, Return
<1>5. CASE Interrupt \/ Finished \/ UNCHANGED vars
  BY <1>5 DEF Interrupt, Finished
<1>6. ASSUME NEW r \in Requests, Expire(r) PROVE StartOrder'
  BY <1>6 DEF Expire
<1> QED
  BY <1>1, <1>2, <1>3, <1>4, <1>5, <1>6 DEF Next

\* Every reachable state is well typed, and a request is in the hands of the
\* read loop or of a worker exactly where the code has one in scope.
THEOREM TypeCorrect == Spec => []TypeOK
<1>1. Init => TypeOK /\ StartOrder
  BY InitTypeOK DEF Init, StartOrder
<1>2. TypeOK /\ StartOrder /\ [Next]_vars => (TypeOK /\ StartOrder)'
  BY StepTypeOK, StepStartOrder
<1> QED
  BY <1>1, <1>2, PTL DEF Spec

-----------------------------------------------------------------------------
(***************************************************************************)
(* The order of the shutdown                                               *)
(***************************************************************************)
LEMMA StepStopOrder == TypeOK /\ StartOrder /\ StopOrder /\ [Next]_vars => StopOrder'
<1> SUFFICES ASSUME TypeOK, StartOrder, StopOrder, [Next]_vars PROVE StopOrder'
  OBVIOUS
<1> USE RelayAssumption DEF TypeOK, StopOrder
<1>1. CASE Reader
  <2>1. readerAt \notin {"unborn", "done"} /\ ~jobsClosed /\ serve # "returned"
    BY <1>1 DEF Reader, PollRead, ReadFails, Register, Enqueue, AbortOffer, Overflow,
                Refuse, CallCancel, AnswerPing, ReadRequest, ReadCancel
  <2>2. UNCHANGED <<serve, jobsClosed, connection, workerAt>> /\ (stopped => stopped')
    BY <1>1 DEF Reader, PollRead, ReadFails, Register, Enqueue, AbortOffer, Overflow,
                Refuse, CallCancel, AnswerPing, ReadRequest, ReadCancel, Respond, FailWrite
  <2> QED
    BY <2>1, <2>2
<1>2. ASSUME NEW w \in Workers, Worker(w) PROVE StopOrder'
  <2>1. workerAt[w] \notin {"unborn", "exited"} /\ readerAt # "unborn" /\ serve # "returned"
    BY <1>2 DEF Worker, Take, Exit, BeginForward, Connect, WriteRequest, WriteFails,
                Replay, Abandon, TransportFails, ModelAnswers, Unregister, Answer, StartOrder
  <2>2. /\ UNCHANGED <<serve, jobsClosed, connection, readerAt>>
        /\ stopped => stopped'
        /\ \A v \in Workers : v # w => workerAt'[v] = workerAt[v]
    BY <1>2 DEF Worker, Take, Exit, BeginForward, Connect, WriteRequest, WriteFails,
                Replay, Abandon, TransportFails, ModelAnswers, Unregister, Answer,
                Settle, Respond, FailWrite
  <2>3. workerAt'[w] = "exited" => jobsClosed /\ jobs = <<>>
    BY <1>2 DEF Worker, Take, Exit, BeginForward, Connect, WriteRequest, WriteFails,
                Replay, Abandon, TransportFails, ModelAnswers, Unregister, Answer, Settle
  <2>4. jobs = <<>> => jobs' = <<>>
    BY <1>2 DEF Worker, Take, Exit, BeginForward, Connect, WriteRequest, WriteFails,
                Replay, Abandon, TransportFails, ModelAnswers, Unregister, Answer
  <2> QED
    BY <2>1, <2>2, <2>3, <2>4
<1>3. CASE Heartbeat
  BY <1>3 DEF Heartbeat, StopHeartbeat, HeartbeatFails, FailWrite
<1>4. CASE Main
  <2>1. CASE Hello
    BY <2>1 DEF Hello
  <2>2. CASE HelloFails
    BY <2>2 DEF HelloFails, StartOrder
  <2>3. CASE Wake
    BY <2>3 DEF Wake
  <2>4. CASE Close
    BY <2>4 DEF Close
  <2>5. CASE Drain
    BY <2>5 DEF Drain, ReadDone
  <2>6. CASE Return
    BY <2>6 DEF Return, WorkersDone
  <2> QED
    BY <1>4, <2>1, <2>2, <2>3, <2>4, <2>5, <2>6 DEF Main
<1>5. CASE Interrupt \/ Finished \/ UNCHANGED vars
  BY <1>5 DEF Interrupt, Finished
<1>6. ASSUME NEW r \in Requests, Expire(r) PROVE StopOrder'
  BY <1>6 DEF Expire
<1> QED
  BY <1>1, <1>2, <1>3, <1>4, <1>5, <1>6 DEF Next

-----------------------------------------------------------------------------
(***************************************************************************)
(* Where each request is                                                   *)
(***************************************************************************)

Distinct(s) == \A i, j \in DOMAIN s : s[i] = s[j] => i = j

\* What is in the queue after a send, and after a receive.
LEMMA EnqueueQueue ==
    ASSUME TypeOK, Enqueue
    PROVE  /\ \A q \in Requests : Queued(q)' <=> Queued(q) \/ q = readerReq
           /\ ~Queued(readerReq) /\ Distinct(jobs) => Distinct(jobs')
<1> USE RelayAssumption
<1>1. jobs \in Seq(Requests) /\ readerReq \in Requests /\ jobs' = Append(jobs, readerReq)
  BY DEF Enqueue, TypeOK
<1>2. /\ Len(jobs) \in Nat
      /\ DOMAIN jobs = 1 .. Len(jobs) /\ DOMAIN jobs' = 1 .. Len(jobs) + 1
      /\ \A i \in DOMAIN jobs : jobs'[i] = jobs[i]
      /\ jobs'[Len(jobs) + 1] = readerReq
  BY <1>1
<1>3. /\ \A i \in DOMAIN jobs' : i \in DOMAIN jobs \/ i = Len(jobs) + 1
      /\ Len(jobs) + 1 \in DOMAIN jobs' /\ DOMAIN jobs \subseteq DOMAIN jobs'
  BY <1>2
<1>4. ASSUME NEW q \in Requests PROVE Queued(q)' <=> Queued(q) \/ q = readerReq
  <2>1. Queued(q)' => Queued(q) \/ q = readerReq
    BY <1>2, <1>3 DEF Queued
  <2>2. Queued(q) => Queued(q)'
    BY <1>2, <1>3 DEF Queued
  <2>3. q = readerReq => Queued(q)'
    BY <1>2, <1>3 DEF Queued
  <2> QED
    BY <2>1, <2>2, <2>3
<1>5. ~Queued(readerReq) /\ Distinct(jobs) => Distinct(jobs')
  BY <1>2, <1>3 DEF Queued, Distinct
<1> QED
  BY <1>4, <1>5

LEMMA TakeQueue ==
    ASSUME TypeOK, NEW w \in Workers, Take(w), NEW job, job = Head(jobs),
           Distinct(jobs)
    PROVE  /\ job \in Requests /\ Queued(job)
           /\ \A q \in Requests : Queued(q)' <=> Queued(q) /\ q # job
           /\ Distinct(jobs')
<1>1. jobs \in Seq(Requests) /\ jobs # <<>> /\ jobs' = Tail(jobs)
  BY DEF Take, TypeOK
<1>2. /\ Len(jobs) \in Nat \ {0}
      /\ DOMAIN jobs = 1 .. Len(jobs) /\ DOMAIN jobs' = 1 .. Len(jobs) - 1
      /\ \A i \in DOMAIN jobs' : i + 1 \in DOMAIN jobs /\ jobs'[i] = jobs[i + 1]
      /\ job = jobs[1]
  BY <1>1
<1>3. /\ \A i \in DOMAIN jobs : i = 1 \/ (i - 1 \in DOMAIN jobs' /\ jobs'[i - 1] = jobs[i])
      /\ 1 \in DOMAIN jobs /\ \A i \in DOMAIN jobs' : i + 1 # 1
  BY <1>2
<1>4. job \in Requests /\ Queued(job)
  BY <1>1, <1>2, <1>3 DEF Queued
<1>5. ASSUME NEW q \in Requests PROVE Queued(q)' <=> Queued(q) /\ q # job
  <2>1. Queued(q)' => Queued(q)
    BY <1>2 DEF Queued
  <2>2. Queued(q)' => q # job
    <3>1. \A i \in DOMAIN jobs' : jobs'[i] # jobs[1]
      BY <1>2, <1>3 DEF Distinct
    <3> QED
      BY <1>2, <3>1 DEF Queued
  <2>3. Queued(q) /\ q # job => Queued(q)'
    <3> SUFFICES ASSUME NEW i \in DOMAIN jobs, jobs[i] = q, q # job PROVE Queued(q)'
      BY DEF Queued
    <3>1. i # 1
      BY <1>2
    <3>2. i - 1 \in DOMAIN jobs' /\ jobs'[i - 1] = q
      BY <1>3, <3>1
    <3> QED
      BY <3>2 DEF Queued
  <2> QED
    BY <2>1, <2>2, <2>3
<1>6. Distinct(jobs')
  BY <1>2 DEF Distinct
<1> QED
  BY <1>4, <1>5, <1>6

LEMMA StepOnePlace == TypeOK /\ StartOrder /\ OnePlace /\ [Next]_vars => OnePlace'
<1> SUFFICES ASSUME TypeOK, StartOrder, OnePlace, [Next]_vars PROVE OnePlace'
  OBVIOUS
<1> USE RelayAssumption
<1>0. ASSUME UNCHANGED <<jobs, workerJob, unread, responses>>,
             \A r \in Requests : Held(r)' <=> Held(r)
      PROVE  OnePlace'
  BY <1>0 DEF OnePlace, Queued, AtWorker
<1>1. CASE Reader
  <2> USE DEF TypeOK
  <2>1. CASE PollRead \/ ReadFails \/ CallCancel \/ AnswerPing
    BY <1>0, <2>1 DEF PollRead, ReadFails, CallCancel, AnswerPing, Held
  <2>2. CASE Register \/ Overflow
    BY <1>0, <2>2 DEF Register, Overflow, Held
  <2>3. ASSUME NEW id \in Ids, ReadCancel(id) PROVE OnePlace'
    BY <1>0, <2>3 DEF ReadCancel, Held
  <2>4. ASSUME NEW r \in Requests, ReadRequest(r) PROVE OnePlace'
    <3>1. /\ UNCHANGED <<jobs, workerJob, responses>>
          /\ unread' = unread \ {r} /\ r \in unread
          /\ \A q \in Requests : ~Held(q) /\ (Held(q)' <=> q = r)
      BY <2>4 DEF ReadRequest, Held, Verdict
    <3> QED
      BY <3>1 DEF OnePlace, Queued, AtWorker
  <2>5. CASE Enqueue
    <3>1. /\ UNCHANGED <<unread, workerJob, responses>>
          /\ readerReq \in Requests /\ Held(readerReq)
          /\ \A q \in Requests : ~Held(q)' /\ (Held(q) => q = readerReq)
          /\ jobs' = Append(jobs, readerReq)
      BY <2>5 DEF Enqueue, Held
    <3>2. \A q \in Requests : Queued(q)' <=> Queued(q) \/ q = readerReq
      BY <2>5, EnqueueQueue
    <3>3. \A i, j \in DOMAIN jobs' : jobs'[i] = jobs'[j] => i = j
      <4>1. ~Queued(readerReq)
        BY <3>1 DEF OnePlace
      <4> QED
        BY <2>5, <4>1, EnqueueQueue DEF OnePlace, Distinct
    <3> QED
      BY <3>1, <3>2, <3>3 DEF OnePlace, AtWorker
  <2>6. CASE AbortOffer
    <3>1. /\ UNCHANGED <<jobs, workerJob, unread, responses>>
          /\ \A r \in Requests : ~Held(r)'
      BY <2>6 DEF AbortOffer, Held
    <3> QED
      BY <3>1 DEF OnePlace, Queued, AtWorker
  <2>7. CASE Refuse
    <3>1. /\ UNCHANGED <<jobs, workerJob, unread>>
          /\ readerReq \in Requests /\ Held(readerReq)
          /\ \A r \in Requests : ~Held(r)'
          /\ Respond(readerReq)
      BY <2>7 DEF Refuse, Held
    <3>2. responses[readerReq] = 0
      BY <3>1 DEF OnePlace
    <3>3. /\ \A q \in Requests : q # readerReq => responses'[q] = responses[q]
          /\ responses'[readerReq] \in {0, 1}
      BY <3>1, <3>2, RespondStep
    <3>4. \A q \in Requests : /\ Queued(q)' <=> Queued(q)
                              /\ AtWorker(q)' <=> AtWorker(q)
      BY <3>1 DEF Queued, AtWorker
    <3>5. \A q \in Requests : Queued(q) \/ AtWorker(q) \/ q \in unread => q # readerReq
      BY <3>1 DEF OnePlace
    <3>6. \A r \in Requests :
             /\ r \in unread' \/ Queued(r)' \/ AtWorker(r)' => responses'[r] = 0
             /\ responses'[r] <= 1
      <4> TAKE r \in Requests
      <4>1. CASE r = readerReq
        BY <3>1, <3>3, <3>4, <3>5, <4>1
      <4>2. CASE r # readerReq
        BY <3>1, <3>3, <3>4, <4>2 DEF OnePlace
      <4> QED
        BY <4>1, <4>2
    <3> QED
      BY <3>1, <3>4, <3>6 DEF OnePlace
  <2> QED
    BY <1>1, <2>1, <2>2, <2>3, <2>4, <2>5, <2>6, <2>7 DEF Reader
<1>2. ASSUME NEW w \in Workers, Worker(w) PROVE OnePlace'
  <2> USE DEF TypeOK
  <2>1. CASE \/ Exit(w) \/ BeginForward(w) \/ Connect(w) \/ WriteRequest(w)
             \/ WriteFails(w) \/ Replay(w) \/ Abandon(w) \/ TransportFails(w)
             \/ ModelAnswers(w) \/ Unregister(w)
    BY <1>0, <2>1 DEF Exit, BeginForward, Connect, WriteRequest, WriteFails, Replay,
                      Abandon, TransportFails, ModelAnswers, Unregister, Held
  <2>2. CASE Take(w)
    <3>1. PICK job \in Requests : job = Head(jobs)
      BY <2>2 DEF Take
    <3>2. /\ UNCHANGED <<unread, responses, readerReq, readerAt>>
          /\ workerJob' = [workerJob EXCEPT ![w] = job] /\ workerJob[w] = None
      BY <2>2, <3>1 DEF Take
    <3>3. /\ Queued(job)
          /\ \A q \in Requests : Queued(q)' <=> Queued(q) /\ q # job
          /\ \A i, j \in DOMAIN jobs' : jobs'[i] = jobs'[j] => i = j
      BY <2>2, <3>1, TakeQueue DEF OnePlace, Distinct
    <3>4. \A q \in Requests : AtWorker(q)' <=> AtWorker(q) \/ q = job
      BY <3>2 DEF AtWorker
    <3>6. \A u, v \in Workers : workerJob'[u] = workerJob'[v] /\ workerJob'[u] # None
                                 => u = v
      BY <3>2, <3>3 DEF OnePlace, AtWorker
    <3>7. \A q \in Requests : Held(q)' <=> Held(q)
      BY <3>2 DEF Held
    <3> QED
      BY <3>2, <3>3, <3>4, <3>6, <3>7 DEF OnePlace
  <2>3. CASE Answer(w)
    <3>1. PICK job \in Requests : job = workerJob[w]
      BY <2>3 DEF Answer
    <3>2. /\ UNCHANGED <<unread, jobs, readerReq, readerAt>>
          /\ workerJob' = [workerJob EXCEPT ![w] = None]
          /\ AtWorker(job)
          /\ Respond(job)
      BY <2>3, <3>1 DEF Answer, AtWorker
    <3>3. responses[job] = 0
      BY <3>2 DEF OnePlace
    <3>4. /\ \A q \in Requests : q # job => responses'[q] = responses[q]
          /\ responses'[job] \in {0, 1}
      <4>1. /\ \A q \in Requests : q # job => responses'[q] = responses[q]
            /\ responses'[job] \in {responses[job], responses[job] + 1}
        BY <3>2, RespondStep
      <4> QED
        BY <3>3, <4>1
    <3>5. \A q \in Requests : AtWorker(q)' <=> AtWorker(q) /\ q # job
      BY <3>1, <3>2 DEF AtWorker, OnePlace
    <3>6. \A q \in Requests : (Held(q)' <=> Held(q)) /\ (Queued(q)' <=> Queued(q))
      BY <3>2 DEF Held, Queued
    <3>7. \A u, v \in Workers : workerJob'[u] = workerJob'[v] /\ workerJob'[u] # None
                                 => u = v
      BY <3>2 DEF OnePlace
    <3>8. \A q \in Requests : Held(q) \/ Queued(q) \/ q \in unread => q # job
      BY <3>2 DEF OnePlace
    <3>9. \A q \in Requests :
             /\ q \in unread' \/ Held(q)' \/ Queued(q)' \/ AtWorker(q)' => responses'[q] = 0
             /\ responses'[q] <= 1
      <4> TAKE q \in Requests
      <4>1. CASE q = job
        BY <3>2, <3>4, <3>5, <3>6, <3>8, <4>1
      <4>2. CASE q # job
        BY <3>2, <3>4, <3>5, <3>6, <4>2 DEF OnePlace
      <4> QED
        BY <4>1, <4>2
    <3> QED
      BY <3>2, <3>5, <3>6, <3>7, <3>9 DEF OnePlace
  <2> QED
    BY <1>2, <2>1, <2>2, <2>3 DEF Worker
<1>3. CASE Heartbeat
  BY <1>0, <1>3 DEF Heartbeat, StopHeartbeat, HeartbeatFails, Held
<1>4. CASE Main
  BY <1>0, <1>4 DEF Main, Hello, HelloFails, Wake, Close, Drain, Return, Held, StartOrder
<1>5. CASE Interrupt \/ Finished \/ UNCHANGED vars
  BY <1>0, <1>5 DEF Interrupt, Finished, Held
<1>6. ASSUME NEW r \in Requests, Expire(r) PROVE OnePlace'
  BY <1>0, <1>6 DEF Expire, Held
<1> QED
  BY <1>1, <1>2, <1>3, <1>4, <1>5, <1>6 DEF Next

-----------------------------------------------------------------------------
(***************************************************************************)
(* What the cancellations map holds                                        *)
(***************************************************************************)
LEMMA StepRegistryExact ==
    TypeOK /\ StartOrder /\ OnePlace /\ RegistryExact /\ [Next]_vars => RegistryExact'
<1> SUFFICES ASSUME TypeOK, StartOrder, OnePlace, RegistryExact, [Next]_vars
             PROVE  RegistryExact'
  OBVIOUS
<1> USE RelayAssumption
<1>0. ASSUME UNCHANGED cancellations, unread' \subseteq unread,
             \A r \in Requests : Active(r)' <=> Active(r),
             readerAt' # "done" => readerAt # "done",
             readerAt' # "register" \/ UNCHANGED <<readerAt, readerReq>>
      PROVE  RegistryExact'
  BY <1>0 DEF RegistryExact, TypeOK
<1>1. CASE Reader
  <2> USE DEF TypeOK
  <2>1. CASE PollRead \/ ReadFails \/ CallCancel \/ AnswerPing \/ Refuse
    BY <1>0, <2>1 DEF PollRead, ReadFails, CallCancel, AnswerPing, Refuse, Active, Queued,
                      InForward
  <2>2. ASSUME NEW id \in Ids, ReadCancel(id) PROVE RegistryExact'
    BY <1>0, <2>2 DEF ReadCancel, Active, Queued, InForward
  <2>3. ASSUME NEW r \in Requests, ReadRequest(r) PROVE RegistryExact'
    <3>1. /\ UNCHANGED <<cancellations, jobs, workerAt, workerJob>>
          /\ unread' \subseteq unread /\ readerReq' = r
          /\ readerAt = "read" /\ readerAt' \in {"register", "refuse"}
          /\ readerAt' = "register" => cancellations[IdOf[r]] = None
      BY <2>3 DEF ReadRequest, Verdict
    <3>2. \A q \in Requests : Active(q)' <=> Active(q)
      BY <3>1 DEF Active, Queued, InForward
    <3> QED
      BY <3>1, <3>2 DEF RegistryExact
  <2>4. CASE Register
    <3>1. PICK r \in Requests : r = readerReq
      BY <2>4 DEF Register
    <3>2. /\ UNCHANGED <<unread, jobs, workerAt, workerJob, readerReq>>
          /\ readerAt = "register" /\ readerAt' = "offer"
          /\ cancellations' = [cancellations EXCEPT ![IdOf[r]] = r]
      BY <2>4, <3>1 DEF Register
    <3>3. \A q \in Requests : Active(q)' <=> Active(q) \/ q = r
      BY <3>1, <3>2 DEF Active, Queued, InForward
    <3>4. \A q \in Requests : Active(q) => IdOf[q] # IdOf[r]
      BY <3>1, <3>2 DEF RegistryExact
    <3>5. r \notin unread
      BY <3>1, <3>2 DEF OnePlace, Held
    <3> QED
      BY <3>2, <3>3, <3>4, <3>5 DEF RegistryExact
  <2>5. CASE Enqueue
    <3>1. /\ UNCHANGED <<cancellations, unread, workerAt, workerJob>>
          /\ readerAt = "offer" /\ readerAt' = "poll"
      BY <2>5 DEF Enqueue
    <3>2. \A q \in Requests : Active(q)' <=> Active(q)
      BY <2>5, <3>1, EnqueueQueue DEF Active, InForward
    <3> QED
      BY <1>0, <3>1, <3>2
  <2>6. CASE AbortOffer
    <3>1. /\ UNCHANGED <<cancellations, unread, jobs, workerAt, workerJob>>
          /\ readerAt' = "done"
      BY <2>6 DEF AbortOffer
    <3>2. \A q \in Requests : Active(q)' => Active(q)
      BY <3>1 DEF Active, Queued, InForward
    <3> QED
      BY <3>1, <3>2 DEF RegistryExact
  <2>7. CASE Overflow
    <3>1. PICK r \in Requests : r = readerReq
      BY <2>7 DEF Overflow
    <3>2. /\ UNCHANGED <<unread, jobs, workerAt, workerJob, readerReq>>
          /\ readerAt = "offer" /\ readerAt' = "refuse"
          /\ cancellations' = [cancellations EXCEPT ![IdOf[r]] = None]
      BY <2>7, <3>1 DEF Overflow, Forget
    <3>3. ~Queued(r) /\ ~AtWorker(r) /\ Active(r)
      BY <3>1, <3>2 DEF OnePlace, Held, Active
    <3>4. \A q \in Requests : Active(q)' <=> Active(q) /\ q # r
      BY <3>1, <3>2, <3>3 DEF Active, Queued, InForward, AtWorker
    <3> QED
      BY <3>2, <3>3, <3>4 DEF RegistryExact
  <2> QED
    BY <1>1, <2>1, <2>2, <2>3, <2>4, <2>5, <2>6, <2>7 DEF Reader
<1>2. ASSUME NEW w \in Workers, Worker(w) PROVE RegistryExact'
  <2> USE DEF TypeOK
  <2>1. CASE Take(w)
    <3>1. PICK job \in Requests : job = Head(jobs)
      BY <2>1 DEF Take
    <3>2. /\ UNCHANGED <<cancellations, unread, readerReq, readerAt>>
          /\ workerJob' = [workerJob EXCEPT ![w] = job] /\ workerJob[w] = None
          /\ workerAt' = [workerAt EXCEPT ![w] = "forward"]
      BY <2>1, <3>1 DEF Take
    <3>3. Queued(job) /\ \A q \in Requests : Queued(q)' <=> Queued(q) /\ q # job
      BY <2>1, <3>1, TakeQueue DEF OnePlace, Distinct
    <3>4. \A q \in Requests : InForward(q)' <=> InForward(q) \/ q = job
      BY <3>2 DEF InForward
    <3>5. \A q \in Requests : Active(q)' <=> Active(q)
      BY <3>2, <3>3, <3>4 DEF Active
    <3> QED
      BY <1>0, <3>2, <3>5
  <2>2. CASE Unregister(w)
    <3>1. PICK job \in Requests : job = workerJob[w]
      BY <2>2 DEF Unregister
    <3>2. /\ UNCHANGED <<unread, readerReq, readerAt, jobs, workerJob>>
          /\ workerAt[w] = "settle" /\ workerAt' = [workerAt EXCEPT ![w] = "answer"]
          /\ cancellations' = [cancellations EXCEPT ![IdOf[job]] = None]
      BY <2>2, <3>1 DEF Unregister, Forget
    <3>3. Active(job) /\ AtWorker(job)
      BY <3>1, <3>2 DEF Active, InForward, AtWorker
    <3>4. ~Queued(job) /\ ~Held(job)
      BY <3>3 DEF OnePlace
    <3>5. \A q \in Requests : InForward(q)' <=> InForward(q) /\ q # job
      BY <3>1, <3>2 DEF InForward, OnePlace
    <3>6. \A q \in Requests : Active(q)' <=> Active(q) /\ q # job
      BY <3>2, <3>4, <3>5 DEF Active, Queued, Held
    <3> QED
      BY <3>2, <3>3, <3>6 DEF RegistryExact
  <2>3. CASE \/ Exit(w) \/ BeginForward(w) \/ Connect(w) \/ WriteRequest(w)
             \/ WriteFails(w) \/ Replay(w) \/ Abandon(w) \/ TransportFails(w)
             \/ ModelAnswers(w)
    <3>1. /\ UNCHANGED <<cancellations, unread, readerReq, readerAt, jobs, workerJob>>
          /\ \A v \in Workers : workerAt'[v] \in Handling \ {"answer"}
                                <=> workerAt[v] \in Handling \ {"answer"}
      BY <2>3 DEF Exit, BeginForward, Connect, WriteRequest, WriteFails, Replay, Abandon,
                  TransportFails, ModelAnswers, Settle
    <3>2. \A q \in Requests : Active(q)' <=> Active(q)
      BY <3>1 DEF Active, Queued, InForward
    <3> QED
      BY <1>0, <3>1, <3>2
  <2>4. CASE Answer(w)
    <3>1. /\ UNCHANGED <<cancellations, unread, readerReq, readerAt, jobs>>
          /\ workerAt[w] = "answer" /\ workerAt' = [workerAt EXCEPT ![w] = "idle"]
          /\ workerJob' = [workerJob EXCEPT ![w] = None]
      BY <2>4 DEF Answer
    <3>2. \A q \in Requests : Active(q)' <=> Active(q)
      BY <3>1 DEF Active, Queued, InForward
    <3> QED
      BY <1>0, <3>1, <3>2
  <2> QED
    BY <1>2, <2>1, <2>2, <2>3, <2>4 DEF Worker
<1>3. CASE Heartbeat
  BY <1>0, <1>3 DEF Heartbeat, StopHeartbeat, HeartbeatFails, Active, Queued, InForward
<1>4. CASE Main
  <2>1. CASE Hello
    <3>1. /\ UNCHANGED <<cancellations, unread, jobs, workerJob>>
          /\ readerAt = "unborn" /\ readerAt' = "poll"
          /\ \A v \in Workers : workerAt[v] = "unborn" /\ workerAt'[v] = "idle"
      BY <2>1 DEF Hello, StartOrder
    <3>2. \A q \in Requests : Active(q)' <=> Active(q)
      BY <3>1 DEF Active, Queued, InForward
    <3> QED
      BY <1>0, <3>1, <3>2
  <2>2. CASE HelloFails \/ Wake \/ Close \/ Drain \/ Return
    BY <1>0, <2>2 DEF HelloFails, Wake, Close, Drain, Return, Active, Queued, InForward
  <2> QED
    BY <1>4, <2>1, <2>2 DEF Main
<1>5. CASE Interrupt \/ Finished \/ UNCHANGED vars
  BY <1>0, <1>5 DEF Interrupt, Finished, Active, Queued, InForward
<1>6. ASSUME NEW r \in Requests, Expire(r) PROVE RegistryExact'
  BY <1>0, <1>6 DEF Expire, Active, Queued, InForward
<1> QED
  BY <1>1, <1>2, <1>3, <1>4, <1>5, <1>6 DEF Next

-----------------------------------------------------------------------------
(***************************************************************************)
(* The bound of the queue, and the reasons to stop                         *)
(***************************************************************************)
LEMMA StepQueueBounded == TypeOK /\ QueueBounded /\ [Next]_vars => QueueBounded'
<1> SUFFICES ASSUME TypeOK, QueueBounded, [Next]_vars PROVE QueueBounded'
  OBVIOUS
<1> USE RelayAssumption DEF QueueBounded
<1>0. CASE UNCHANGED jobs
  BY <1>0
<1>1. CASE Enqueue
  <2>1. jobs \in Seq(Requests) /\ readerReq \in Requests
    BY <1>1 DEF Enqueue, TypeOK
  <2> QED
    BY <1>1, <2>1 DEF Enqueue, QueueHasRoom
<1>2. ASSUME NEW w \in Workers, Take(w) PROVE QueueBounded'
  <2>1. jobs \in Seq(Requests) /\ jobs # <<>>
    BY <1>2 DEF Take, TypeOK
  <2> QED
    BY <1>2, <2>1 DEF Take
<1>3. CASE Reader /\ ~Enqueue
  BY <1>0, <1>3 DEF Reader, PollRead, ReadFails, Register, AbortOffer, Overflow,
                    Refuse, CallCancel, AnswerPing, ReadRequest, ReadCancel
<1>4. ASSUME NEW w \in Workers, Worker(w), ~Take(w) PROVE UNCHANGED jobs
  BY <1>4 DEF Worker, Exit, BeginForward, Connect, WriteRequest, WriteFails,
              Replay, Abandon, TransportFails, ModelAnswers, Unregister, Answer
<1>5. CASE Heartbeat \/ Main \/ Interrupt \/ Finished \/ UNCHANGED vars
  BY <1>0, <1>5 DEF Heartbeat, StopHeartbeat, HeartbeatFails, Main, Hello, HelloFails,
                    Wake, Close, Drain, Return, Interrupt, Finished
<1>6. ASSUME NEW r \in Requests, Expire(r) PROVE UNCHANGED jobs
  BY <1>6 DEF Expire
<1> QED
  BY <1>0, <1>1, <1>2, <1>3, <1>4, <1>5, <1>6 DEF Next

LEMMA StepCauseKept == TypeOK /\ CauseKept /\ [Next]_vars => CauseKept'
<1> SUFFICES ASSUME TypeOK, CauseKept, [Next]_vars PROVE CauseKept'
  OBVIOUS
<1>0. ASSUME UNCHANGED <<serve, result, interrupted>>,
             FailWrite \/ UNCHANGED <<stopped, writeErrors>>
      PROVE  CauseKept'
  BY <1>0 DEF CauseKept, FailWrite
<1>1. CASE Reader
  BY <1>0, <1>1 DEF Reader, PollRead, ReadFails, Register, Enqueue, AbortOffer, Overflow,
                    Refuse, Respond, CallCancel, AnswerPing, ReadRequest, ReadCancel
<1>2. ASSUME NEW w \in Workers, Worker(w) PROVE CauseKept'
  BY <1>0, <1>2 DEF Worker, Take, Exit, BeginForward, Connect, WriteRequest, WriteFails,
                    Replay, Abandon, TransportFails, ModelAnswers, Unregister, Answer,
                    Respond
<1>3. CASE Heartbeat
  BY <1>0, <1>3 DEF Heartbeat, StopHeartbeat, HeartbeatFails
<1>4. CASE Hello
  BY <1>4 DEF Hello, CauseKept
<1>5. CASE HelloFails
  BY <1>5 DEF HelloFails, CauseKept
<1>6. CASE Wake
  BY <1>6 DEF Wake, CauseKept, SessionDone
<1>7. CASE Close \/ Drain \/ Return
  BY <1>7 DEF Close, Drain, Return, CauseKept
<1>8. CASE Interrupt
  BY <1>8 DEF Interrupt, CauseKept
<1>9. ASSUME NEW r \in Requests, Expire(r) PROVE CauseKept'
  BY <1>0, <1>9 DEF Expire
<1>10. CASE Finished \/ UNCHANGED vars
  BY <1>0, <1>10 DEF Finished
<1> QED
  BY <1>1, <1>2, <1>3, <1>4, <1>5, <1>6, <1>7, <1>8, <1>9, <1>10 DEF Next, Main

-----------------------------------------------------------------------------
(***************************************************************************)
(* What the model API has seen                                             *)
(***************************************************************************)

\* Nobody has shown r to the model API.
Unshown(r) == r \in unread \/ Held(r) \/ Queued(r)

\* CallsExact of one worker.
CallsOf(w) ==
    /\ workerAt[w] = "forward" => calls[workerJob[w]] = 0
    /\ workerAt[w] \in {"connect", "write"}
           /\ (w \notin written \/ workerJob[w] \notin Replayable)
          => calls[workerJob[w]] = 0
    /\ workerAt[w] = "await" => w \in written
    /\ workerCode[w] = "local_predispatch_unavailable" =>
          workerAt[w] \in {"settle", "answer"} /\ calls[workerJob[w]] = 0

\* Only an error that says so, and no "other", is one before dispatch.
LEMMA PredispatchCode ==
  ASSUME NEW cause, NEW phase,
         ErrorCode(cause, phase) = "local_predispatch_unavailable"
  PROVE  phase = "unwritten"
  BY DEF ErrorCode

LEMMA WorkerCallsExact ==
  ASSUME TypeOK, OnePlace, CallsExact, NEW w \in Workers, Worker(w)
  PROVE  CallsExact'
<1> USE RelayAssumption
<1> DEFINE job == workerJob[w]
<1>0. \A v \in Workers : CallsOf(v)
  BY DEF CallsExact, CallsOf
<1>1. ASSUME UNCHANGED <<unread, readerReq, readerAt, calls>>,
             \A r \in Requests : Queued(r)' => Queued(r),
             \A v \in Workers : CallsOf(v)'
      PROVE  CallsExact'
  BY <1>1 DEF CallsExact, CallsOf, Held, InferenceNotReplayed
<1>2. ASSUME NEW v \in Workers, v # w, UNCHANGED calls, 
             workerAt'[v] = workerAt[v], workerCode'[v] = workerCode[v],
             workerJob'[v] = workerJob[v], v \in written' <=> v \in written
      PROVE  CallsOf(v)'
  BY <1>0, <1>2 DEF CallsOf
<1>3. CASE Take(w)
  <2>1. PICK r \in Requests : r = Head(jobs)
    BY <1>3 DEF Take, TypeOK
  <2>2. /\ Queued(r)
        /\ \A q \in Requests : Queued(q)' => Queued(q)
    BY <1>3, <2>1, TakeQueue DEF OnePlace, Distinct
  <2>3. calls[r] = 0
    BY <2>2 DEF CallsExact
  <2>4. CallsOf(w)'
    BY <1>0, <1>3, <2>1, <2>3 DEF Take, CallsOf, TypeOK
  <2>5. ASSUME NEW v \in Workers, v # w PROVE CallsOf(v)'
    BY <1>2, <1>3, <2>5 DEF Take, TypeOK
  <2> QED
    BY <1>1, <1>3, <2>2, <2>4, <2>5 DEF Take
<1>4. CASE WriteRequest(w)
  <2>1. /\ job \in Requests
        /\ calls' = [calls EXCEPT ![job] = @ + 1]
        /\ workerAt[w] = "write" /\ workerAt' = [workerAt EXCEPT ![w] = "await"]
        /\ written' = written \cup {w}
        /\ UNCHANGED <<unread, readerReq, readerAt, jobs, workerJob, workerCode>>
    BY <1>4 DEF WriteRequest, TypeOK
  <2>2. calls \in [Requests -> Nat]
    BY DEF TypeOK
  <2>3. \A r \in Requests : r # job => calls'[r] = calls[r]
    BY <2>1, <2>2
  <2>4. \A r \in Requests : Unshown(r)' => Unshown(r) /\ r # job
    BY <2>1 DEF Unshown, OnePlace, AtWorker, Held, Queued
  <2>5. ASSUME NEW v \in Workers, v # w PROVE CallsOf(v)'
    <3>1. workerJob[v] # job
      BY <2>1, <2>5 DEF OnePlace
    <3>2. workerJob[v] # None => calls'[workerJob[v]] = calls[workerJob[v]]
      BY <2>3, <3>1 DEF TypeOK
    <3>3. workerJob[v] = None => workerAt[v] \notin Handling
      BY DEF TypeOK
    <3> QED
      BY <1>0, <2>1, <2>5, <3>2, <3>3 DEF CallsOf, TypeOK
  <2>6. CallsOf(w)'
    BY <1>0, <2>1 DEF CallsOf, TypeOK
  <2>7. InferenceNotReplayed'
    <3>1. job \notin Replayable => calls[job] = 0
      BY <1>0, <2>1 DEF CallsOf
    <3>2. job \notin Replayable => calls'[job] = 1
      BY <2>1, <2>2, <3>1
    <3> QED
      BY <2>3, <3>2 DEF InferenceNotReplayed, CallsExact
  <2> QED
    BY <2>3, <2>4, <2>5, <2>6, <2>7 DEF CallsExact, CallsOf, Unshown
<1>5. CASE Answer(w)
  <2>1. /\ UNCHANGED <<unread, readerReq, readerAt, jobs, calls, written>>
        /\ workerAt' = [workerAt EXCEPT ![w] = "idle"]
        /\ workerJob' = [workerJob EXCEPT ![w] = None]
        /\ workerCode' = [workerCode EXCEPT ![w] = "none"]
    BY <1>5 DEF Answer
  <2>2. CallsOf(w)'
    BY <2>1 DEF CallsOf, TypeOK
  <2>3. ASSUME NEW v \in Workers, v # w PROVE CallsOf(v)'
    BY <1>2, <2>1, <2>3 DEF TypeOK
  <2> QED
    BY <1>1, <2>1, <2>2, <2>3 DEF Queued
<1>6. ASSUME UNCHANGED <<unread, readerReq, readerAt, jobs, calls, workerJob>>,
             NEW point, workerAt' = [workerAt EXCEPT ![w] = point],
             NEW code, workerCode' = [workerCode EXCEPT ![w] = code],
             written' \in {written, written \cup {w}, written \ {w}},
             CallsOf(w)'
      PROVE  CallsExact'
  <2>1. ASSUME NEW v \in Workers, v # w PROVE CallsOf(v)'
    BY <1>2, <1>6, <2>1 DEF TypeOK
  <2> QED
    BY <1>1, <1>6, <2>1 DEF Queued
<1>7. CASE BeginForward(w)
  <2>1. PICK point, code :
           /\ workerAt' = [workerAt EXCEPT ![w] = point]
           /\ workerCode' = [workerCode EXCEPT ![w] = code]
           /\ point \in {"connect", "settle"}
           /\ code # "local_predispatch_unavailable" \/ code = workerCode[w]
    BY <1>7, PredispatchCode DEF BeginForward, Settle, TypeOK
  <2>2. CallsOf(w)'
    BY <1>0, <1>7, <2>1 DEF BeginForward, CallsOf, TypeOK
  <2> QED
    BY <1>6, <1>7, <2>1, <2>2 DEF BeginForward
<1>8. CASE WriteFails(w)
  <2>1. PICK point, code :
           /\ workerAt' = [workerAt EXCEPT ![w] = point]
           /\ workerCode' = [workerCode EXCEPT ![w] = code]
           /\ point \in {"connect", "settle"}
           /\ code # "local_predispatch_unavailable" \/ code = workerCode[w]
    BY <1>8, PredispatchCode DEF WriteFails, Settle, TypeOK
  <2>2. CallsOf(w)'
    BY <1>0, <1>8, <2>1 DEF WriteFails, CallsOf, TypeOK
  <2> QED
    BY <1>6, <1>8, <2>1, <2>2 DEF WriteFails
<1>9. CASE Connect(w) \/ Replay(w) \/ Exit(w) \/ Unregister(w)
  <2>1. PICK point, code :
           /\ workerAt' = [workerAt EXCEPT ![w] = point]
           /\ workerCode' = [workerCode EXCEPT ![w] = code]
           /\ code = workerCode[w]
    BY <1>9 DEF Connect, Replay, Exit, Unregister, TypeOK
  <2>2. CallsOf(w)'
    BY <1>0, <1>9 DEF Connect, Replay, Exit, Unregister, CallsOf, TypeOK
  <2> QED
    BY <1>6, <1>9, <2>1, <2>2 DEF Connect, Replay, Exit, Unregister
<1>10. CASE Abandon(w) \/ TransportFails(w) \/ ModelAnswers(w)
  <2>1. PICK code : 
           /\ Settle(w, code)
           /\ code = "local_predispatch_unavailable" => w \notin written
    BY <1>10, PredispatchCode DEF Abandon, TransportFails, ModelAnswers, Phase
  <2>2. CallsOf(w)'
    BY <1>0, <1>10, <2>1 DEF Abandon, TransportFails, ModelAnswers, Settle, CallsOf, TypeOK
  <2> QED
    BY <1>6, <1>10, <2>1, <2>2 DEF Abandon, TransportFails, ModelAnswers, Settle
<1> QED
  BY <1>3, <1>4, <1>5, <1>7, <1>8, <1>9, <1>10 DEF Worker

LEMMA StepCallsExact ==
    TypeOK /\ StartOrder /\ OnePlace /\ CallsExact /\ [Next]_vars => CallsExact'
<1> SUFFICES ASSUME TypeOK, StartOrder, OnePlace, CallsExact, [Next]_vars PROVE CallsExact'
  OBVIOUS
<1> USE RelayAssumption
<1>1. ASSUME UNCHANGED <<calls, workerJob, workerCode, written>>,
             workerAt' = workerAt \/ \A w \in Workers : workerAt'[w] = "idle" /\ workerAt[w] = "unborn",
             \A r \in Requests : Unshown(r)' => Unshown(r)
      PROVE  CallsExact'
  BY <1>1 DEF CallsExact, Unshown, InferenceNotReplayed
<1>2. CASE Reader
  <2>1. UNCHANGED <<calls, workerJob, workerCode, written, workerAt>>
    BY <1>2 DEF Reader, PollRead, ReadFails, Register, Enqueue, AbortOffer, Overflow,
                Refuse, CallCancel, AnswerPing, ReadRequest, ReadCancel
  <2>2. CASE Enqueue
    <3>1. Held(readerReq)
      BY <2>2 DEF Enqueue, Held
    <3>2. \A q \in Requests : Queued(q)' <=> Queued(q) \/ q = readerReq
      BY <2>2, EnqueueQueue
    <3>3. \A q \in Requests : Unshown(q)' => Unshown(q)
      BY <2>2, <3>1, <3>2 DEF Enqueue, Unshown, Held, TypeOK
    <3> QED
      BY <1>1, <2>1, <3>3
  <2>3. CASE ~Enqueue
    <3>1. UNCHANGED jobs
      BY <1>2, <2>3 DEF Reader, PollRead, ReadFails, Register, AbortOffer, Overflow,
                Refuse, CallCancel, AnswerPing, ReadRequest, ReadCancel
    <3>2. \A q \in Requests : q \in unread' \/ Held(q)' => q \in unread \/ Held(q)
      BY <1>2, <2>3 DEF Reader, PollRead, ReadFails, Register, AbortOffer, Overflow,
                Refuse, CallCancel, AnswerPing, ReadRequest, ReadCancel, Held, TypeOK
    <3> QED
      BY <1>1, <2>1, <3>1, <3>2 DEF Unshown, Queued
  <2> QED
    BY <2>2, <2>3
<1>3. ASSUME NEW w \in Workers, Worker(w) PROVE CallsExact'
  BY <1>3, WorkerCallsExact
<1>4. CASE Heartbeat \/ Main \/ Interrupt \/ Finished \/ UNCHANGED vars
  BY <1>1, <1>4 DEF Heartbeat, StopHeartbeat, HeartbeatFails, Main, Hello, HelloFails,
                    Wake, Close, Drain, Return, Interrupt, Finished, StartOrder, Unshown,
                    Held, Queued, TypeOK
<1>5. ASSUME NEW r \in Requests, Expire(r) PROVE CallsExact'
  BY <1>1, <1>5 DEF Expire, Unshown, Held, Queued
<1> QED
  BY <1>2, <1>3, <1>4, <1>5 DEF Next

-----------------------------------------------------------------------------
LEMMA StepCtxFresh ==
    TypeOK /\ StartOrder /\ OnePlace /\ RegistryExact /\ CtxFresh /\ [Next]_vars => CtxFresh'
<1> SUFFICES ASSUME TypeOK, StartOrder, OnePlace, RegistryExact, CtxFresh, [Next]_vars
             PROVE  CtxFresh'
  OBVIOUS
<1> USE RelayAssumption DEF TypeOK
<1>0. ASSUME UNCHANGED <<unread, readerReq, readerAt>>,
             \A r \in Requests : ctx[r] = "none" => ctx'[r] = "none"
      PROVE  CtxFresh'
  BY <1>0 DEF CtxFresh
<1>1. CASE Reader
  <2>1. CASE PollRead \/ ReadFails \/ Refuse \/ AnswerPing \/ Enqueue
    BY <2>1 DEF PollRead, ReadFails, Refuse, AnswerPing, Enqueue, CtxFresh
  <2>2. CASE Register \/ AbortOffer \/ Overflow
    <3>1. PICK r \in Requests : r = readerReq /\ r \notin unread
      BY <2>2 DEF Register, AbortOffer, Overflow, OnePlace, Held
    <3> QED
      BY <2>2, <3>1 DEF Register, AbortOffer, Overflow, Release, CtxFresh
  <2>3. CASE CallCancel
    <3>1. PICK r \in Requests : r = readerReq /\ r \notin unread
      BY <2>3 DEF CallCancel, CtxFresh
    <3> QED
      BY <2>3, <3>1 DEF CallCancel, CtxFresh
  <2>4. ASSUME NEW r \in Requests, ReadRequest(r) PROVE CtxFresh'
    BY <2>4 DEF ReadRequest, CtxFresh
  <2>5. ASSUME NEW id \in Ids, ReadCancel(id) PROVE CtxFresh'
    BY <2>5 DEF ReadCancel, CtxFresh, RegistryExact
  <2> QED
    BY <1>1, <2>1, <2>2, <2>3, <2>4, <2>5 DEF Reader
<1>2. ASSUME NEW w \in Workers, Worker(w) PROVE CtxFresh'
  <2>1. CASE Answer(w)
    <3>1. PICK r \in Requests : /\ r = workerJob[w]
                                /\ r \notin unread /\ ~Held(r)
      BY <2>1 DEF Answer, OnePlace, AtWorker
    <3> QED
      BY <2>1, <3>1 DEF Answer, Release, CtxFresh, Held
  <2>2. CASE ~Answer(w)
    BY <1>0, <1>2, <2>2 DEF Worker, Take, Exit, BeginForward, Connect, WriteRequest,
       WriteFails, Replay, Abandon, TransportFails, ModelAnswers, Unregister
  <2> QED
    BY <2>1, <2>2
<1>3. CASE Heartbeat \/ Interrupt \/ Finished \/ UNCHANGED vars
  BY <1>0, <1>3 DEF Heartbeat, StopHeartbeat, HeartbeatFails, Interrupt, Finished
<1>4. CASE Main
  BY <1>4 DEF Main, Hello, HelloFails, Wake, Close, Drain, Return, CtxFresh
<1>5. ASSUME NEW r \in Requests, Expire(r) PROVE CtxFresh'
  BY <1>0, <1>5 DEF Expire, CtxErr
<1> QED
  BY <1>1, <1>2, <1>3, <1>4, <1>5 DEF Next

-----------------------------------------------------------------------------
(***************************************************************************)
(* The theorems                                                            *)
(***************************************************************************)
LEMMA InitIInv == Init => IInv
<1> SUFFICES ASSUME Init PROVE IInv
  OBVIOUS
<1> USE RelayAssumption
<1>1. TypeOK
  BY InitTypeOK
<1>2. StartOrder /\ StopOrder
  BY DEF Init, StartOrder, StopOrder
<1>3. OnePlace
  BY DEF Init, OnePlace, Queued, AtWorker, Held
<1>4. RegistryExact
  BY DEF Init, RegistryExact, Active, Queued, InForward
<1>5. QueueBounded /\ CauseKept /\ CtxFresh
  BY DEF Init, QueueBounded, CauseKept, CtxFresh
<1>6. CallsExact
  BY DEF Init, CallsExact, InferenceNotReplayed
<1> QED
  BY <1>1, <1>2, <1>3, <1>4, <1>5, <1>6 DEF IInv

\* The conjuncts of IInv hold together in every reachable state.
THEOREM Inductive == Spec => []IInv
<1>1. IInv /\ [Next]_vars => IInv'
  BY StepTypeOK, StepStartOrder, StepStopOrder, StepOnePlace, StepRegistryExact,
     StepQueueBounded, StepCallsExact, StepCauseKept, StepCtxFresh
  DEF IInv
<1> QED
  BY InitIInv, <1>1, PTL DEF Spec

\* The id of every active request leads to it in the cancellations map.
THEOREM RegistryIsComplete == Spec => []CancelReachesActive
<1>1. IInv => CancelReachesActive
  BY DEF IInv, RegistryExact, CancelReachesActive
<1> QED
  BY Inductive, <1>1, PTL

\* While the read loop runs, the map holds no entry of a finished request.
THEOREM RegistryIsSound == Spec => []RegistryHasNoGhosts
<1>1. IInv => RegistryHasNoGhosts
  BY DEF IInv, RegistryExact, RegistryHasNoGhosts
<1> QED
  BY Inductive, <1>1, PTL

\* Two active requests never share an id.
THEOREM UniqueIds == Spec => []UniqueWhileActive
<1>1. IInv => UniqueWhileActive
  BY DEF IInv, RegistryExact, UniqueWhileActive
<1> QED
  BY Inductive, <1>1, PTL

\* No request is answered twice, by the read loop and workers together.
THEOREM AtMostOneResponse == Spec => []OneResponse
<1>1. IInv => OneResponse
  BY DEF IInv, OnePlace, OneResponse
<1> QED
  BY Inductive, <1>1, PTL

\* The jobs channel is closed only when the read loop is done with it, and the
\* workers then find no request that could keep them.
THEOREM ChannelClosedLast == Spec => []NoSendOnClosedQueue
<1>1. IInv => NoSendOnClosedQueue
  <2> SUFFICES ASSUME IInv, jobsClosed PROVE NoSendOnClosedQueue
    BY DEF NoSendOnClosedQueue
  <2>1. readerAt = "done" /\ SessionDone
    BY DEF IInv, StopOrder, SessionDone
  <2>2. \A r \in Requests : CtxErr(r) # "live"
    BY <2>1 DEF CtxErr
  <2> QED
    BY <2>1, <2>2 DEF NoSendOnClosedQueue
<1> QED
  BY Inductive, <1>1, PTL

\* When Serve returns, every goroutine has ended, the queue is empty and the
\* connection is closed.
THEOREM NothingLeftOnReturn == Spec => []QuiescentOnReturn
<1>1. IInv => QuiescentOnReturn
  BY DEF IInv, StartOrder, StopOrder, QuiescentOnReturn
<1> QED
  BY Inductive, <1>1, PTL
\* A request that net/http does not replay reaches the model API at most once.
THEOREM AtMostOneCall == Spec => []InferenceNotReplayed
<1>1. IInv => InferenceNotReplayed
  BY DEF IInv, CallsExact
<1> QED
  BY Inductive, <1>1, PTL

\* A request whose failure is reported as one before dispatch was never written
\* to the model API, so that its caller may try it elsewhere.
THEOREM PredispatchIsSafeToRetry == Spec => []PredispatchNeverCalled
<1>1. IInv => PredispatchNeverCalled
  BY DEF IInv, CallsExact, PredispatchNeverCalled
<1> QED
  BY Inductive, <1>1, PTL

\* Serve says "canceled" only if its caller did or a write failed.
THEOREM CanceledHasCause == Spec => []CanceledResultHasCause
<1>1. IInv => CanceledResultHasCause
  BY DEF IInv, CauseKept, CanceledResultHasCause
<1> QED
  BY Inductive, <1>1, PTL

\* The requests in the hands of the queue and the workers are no more than the
\* places for them.
THEOREM BacklogIsBounded == Spec => []BacklogBounded
<1>1. IInv => BacklogBounded
  <2> SUFFICES ASSUME IInv PROVE BacklogBounded
    OBVIOUS
  <2> DEFINE backlog == {r \in Requests : Accepted(r)}
             handled == {workerJob[w] : w \in Workers}
             waiting == {jobs[i] : i \in DOMAIN jobs}
  <2>1. jobs \in Seq(Requests) /\ Len(jobs) \in Nat /\ DOMAIN jobs = 1 .. Len(jobs)
    BY DEF IInv, TypeOK
  <2>2. IsFiniteSet(DOMAIN jobs) /\ Cardinality(DOMAIN jobs) = Len(jobs)
    BY <2>1, FS_Interval
  <2>3. /\ IsFiniteSet(handled) /\ Cardinality(handled) <= Cardinality(Workers)
        /\ IsFiniteSet(waiting) /\ Cardinality(waiting) <= Len(jobs)
    <3>1. /\ IsFiniteSet(handled) /\ Cardinality(handled) <= Cardinality(Workers)
      <4>1. IsFiniteSet(Workers)
        BY RelayAssumption
      <4>2. workerJob \in Surjection(Workers, handled)
        BY DEF IInv, TypeOK, Surjection
      <4> QED
        BY <4>1, <4>2, FS_Surjection
    <3>2. /\ IsFiniteSet(waiting) /\ Cardinality(waiting) <= Len(jobs)
      <4>1. jobs \in Surjection(DOMAIN jobs, waiting)
        BY <2>1 DEF Surjection
      <4> QED
        BY <2>2, <4>1, FS_Surjection
    <3> QED
      BY <3>1, <3>2
  <2>4. backlog \subseteq handled \cup waiting
    BY DEF Accepted, Queued
  <2>5. /\ IsFiniteSet(handled \cup waiting)
        /\ Cardinality(handled \cup waiting) <= Cardinality(handled) + Cardinality(waiting)
    <3>1. /\ IsFiniteSet(handled \cup waiting)
          /\ Cardinality(handled \cup waiting)
               = Cardinality(handled) + Cardinality(waiting) - Cardinality(handled \cap waiting)
      BY <2>3, FS_Union
    <3>2. Cardinality(handled \cap waiting) \in Nat
      BY <2>3, FS_Intersection, FS_CardinalityType
    <3>3. Cardinality(handled) \in Nat /\ Cardinality(waiting) \in Nat
      BY <2>3, FS_CardinalityType
    <3> QED
      BY <3>1, <3>2, <3>3
  <2>6. Cardinality(backlog) <= Cardinality(handled \cup waiting)
    BY <2>4, <2>5, FS_Subset
  <2>7. Len(jobs) <= QueueSize
    BY DEF IInv, QueueBounded
  <2>8. /\ Cardinality(backlog) \in Nat /\ Cardinality(handled) \in Nat
        /\ Cardinality(waiting) \in Nat /\ Cardinality(Workers) \in Nat
        /\ Cardinality(handled \cup waiting) \in Nat /\ QueueSize \in Nat
    BY <2>3, <2>4, <2>5, FS_Subset, FS_CardinalityType, RelayAssumption
  <2> HIDE DEF backlog, handled, waiting
  <2>9. Cardinality(backlog) <= Cardinality(Workers) + QueueSize
    BY <2>1, <2>3, <2>5, <2>6, <2>7, <2>8
  <2> QED
    BY <2>9 DEF backlog, BacklogBounded
<1> QED
  BY Inductive, <1>1, PTL

\* A request is refused as a duplicate only while another request with its id,
\* received before, has no response yet.
THEOREM FreeIdIsAdmitted == Spec => FreeIdNeverRefused
<1> DEFINE Admits ==
      \A r \in Requests :
          ReadRequest(r) /\ readerCode' = "duplicate_request"
             => \E q \in Requests :
                   q # r /\ IdOf[q] = IdOf[r] /\ q \notin unread /\ responses[q] = 0
<1>1. IInv => Admits
  <2> SUFFICES ASSUME IInv, NEW r \in Requests,
                      ReadRequest(r), readerCode' = "duplicate_request"
               PROVE  \E q \in Requests :
                         q # r /\ IdOf[q] = IdOf[r] /\ q \notin unread /\ responses[q] = 0
    OBVIOUS
  <2> USE RelayAssumption
  <2>1. /\ r \in unread /\ readerAt = "read"
        /\ cancellations[IdOf[r]] # None
    BY DEF ReadRequest, Verdict
  <2>2. PICK q \in Requests : q = cancellations[IdOf[r]]
    BY <2>1 DEF IInv, TypeOK
  <2>3. IdOf[q] = IdOf[r] /\ q \notin unread /\ Active(q)
    BY <2>1, <2>2 DEF IInv, RegistryExact
  <2>4. responses[q] = 0
    <3>1. Queued(q) \/ AtWorker(q)
      BY <2>1, <2>3 DEF Active, InForward, AtWorker
    <3> QED
      BY <3>1 DEF IInv, OnePlace
  <2> WITNESS q \in Requests
  <2> QED
    BY <2>1, <2>3, <2>4
<1> QED
  BY Inductive, <1>1, PTL DEF FreeIdNeverRefused
=============================================================================
