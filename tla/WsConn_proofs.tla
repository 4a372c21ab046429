---------------------------- MODULE WsConn_proofs ----------------------------
(***************************************************************************)
(* What holds of a connection for every number of writers.                 *)
(***************************************************************************)
EXTENDS WsConn, TLAPS

\* Nobody has the connection before Dial returns it, so that Dial has its
\* deadline for itself.
Unshared == dial # "returned" => \A u \in Users : at[u] = "idle"

ConnInv == TypeOK /\ Unshared /\ WriteHasDeadline /\ NothingLeftOpen

\* The steps of Dial come before all others.
LEMMA DialInv ==
  ASSUME ConnInv, Dialling
  PROVE  ConnInv'
<1> USE WsConnAssumption DEF ConnInv, TypeOK, Unshared, WriteHasDeadline, NothingLeftOpen,
        frameVars, Users
<1>1. CASE Connect
  BY <1>1 DEF Connect, SetDeadline
<1>2. CASE Handshake \/ WriteUpgrade \/ ReadUpgrade
  BY <1>2 DEF Handshake, WriteUpgrade, ReadUpgrade, Goes
<1>3. CASE Return
  BY <1>3 DEF Return
<1>4. CASE DialFails
  BY <1>4 DEF DialFails, Abandon
<1>5. CASE DialTimesOut
  BY <1>5 DEF DialTimesOut, Abandon
<1> QED
  BY <1>1, <1>2, <1>3, <1>4, <1>5 DEF Dialling

\* In writeFrame a user has the mutex from the first look at the deadline to
\* the last, so what it does to the deadline touches no other write.
LEMMA FrameInv ==
  ASSUME ConnInv, NEW u \in Users, InFrame(u)
  PROVE  ConnInv'
<1> USE WsConnAssumption DEF ConnInv, TypeOK, Unshared, WriteHasDeadline, NothingLeftOpen,
        Users, Moves, dialVars
<1>1. CASE Lock(u)
  BY <1>1 DEF Lock, Unlocked
<1>2. CASE Arm(u)
  BY <1>2 DEF Arm
<1>3. CASE ArmFails(u)
  BY <1>3 DEF ArmFails, Leave
<1>4. CASE Write(u)
  BY <1>4 DEF Write
<1>5. CASE WriteFails(u)
  BY <1>5 DEF WriteFails, Leave
<1>6. CASE WriteEnds(u)
  BY <1>6 DEF WriteEnds, WriteFails, Leave
<1>7. CASE Disarm(u)
  BY <1>7 DEF Disarm, Leave
<1> QED
  BY <1>1, <1>2, <1>3, <1>4, <1>5, <1>6, <1>7 DEF InFrame

LEMMA StepConnInv == ConnInv /\ [Next]_vars => ConnInv'
<1> SUFFICES ASSUME ConnInv, [Next]_vars PROVE ConnInv'
  OBVIOUS
<1> USE WsConnAssumption DEF ConnInv, TypeOK, Unshared, WriteHasDeadline, NothingLeftOpen,
        Users, Moves, dialVars
<1>1. ASSUME NEW w \in Writers, StartWrite(w) PROVE ConnInv'
  <2>1. PICK b \in Bodies \cup {None} :
            /\ body' = [body EXCEPT ![w] = b]
            /\ at' \in {[at EXCEPT ![w] = "idle"], [at EXCEPT ![w] = "lock"]}
    BY <1>1 DEF StartWrite
  <2> QED
    BY <1>1, <2>1 DEF StartWrite
<1>2. CASE StartClose
  BY <1>2 DEF StartClose
<1>3. CASE Shut
  BY <1>3 DEF Shut
<1>4. CASE Finished \/ UNCHANGED vars
  BY <1>4 DEF Finished, vars
<1> QED
  BY <1>1, <1>2, <1>3, <1>4, DialInv, FrameInv DEF Next

LEMMA ConnInvariant == Spec => []ConnInv
<1>1. Init => ConnInv
  BY WsConnAssumption DEF Init, ConnInv, TypeOK, Unshared, WriteHasDeadline,
     NothingLeftOpen, Users
<1> QED
  BY <1>1, StepConnInv, PTL DEF Spec

\* Every reachable state is well typed; whoever is in writeFrame, and nobody
\* else, has the mutex.
THEOREM TypeCorrect == Spec => []TypeOK
<1>1. ConnInv => TypeOK
  BY DEF ConnInv
<1> QED
  BY <1>1, ConnInvariant, PTL

\* No write is under way without a deadline, however many goroutines write.
THEOREM DeadlineKept == Spec => []WriteHasDeadline
<1>1. ConnInv => WriteHasDeadline
  BY DEF ConnInv
<1> QED
  BY <1>1, ConnInvariant, PTL

\* No failed Dial and no completed Close leaves an open connection.
THEOREM NoLeak == Spec => []NothingLeftOpen
<1>1. ConnInv => NothingLeftOpen
  BY DEF ConnInv
<1> QED
  BY <1>1, ConnInvariant, PTL
=============================================================================
