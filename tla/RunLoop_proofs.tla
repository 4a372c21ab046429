--------------------------- MODULE RunLoop_proofs ---------------------------
(***************************************************************************)
(* What status.json says of the connection, and how long the loop waits,   *)
(* for every timing.                                                       *)
(***************************************************************************)
EXTENDS RunLoop, TLAPS

\* The part of the state that status.json is about.
StatusOK ==
    /\ at \in {"top", "dial", "serve", "wait", "exited", "killed"}
    /\ status \in BOOLEAN
    /\ doubtful \in BOOLEAN

\* The inductive invariant: only a killed process leaves a session unfinished,
\* and that is in doubt.
StatusInv == StatusOK /\ StatusTruthful /\ (at = "killed" => doubtful)

LEMMA StatusStep == StatusInv /\ [Next]_vars => StatusInv'
<1> SUFFICES ASSUME StatusInv, [Next]_vars PROVE StatusInv'
  OBVIOUS
<1> USE DEF StatusInv, StatusOK, StatusTruthful
<1>1. CASE Leave
  BY <1>1 DEF Leave, SaveStatus
<1>2. CASE Dial
  BY <1>2 DEF Dial
<1>3. CASE Connect
  BY <1>3 DEF Connect, SaveStatus
<1>4. CASE DialFails
  BY <1>4 DEF DialFails, End, SaveStatus
<1>5. CASE SessionEnds
  BY <1>5 DEF SessionEnds, End, SaveStatus
<1>6. CASE TimerFires
  BY <1>6 DEF TimerFires
<1>7. CASE StopWaiting
  BY <1>7 DEF StopWaiting
<1>8. CASE Signal
  BY <1>8 DEF Signal
<1>9. CASE Kill
  BY <1>9 DEF Kill
<1>10. CASE Start
  BY <1>10 DEF Start, Running
<1>11. CASE UNCHANGED vars
  BY <1>11 DEF vars
<1> QED
  BY <1>1, <1>2, <1>3, <1>4, <1>5, <1>6, <1>7, <1>8, <1>9, <1>10, <1>11 DEF Next, Loop

\* status.json says "connected" exactly while a session is served, unless its
\* last write failed or the process was killed since, for all durations,
\* jitters and limits.
THEOREM StatusIsTruthful == Spec => []StatusTruthful
<1>1. Init => StatusInv
  BY DEF Init, StatusInv, StatusOK, StatusTruthful
<1>2. StatusInv => StatusTruthful
  BY DEF StatusInv
<1> QED
  BY <1>1, <1>2, StatusStep, PTL DEF Spec

-----------------------------------------------------------------------------
(***************************************************************************)
(* The backoff                                                             *)
(***************************************************************************)

\* A jitter factor takes b to between three and five quarters of b.
LEMMA JitterFactor ==
  ASSUME NEW b \in Nat, NEW j \in 75 .. 125
  PROVE  b * j \in Nat /\ 75 * b <= b * j /\ b * j <= 125 * b
<1>1. j \in Nat /\ j - 75 \in Nat /\ 125 - j \in Nat
  OBVIOUS
<1>2. b * (j - 75) \in Nat /\ b * (125 - j) \in Nat
  BY <1>1
<1>3. b * (j - 75) = b * j - 75 * b /\ b * (125 - j) = 125 * b - b * j
  BY <1>1
<1> QED
  BY <1>1, <1>2, <1>3

\* The delays jitter makes of a backoff between its limits.
LEMMA JitterBounded ==
  ASSUME NEW b \in Initial .. Cap, NEW d \in Jitter(b)
  PROVE  d \in Nat /\ 100 * d >= 75 * Initial /\ 100 * d <= 125 * Cap
<1> USE RunLoopAssumption
<1>1. PICK j \in Jitters : d = (b * j) \div 100
  BY DEF Jitter
<1>2. b \in Nat /\ Initial <= b /\ b <= Cap /\ j \in 75 .. 125
  BY <1>1
<1>3. b * j \in Nat /\ 75 * b <= b * j /\ b * j <= 125 * b
  BY <1>2, JitterFactor
<1>4. PICK n \in Nat : n = b * j
  BY <1>3
<1>5. n \div 100 \in Nat /\ 100 * (n \div 100) <= n /\ n < 100 * (n \div 100) + 100
  OBVIOUS
<1>6. PICK q \in Nat : Initial = 4 * q
  <2>1. Initial = 4 * (Initial \div 4) /\ Initial \div 4 \in Nat
    OBVIOUS
  <2> QED
    BY <2>1
<1>7. d \in Nat /\ 100 * d <= n /\ n < 100 * d + 100
  BY <1>1, <1>4, <1>5
<1>8. 300 * q <= n /\ n <= 125 * Cap
  BY <1>2, <1>3, <1>4, <1>6
<1>9. 3 * q <= d
  BY <1>7, <1>8
<1> QED
  BY <1>6, <1>7, <1>8, <1>9

\* What else the constants are.
LEMMA Limits ==
  /\ Initial \in Initial .. Cap /\ Initial \in Nat /\ Cap \in Nat /\ Initial <= Cap
  /\ 0 \in 0 .. Stable /\ Stable \in Nat /\ Stable \in 0 .. Stable
  /\ Durations \subseteq Nat
  BY RunLoopAssumption

\* The inductive invariant: the backoff stays between its limits and the delay
\* was made of one.
DelayInv == TypeOK /\ DelayBounded

LEMMA DelayStep == DelayInv /\ [Next]_vars => DelayInv'
<1> SUFFICES ASSUME DelayInv, [Next]_vars PROVE DelayInv'
  OBVIOUS
<1> USE Limits DEF DelayInv, TypeOK, DelayBounded
<1>0. ASSUME NEW d \in Nat PROVE Older(d) \in 0 .. Stable \cup {Never}
  BY DEF Older
<1>1. CASE Leave
  BY <1>1 DEF Leave, SaveStatus
<1>2. CASE Dial
  BY <1>2 DEF Dial
<1>3. CASE Connect
  BY <1>3 DEF Connect, SaveStatus
<1>4. ASSUME NEW from, End(from) PROVE DelayInv'
  <2>1. age' \in 0 .. Stable \cup {Never}
    BY <1>0, <1>4 DEF End
  <2>2. status' \in BOOLEAN /\ doubtful' \in BOOLEAN
    BY <1>4 DEF End, SaveStatus
  <2>3. CASE stopped
    BY <1>4, <2>1, <2>2, <2>3 DEF End
  <2>4. CASE ~stopped
    <3>1. delay' \in Jitter(backoff) /\ at' = "wait" /\ UNCHANGED <<backoff, stopped>>
      BY <1>4, <2>4 DEF End
    <3>2. delay' \in Nat /\ 100 * delay' >= 75 * Initial /\ 100 * delay' <= 125 * Cap
      BY <3>1, JitterBounded
    <3> QED
      BY <2>1, <2>2, <3>1, <3>2
  <2> QED
    BY <2>3, <2>4
<1>5. CASE TimerFires
  <2>1. age' \in 0 .. Stable \cup {Never}
    BY <1>0, <1>5 DEF TimerFires
  <2>2. ASSUME NEW b \in Initial .. Cap PROVE Double(b) \in Initial .. Cap
    BY DEF Double
  <2>3. Initial \in Initial .. Cap
    OBVIOUS
  <2>4. backoff' \in Initial .. Cap
    BY <1>5, <2>2, <2>3 DEF TimerFires
  <2> QED
    BY <1>5, <2>1, <2>4 DEF TimerFires
<1>6. CASE StopWaiting
  BY <1>6 DEF StopWaiting
<1>7. CASE Signal
  BY <1>7 DEF Signal
<1>8. CASE Kill
  BY <1>8 DEF Kill
<1>9. CASE Start
  BY <1>9 DEF Start
<1>10. CASE UNCHANGED vars
  BY <1>10 DEF vars
<1> QED
  BY <1>1, <1>2, <1>3, <1>4, <1>5, <1>6, <1>7, <1>8, <1>9, <1>10
  DEF Next, Loop, DialFails, SessionEnds

\* The delay and the backoff keep their limits together.
THEOREM DelayInductive == Spec => []DelayInv
<1>1. Init => DelayInv
  <2> SUFFICES ASSUME Init PROVE DelayInv
    OBVIOUS
  <2>1. TypeOK
    BY Limits DEF Init, TypeOK
  <2>2. at # "wait"
    BY DEF Init
  <2> QED
    BY <2>1, <2>2 DEF DelayInv, DelayBounded
<1> QED
  BY <1>1, DelayStep, PTL DEF Spec

\* The backoff never leaves its limits, nor any variable its type.
THEOREM LoopTypeCorrect == Spec => []TypeOK
<1>1. DelayInv => TypeOK
  BY DEF DelayInv
<1> QED
  BY DelayInductive, <1>1, PTL

\* Whatever happened before, the loop waits for at least three quarters of the
\* first backoff and at most five quarters of the longest.
THEOREM DelayIsBounded == Spec => []DelayBounded
<1>1. DelayInv => DelayBounded
  BY DEF DelayInv
<1> QED
  BY DelayInductive, <1>1, PTL
=============================================================================
