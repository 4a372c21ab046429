------------------------------ MODULE RunLoop ------------------------------
(***************************************************************************)
(* The command `run`: the reconnect loop around the relay sessions, its    *)
(* backoff, and the status.json in which it tells `edukod-companion        *)
(* status` about the last connection.                                      *)
(*                                                                         *)
(* Serve is one step from connected to ended here; RelaySession opens it.  *)
(* The service manager starts the process again after it was killed; the   *)
(* file stays, the loop's variables do not.  Time is in milliseconds and   *)
(* advances by what the loop does: it dials or serves for one of           *)
(* Durations, and waits for a jittered backoff.                            *)
(***************************************************************************)
EXTENDS Naturals

CONSTANTS
    Durations,  \* bound: how long a dial or a session may take
    Jitters,    \* bound: the jitter factors considered, in percent
    Initial,    \* the first backoff, 1 s: three quarters of it are whole ms
    Cap,        \* the longest backoff, 30 s
    Stable,     \* how old a connection is when the backoff is reset, 30 s
    Never       \* stands for the zero value of lastConnectedAt

ASSUME RunLoopAssumption ==
    /\ Durations \subseteq Nat
    /\ Jitters \subseteq 75 .. 125
    /\ Initial \in Nat \ {0} /\ Initial % 4 = 0
    /\ Cap \in Nat
    /\ Stable \in Nat
    /\ Initial <= Cap
    /\ Never \notin Nat

VARIABLES
    at,       \* control point of the loop
    backoff,  \* the next delay without its jitter
    delay,    \* the delay the timer is set to
    age,      \* time since lastConnectedAt, up to Stable, or Never
    stopped,  \* has a signal cancelled ctx?
    status,   \* contents of status.json: is it Connected?
    doubtful  \* history: the last write of status.json failed, or the process
              \* was killed since

vars == <<at, backoff, delay, age, stopped, status, doubtful>>

TypeOK ==
    /\ at \in {"top", "dial", "serve", "wait", "exited", "killed"}
    /\ backoff \in Initial .. Cap
    /\ delay \in Nat
    /\ age \in 0 .. Stable \cup {Never}
    /\ stopped \in BOOLEAN
    /\ status \in BOOLEAN
    /\ doubtful \in BOOLEAN

Init ==
    /\ at = "top"
    /\ backoff = Initial
    /\ delay = 0
    /\ age = Never
    /\ stopped = FALSE
    /\ status = FALSE
    /\ doubtful = FALSE

-----------------------------------------------------------------------------
(***************************************************************************)
(* The loop                                                                *)
(***************************************************************************)

\* SaveStatus: the file says c afterwards, or an error, which the loop ignores,
\* came before the rename of the new file or in the chmod after it.
SaveStatus(c) ==
    \/ status' = c /\ doubtful' = FALSE
    \/ status' \in {status, c} /\ doubtful' = TRUE

\* lastConnectedAt is d milliseconds further in the past.
Older(d) ==
    IF age = Never THEN Never
    ELSE IF age + d >= Stable THEN Stable ELSE age + d

\* jitter never waits less than a tenth of what it is asked for.
JitterEager(b) == {(b * j) \div 1000 : j \in Jitters}

\* jitter: three to five quarters of the backoff.
Jitter(b) == {(b * j) \div 100 : j \in Jitters}

\* Doubling without the cap.
DoubleUncapped(b) == b * 2

\* The backoff after another attempt.
Double(b) == IF b * 2 > Cap THEN Cap ELSE b * 2

\* A new round begins with ctx cancelled: the loop says so and ends.
Leave ==
    /\ at = "top"
    /\ stopped
    /\ SaveStatus(FALSE)
    /\ at' = "exited"
    /\ UNCHANGED <<backoff, delay, age, stopped>>

\* It dials the gateway.
Dial ==
    /\ at = "top"
    /\ ~stopped
    /\ at' = "dial"
    /\ UNCHANGED <<backoff, delay, age, stopped, status, doubtful>>

\* The handshake succeeds; Serve begins.
Connect ==
    /\ at = "dial"
    /\ age' = 0
    /\ SaveStatus(TRUE)
    /\ at' = "serve"
    /\ UNCHANGED <<backoff, delay, stopped>>

\* The dial or the session ends, and a loop whose ctx is cancelled goes without
\* a word.
EndQuietly(from) ==
    /\ at = from
    /\ \E d \in Durations : age' = Older(d)
    /\ IF stopped
       THEN /\ at' = "exited"
            /\ UNCHANGED <<delay, status, doubtful>>
       ELSE /\ SaveStatus(FALSE)
            /\ delay' \in Jitter(backoff)
            /\ at' = "wait"
    /\ UNCHANGED <<backoff, stopped>>

\* The dial or the session ends, and status.json learns of it.  With ctx
\* cancelled so does the loop, otherwise it sets the timer.
End(from) ==
    /\ at = from
    /\ \E d \in Durations : age' = Older(d)
    /\ SaveStatus(FALSE)
    /\ IF stopped
       THEN /\ at' = "exited"
            /\ UNCHANGED delay
       ELSE /\ delay' \in Jitter(backoff)
            /\ at' = "wait"
    /\ UNCHANGED <<backoff, stopped>>

DialFails == End("dial")
SessionEnds == End("serve")

\* The timer fires.  The backoff starts again if the last connection was made
\* long enough ago, and doubles in any case.
TimerFires ==
    /\ at = "wait"
    /\ age' = Older(delay)
    /\ backoff' = Double(IF age' = Stable THEN Initial ELSE backoff)
    /\ at' = "top"
    /\ UNCHANGED <<delay, stopped, status, doubtful>>

\* A signal ends the wait; status.json was written before it.
StopWaiting ==
    /\ at = "wait"
    /\ stopped
    /\ at' = "exited"
    /\ UNCHANGED <<backoff, delay, age, stopped, status, doubtful>>

-----------------------------------------------------------------------------
(***************************************************************************)
(* The environment, and the specification                                  *)
(***************************************************************************)

Running == at \notin {"exited", "killed"}

\* SIGINT or SIGTERM.
Signal ==
    /\ Running
    /\ ~stopped
    /\ stopped' = TRUE
    /\ UNCHANGED <<at, backoff, delay, age, status, doubtful>>

\* The process dies without a chance to write anything.
Kill ==
    /\ Running
    /\ at' = "killed"
    /\ doubtful' = TRUE
    /\ UNCHANGED <<backoff, delay, age, stopped, status>>

\* A process starts: after a kill by the service manager, after an exit by the
\* user.  It has loaded the pairing; status.json is as the last one left it.
Start ==
    /\ ~Running
    /\ at' = "top"
    /\ backoff' = Initial
    /\ delay' = 0
    /\ age' = Never
    /\ stopped' = FALSE
    /\ UNCHANGED <<status, doubtful>>

Loop == Leave \/ Dial \/ Connect \/ DialFails \/ SessionEnds \/ TimerFires \/ StopWaiting

Next == Loop \/ Signal \/ Kill \/ Start

Spec == Init /\ [][Next]_vars

-----------------------------------------------------------------------------
(***************************************************************************)
(* Properties                                                              *)
(***************************************************************************)

\* `edukod-companion status` says that the companion is connected exactly while
\* a session is served, if the last write of status.json succeeded and the
\* process was not killed since: no path out of a session, and no path out of
\* the loop, leaves a stale "connected" behind.
StatusTruthful == ~doubtful => (status <=> at = "serve")

\* However often dials and sessions fail, and however short the sessions are,
\* the loop waits at least 0.75 s and at most 37.5 s before the next attempt.
DelayBounded ==
    at = "wait" => /\ 100 * delay >= 75 * Initial
                   /\ 100 * delay <= 125 * Cap
=============================================================================
