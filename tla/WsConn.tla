------------------------------- MODULE WsConn -------------------------------
(***************************************************************************)
(* One wsclient.Conn, from Dial to Close, as those see it who write to it: *)
(* the workers, the read loop (pongs) and the heartbeat call writeFrame,   *)
(* and Serve calls Close.  They share the socket, its write deadline and   *)
(* writeMu.  A call that waits for the network ends by itself only when a  *)
(* deadline is set: nothing is expected of the gateway.  WsReader models   *)
(* what is read from the connection.                                       *)
(***************************************************************************)
EXTENDS Naturals

CONSTANTS
    Writers,     \* the goroutines that write frames
    Closer,      \* Serve, in its call of Close
    Bodies,      \* bound: the JSON bodies of the responses considered
    MaxResponse, \* the longest body Forward relays, 16 MiB
    Overhead,    \* the bytes of a response around its body
    None

Users == Writers \cup {Closer}

ASSUME WsConnAssumption ==
    /\ Closer \notin Writers
    /\ None \notin Users
    /\ MaxResponse \in Nat
    /\ Overhead \in Nat
    /\ Bodies \subseteq [size : 0 .. MaxResponse, blank : Nat, escaped : Nat]

VARIABLES
    dial,     \* control point of Dial
    socket,   \* the connection to the gateway
    deadline, \* is there a deadline for writes, and for reads while dialling?
    torn,     \* has a write failed?  Then crypto/tls fails all later ones
    writeMu,  \* who holds the mutex
    at,       \* control point of each user
    body      \* the body in each writer's last frame, None for another frame

vars == <<dial, socket, deadline, torn, writeMu, at, body>>
dialVars == <<dial, socket, deadline>>
frameVars == <<torn, writeMu, at, body>>

TypeOK ==
    /\ dial \in {"connect", "handshake", "request", "response", "clear", "returned", "failed"}
    /\ socket \in {"none", "open", "closed"}
    /\ deadline \in BOOLEAN
    /\ torn \in BOOLEAN
    /\ writeMu \in Users \cup {None}
    /\ at \in [Users -> {"idle", "lock", "arm", "write", "disarm", "shut", "done"}]
    /\ body \in [Writers -> Bodies \cup {None}]
    /\ \A u \in Users : at[u] \in {"arm", "write", "disarm"} <=> writeMu = u

Init ==
    /\ dial = "connect"
    /\ socket = "none"
    /\ deadline = FALSE
    /\ torn = FALSE
    /\ writeMu = None
    /\ at = [u \in Users |-> "idle"]
    /\ body = [w \in Writers |-> None]

-----------------------------------------------------------------------------
(***************************************************************************)
(* Dial                                                                    *)
(***************************************************************************)

\* Mutant: the handshake is left to its context.
NoDeadline == UNCHANGED deadline

\* SetDeadline(now + timeout) on the new connection.
SetDeadline == deadline' = TRUE

\* The TCP connection is there, or it could not be given a deadline.
Connect ==
    /\ dial = "connect"
    /\ \/ /\ socket' = "open"
          /\ SetDeadline
          /\ dial' = "handshake"
       \/ /\ socket' = "closed"
          /\ dial' = "failed"
          /\ UNCHANGED deadline
    /\ UNCHANGED frameVars

Goes(from, to) ==
    /\ dial = from
    /\ dial' = to
    /\ UNCHANGED <<socket, deadline, frameVars>>

\* TLS; the upgrade request; an acceptable response to it.
Handshake == Goes("handshake", "request")
WriteUpgrade == Goes("request", "response")
ReadUpgrade == Goes("response", "clear")

\* SetDeadline(zero); Dial returns the connection.
Return ==
    /\ dial = "clear"
    /\ dial' = "returned"
    /\ deadline' = FALSE
    /\ UNCHANGED <<socket, frameVars>>

\* Mutant: a rejected upgrade leaves the connection open.
AbandonOpen ==
    /\ dial' = "failed"
    /\ socket' = IF dial = "connect" THEN "none" ELSE IF dial = "response" THEN "open" ELSE "closed"
    /\ UNCHANGED <<deadline, frameVars>>

\* Dial returns an error, having closed what it had opened.
Abandon ==
    /\ dial' = "failed"
    /\ socket' = IF dial = "connect" THEN "none" ELSE "closed"
    /\ UNCHANGED <<deadline, frameVars>>

\* A call fails, the gateway rejects the upgrade, or the caller's context ends.
DialFails ==
    /\ dial \notin {"returned", "failed"}
    /\ Abandon

\* The time is up: of dialContext, which the TCP connection and TLS look at, or
\* of the deadline of the connection.
DialTimesOut ==
    /\ \/ dial \in {"connect", "handshake"}
       \/ dial \in {"request", "response"} /\ deadline
    /\ Abandon

-----------------------------------------------------------------------------
(***************************************************************************)
(* writeFrame                                                              *)
(***************************************************************************)

\* maxMessage as run sets it: the limit of a response and 4 KiB more.
MaxMessage == MaxResponse + 4096

\* json.Marshal drops the blanks between the tokens of a relayed body and
\* writes each <, > and & in it as six bytes.
EncodedSize(b) == b.size - b.blank + 5 * b.escaped + Overhead

Moves(u, to) == at' = [at EXCEPT ![u] = to]

\* The limit on the length of a frame, which writeFrame looks at first.
TooLarge(b) == EncodedSize(b) > MaxMessage

\* WriteJSON with a response, or any other frame, all of which are short.
StartWrite(w) ==
    /\ dial = "returned"
    /\ at[w] = "idle"
    /\ \E b \in Bodies \cup {None} :
          /\ body' = [body EXCEPT ![w] = b]
          /\ Moves(w, IF b # None /\ TooLarge(b) THEN "idle" ELSE "lock")
    /\ UNCHANGED <<dialVars, torn, writeMu>>

\* closeOnce.Do: the second call of Close returns at once.
StartClose ==
    /\ dial = "returned"
    /\ at[Closer] = "idle"
    /\ Moves(Closer, "lock")
    /\ UNCHANGED <<dialVars, torn, writeMu, body>>

\* Mutant: no mutex.
Free == TRUE

\* The mutex is free.
Unlocked == writeMu = None

Lock(u) ==
    /\ at[u] = "lock"
    /\ Unlocked
    /\ writeMu' = u
    /\ Moves(u, "arm")
    /\ UNCHANGED <<dialVars, torn, body>>

\* writeFrame returns and releases the mutex, with an error or not; Close goes
\* on in either case.
Leave(u) ==
    /\ Moves(u, IF u = Closer THEN "shut" ELSE "idle")
    /\ writeMu' = None
    /\ UNCHANGED <<dial, socket, body>>

\* SetWriteDeadline(now + 15 s), which fails on a closed connection.
Arm(u) ==
    /\ at[u] = "arm"
    /\ socket = "open"
    /\ deadline' = TRUE
    /\ Moves(u, "write")
    /\ UNCHANGED <<dial, socket, torn, writeMu, body>>

ArmFails(u) ==
    /\ at[u] = "arm"
    /\ Leave(u)
    /\ UNCHANGED <<deadline, torn>>

\* The whole frame is written.
Write(u) ==
    /\ at[u] = "write"
    /\ socket = "open"
    /\ ~torn
    /\ Moves(u, "disarm")
    /\ UNCHANGED <<dialVars, torn, writeMu, body>>

\* Mutant: an early return without the unlock.
WriteFailsLocked(u) ==
    /\ at[u] = "write"
    /\ torn' = TRUE
    /\ Moves(u, IF u = Closer THEN "shut" ELSE "idle")
    /\ UNCHANGED <<dialVars, writeMu, body>>

\* The write fails, perhaps half-way.
WriteFails(u) ==
    /\ at[u] = "write"
    /\ torn' = TRUE
    /\ Leave(u)
    /\ UNCHANGED deadline

\* The write fails for a reason on this side: its deadline, an earlier failure,
\* or Close.
WriteEnds(u) ==
    /\ deadline \/ torn \/ socket = "closed"
    /\ WriteFails(u)

\* SetWriteDeadline(zero); if it fails the frame has gone out all the same.
Disarm(u) ==
    /\ at[u] = "disarm"
    /\ deadline' \in {FALSE, deadline}
    /\ Leave(u)
    /\ UNCHANGED torn

\* Mutant: Close gives up when the close frame could not be written.
ShutIfWell ==
    /\ at[Closer] = "shut"
    /\ socket' = IF torn THEN socket ELSE "closed"
    /\ Moves(Closer, "done")
    /\ UNCHANGED <<dial, deadline, torn, writeMu, body>>

\* Close closes the connection, whatever became of the close frame.
Shut ==
    /\ at[Closer] = "shut"
    /\ socket' = "closed"
    /\ Moves(Closer, "done")
    /\ UNCHANGED <<dial, deadline, torn, writeMu, body>>

-----------------------------------------------------------------------------
Dialling ==
    \/ Connect \/ Handshake \/ WriteUpgrade \/ ReadUpgrade \/ Return
    \/ DialFails \/ DialTimesOut

InFrame(u) ==
    \/ Lock(u) \/ Arm(u) \/ ArmFails(u) \/ Write(u) \/ WriteFails(u) \/ WriteEnds(u)
    \/ Disarm(u)

Finished == dial = "failed" /\ UNCHANGED vars

Next ==
    \/ Dialling
    \/ \E w \in Writers : StartWrite(w)
    \/ \E u \in Users : InFrame(u)
    \/ StartClose \/ Shut
    \/ Finished

Spec == Init /\ [][Next]_vars

(***************************************************************************)
(* Fairness: deadlines pass, calls that need nothing of the gateway        *)
(* return, and a sync.Mutex passes nobody over forever.                    *)
(***************************************************************************)
Fairness ==
    /\ WF_vars(DialTimesOut \/ Return)
    /\ \A u \in Users :
          /\ SF_vars(Lock(u))
          /\ WF_vars(Arm(u) \/ ArmFails(u) \/ WriteEnds(u) \/ Disarm(u))
    /\ WF_vars(Shut)

FairSpec == Spec /\ Fairness

-----------------------------------------------------------------------------
(***************************************************************************)
(* Properties                                                              *)
(***************************************************************************)

\* No write to the gateway is under way without a deadline.  The deadline
\* belongs to the connection and each writer removes it after its frame: only
\* the mutex keeps one writer from removing the deadline another relies on.
WriteHasDeadline == \A u \in Users : at[u] = "write" => deadline

\* A Dial that fails and a Close that returns leave no open connection behind,
\* whichever of their steps went wrong.
NothingLeftOpen == dial = "failed" \/ at[Closer] = "done" => socket # "open"

\* Dial returns, even if the gateway accepts the connection and says nothing.
DialEnds == <>(dial \in {"returned", "failed"})

\* Every writer comes back, and Close completes, even if the gateway reads
\* nothing: RelaySession takes this for granted when it treats a write as a
\* step that ends.
UsersReturn ==
    /\ \A w \in Writers : at[w] # "idle" ~> at[w] = "idle"
    /\ at[Closer] = "lock" ~> at[Closer] = "done"

\* app.run: "model responses may legitimately be larger" than requests, so the
\* limit of the connection is that of a response and some more.  A response that
\* Forward accepted is not refused for its size, which would end the session.
AcceptedResponseFits == \A w \in Writers : at[w] = "idle" /\ body[w] # None => ~TooLarge(body[w])
=============================================================================
