------------------------------ MODULE WsReader ------------------------------
(***************************************************************************)
(* Conn.ReadMessage: the read loop's view of the WebSocket connection.     *)
(* The gateway sends frames, in any order and legal or not; the reader     *)
(* reassembles fragmented messages, answers the pings between their        *)
(* fragments and refuses everything the protocol, or the message limit,    *)
(* does not allow.  The first error ends the session (RelaySession), so    *)
(* ReadMessage is called again exactly after a message.                    *)
(***************************************************************************)
EXTENDS WsFrame, SequencesExt

CONSTANTS
    MaxMessage, \* Conn.maxMessage, in bytes: far more than a control frame holds
    Sizes,      \* bound: the payload sizes of the frames considered
    MaxFrames   \* bound: the frames the gateway sends

ASSUME WsReaderAssumption ==
    /\ MaxMessage \in MaxControl .. Limit - 1
    /\ Sizes \subseteq 0 .. Limit - 1
    /\ MaxFrames \in Nat

VARIABLES
    wire,      \* the frames on their way
    frames,    \* number of frames sent
    unfinished, \* has the gateway begun a message and not finished it?
    total,     \* payload of that message so far
    sent,      \* history: sizes of the messages the gateway has completed
    pings,     \* history: sizes of the pings it has sent
    faulty,    \* history: it has sent a frame it must not send
    at,        \* "reading", or how ReadMessage has failed
    opcode,    \* messageOpcode
    length,    \* len(message)
    delivered, \* sizes of the messages ReadMessage has returned
    pongs      \* sizes of the pongs it has written

gatewayVars == <<frames, unfinished, total, sent, pings, faulty>>
readerVars == <<at, opcode, length, delivered, pongs>>
vars == <<wire, gatewayVars, readerVars>>

Opcodes == {"continuation", "text", "binary", "close", "ping", "pong", "reserved"}
Control(op) == op \in {"close", "ping", "pong"}

\* A frame: malformed stands for a reserved bit or a mask.
Frames == [op : Opcodes, final : BOOLEAN, malformed : BOOLEAN, size : Sizes]

TypeOK ==
    /\ wire \in Seq([op : Opcodes, final : BOOLEAN, malformed : BOOLEAN,
                     header : {EncodeLength(n) : n \in Sizes}])
    /\ frames \in 0 .. MaxFrames
    /\ unfinished \in BOOLEAN
    /\ total \in 0 .. MaxMessage
    /\ faulty \in BOOLEAN
    /\ at \in {"reading", "protocol", "eof", "io"}
    /\ opcode \in {"none", "text"}
    /\ length \in 0 .. MaxMessage
    /\ sent \in Seq(Nat) /\ pings \in Seq(Nat) /\ delivered \in Seq(Nat) /\ pongs \in Seq(Nat)

Init ==
    /\ wire = <<>>
    /\ frames = 0
    /\ unfinished = FALSE
    /\ total = 0
    /\ sent = <<>>
    /\ pings = <<>>
    /\ faulty = FALSE
    /\ at = "reading"
    /\ opcode = "none"
    /\ length = 0
    /\ delivered = <<>>
    /\ pongs = <<>>

-----------------------------------------------------------------------------
(***************************************************************************)
(* The gateway                                                             *)
(***************************************************************************)

\* What the gateway may send next: what RFC 6455 and the message limit allow,
\* less binary frames, which the relay's protocol has no use for and ReadMessage
\* refuses of its own accord.
Legal(f) ==
    /\ ~f.malformed
    /\ f.op \in {"text", "continuation", "close", "ping", "pong"}
    /\ Control(f.op) => f.final /\ f.size <= MaxControl
    /\ f.op = "text" => ~unfinished /\ f.size <= MaxMessage
    /\ f.op = "continuation" => unfinished /\ total + f.size <= MaxMessage

\* The gateway sends a frame.  Nothing is expected of it after an illegal one.
Send ==
    /\ frames < MaxFrames
    /\ ~faulty
    /\ \E f \in Frames :
          LET data == f.op \in {"text", "continuation"}
              payload == IF f.op = "text" THEN f.size ELSE total + f.size
          IN  /\ wire' = Append(wire, [op |-> f.op, final |-> f.final, malformed |-> f.malformed,
                                       header |-> EncodeLength(f.size)])
              /\ frames' = IF f.op = "close" THEN MaxFrames ELSE frames + 1
              /\ faulty' = ~Legal(f)
              /\ unfinished' = IF Legal(f) /\ data THEN ~f.final ELSE unfinished
              /\ total' = IF Legal(f) /\ data THEN IF f.final THEN 0 ELSE payload ELSE total
              /\ sent' = IF Legal(f) /\ data /\ f.final THEN Append(sent, payload) ELSE sent
              /\ pings' = IF Legal(f) /\ f.op = "ping" THEN Append(pings, f.size) ELSE pings
    /\ UNCHANGED readerVars

-----------------------------------------------------------------------------
(***************************************************************************)
(* The reader                                                              *)
(***************************************************************************)

\* ReadMessage goes on in control point p.
Goto(p) ==
    /\ at = "reading"
    /\ wire # <<>>
    /\ wire' = Tail(wire)
    /\ at' = p
    /\ UNCHANGED gatewayVars

op == Head(wire).op
final == Head(wire).final
size == DecodeLength(Head(wire).header)

\* ReadMessage returns a message of n bytes and is called again.
Deliver(n) ==
    /\ delivered' = Append(delivered, n)
    /\ opcode' = "none"
    /\ length' = 0

\* Each fragment is held against the limit by itself.
FragmentTooLong == size > MaxMessage

\* The fragments together exceed the limit.
MessageTooLong == length + size > MaxMessage

\* What readFrame refuses of any frame.
FrameRefused ==
    \/ Head(wire).malformed
    \/ Control(op) /\ (~final \/ size > MaxControl)
    \/ size > MaxMessage

\* What ReadMessage refuses of a frame in this state.
OpcodeRefused ==
    \/ op = "continuation" /\ (opcode = "none" \/ MessageTooLong)
    \/ op = "text" /\ opcode # "none"
    \/ op \in {"binary", "reserved"}

\* A frame that is refused ends the session.
Refuse ==
    /\ Goto("protocol")
    /\ FrameRefused \/ OpcodeRefused
    /\ UNCHANGED <<opcode, length, delivered, pongs>>

Takes(o) ==
    /\ op = o
    /\ ~FrameRefused
    /\ ~OpcodeRefused

\* A message in one frame, or the first fragment of one.
ReadText ==
    /\ Goto("reading")
    /\ Takes("text")
    /\ IF final THEN Deliver(size)
       ELSE /\ opcode' = "text"
            /\ length' = size
            /\ UNCHANGED delivered
    /\ UNCHANGED pongs

\* A further fragment, or the last one.
ReadContinuation ==
    /\ Goto("reading")
    /\ Takes("continuation")
    /\ IF final THEN Deliver(length + size)
       ELSE /\ length' = length + size
            /\ UNCHANGED <<opcode, delivered>>
    /\ UNCHANGED pongs

\* A ping ends the message that is being read.
ReadPingAnew ==
    /\ Goto("reading")
    /\ Takes("ping")
    /\ pongs' = Append(pongs, size)
    /\ opcode' = "none"
    /\ length' = 0
    /\ UNCHANGED delivered

\* A ping is answered with its payload, whatever is being read.
ReadPing ==
    /\ Goto("reading")
    /\ Takes("ping")
    /\ pongs' = Append(pongs, size)
    /\ UNCHANGED <<opcode, length, delivered>>

\* The pong cannot be written.
PongFails ==
    /\ Goto("io")
    /\ Takes("ping")
    /\ UNCHANGED <<opcode, length, delivered, pongs>>

\* A pong, the answer to a heartbeat, is passed over.
ReadPong ==
    /\ Goto("reading")
    /\ Takes("pong")
    /\ UNCHANGED <<opcode, length, delivered, pongs>>

ReadClose ==
    /\ Goto("eof")
    /\ Takes("close")
    /\ UNCHANGED <<opcode, length, delivered, pongs>>

\* The connection breaks, or nothing arrives for the length of the read timeout.
ReadFails ==
    /\ at = "reading"
    /\ at' = "io"
    /\ UNCHANGED <<wire, gatewayVars, opcode, length, delivered, pongs>>

ReadMessage ==
    \/ Refuse \/ ReadText \/ ReadContinuation \/ ReadPing \/ PongFails
    \/ ReadPong \/ ReadClose \/ ReadFails

Next == Send \/ ReadMessage

Spec == Init /\ [][Next]_vars

-----------------------------------------------------------------------------
(***************************************************************************)
(* Properties                                                              *)
(***************************************************************************)

\* The read loop gets the messages the gateway has completed, in their order
\* and with their size, whatever fragments they came in and whatever was sent
\* between the fragments; and none that is illegal or over the limit.
MessagesAreIntact == IsPrefix(delivered, sent)

\* A gateway that follows the protocol never has its session ended for a
\* protocol error.
LegalStreamAccepted == at = "protocol" => faulty

\* A reader that has read everything has returned every complete message and
\* answered every ping, and it would not go on after an illegal frame.
NothingOverlooked ==
    at = "reading" /\ wire = <<>> => delivered = sent /\ pongs = pings /\ ~faulty
=============================================================================
