-------------------------- MODULE WsReader_proofs --------------------------
(***************************************************************************)
(* Theorems about WsFrame and WsReader: the length in a header is read     *)
(* back as it was written, on both sides of every boundary between the     *)
(* encodings; and the reader takes every stream of frames as the gateway   *)
(* meant it, for any sizes, any message limit and any number of frames.    *)
(***************************************************************************)
EXTENDS WsReader, TLAPS

(***************************************************************************)
(* readFrame undoes writeFrame                                             *)
(***************************************************************************)

\* A number below 2^16 is the sum of its two bytes.
LEMMA TwoBytes ==
  ASSUME NEW n \in Nat, n <= Max16
  PROVE  256 * Byte(n, 256) + Byte(n, 1) = n
  BY SMT DEF Byte, Max16

\* A number below 2^31 is the sum of its four bytes.
LEMMA FourBytes ==
  ASSUME NEW n \in Nat, n < Limit
  PROVE  16777216 * Byte(n, 16777216) + 65536 * Byte(n, 65536)
         + 256 * Byte(n, 256) + Byte(n, 1) = n
  BY SMT DEF Byte, Limit

\* The length of every frame the companion can write is read back unchanged.
THEOREM LengthRoundTrip ==
  \A n \in Nat : n < Limit => DecodeLength(EncodeLength(n)) = n
<1> SUFFICES ASSUME NEW n \in Nat, n < Limit
             PROVE  DecodeLength(EncodeLength(n)) = n
  OBVIOUS
<1>1. CASE n < 126
  BY SMT, <1>1 DEF EncodeLength, DecodeLength
<1>2. CASE 126 <= n /\ n <= Max16
  BY SMT, <1>2, TwoBytes DEF EncodeLength, DecodeLength
<1>3. CASE Max16 < n
  <2>1. EncodeLength(n).code = 127
    BY SMT, <1>3 DEF EncodeLength, Max16
  <2>2. EncodeLength(n).extended = <<0, 0, 0, 0, Byte(n, 16777216), Byte(n, 65536),
                                     Byte(n, 256), Byte(n, 1)>>
    BY SMT, <1>3 DEF EncodeLength, Max16
  <2> QED
    BY SMT, <2>1, <2>2, FourBytes DEF DecodeLength
<1> QED
  BY SMT, <1>1, <1>2, <1>3 DEF Max16

\* A frame of a control payload fits the seven bits of the second header byte,
\* and no shorter code is taken for one that announces further bytes.
THEOREM ControlLengthIsShort ==
  \A n \in Nat : n <= MaxControl <=> EncodeLength(n).extended = <<>>
<1> SUFFICES ASSUME NEW n \in Nat
             PROVE  n <= MaxControl <=> EncodeLength(n).extended = <<>>
  OBVIOUS
<1> QED
  BY SMT DEF EncodeLength, MaxControl, Max16

-----------------------------------------------------------------------------
(***************************************************************************)
(* The stream of frames                                                    *)
(***************************************************************************)

\* How far the gateway has come, or, in the mind of the reader, had come when
\* it sent the frames that have been read.
Point == [begun : BOOLEAN, total : 0 .. MaxMessage, sent : Seq(Nat), pings : Seq(Nat),
          faulty : BOOLEAN]

IsGatewayAt(a) ==
    /\ a.begun <=> unfinished
    /\ a.total = total
    /\ a.sent = sent
    /\ a.pings = pings
    /\ a.faulty <=> faulty

IsReaderAt(a) ==
    /\ a.begun <=> opcode # "none"
    /\ a.total = length
    /\ a.sent = delivered
    /\ a.pings = pongs
    /\ ~a.faulty

\* A gateway at point a may send frame f of n bytes.
LegalAt(a, f, n) ==
    /\ ~f.malformed
    /\ f.op \in {"text", "continuation", "close", "ping", "pong"}
    /\ Control(f.op) => f.final /\ n <= MaxControl
    /\ f.op = "text" => ~a.begun /\ n <= MaxMessage
    /\ f.op = "continuation" => a.begun /\ a.total + n <= MaxMessage

Data(f) == f.op \in {"text", "continuation"}
Payload(a, f, n) == IF f.op = "text" THEN n ELSE a.total + n

\* Frame f, sent at point a, leads to point b.
Leads(a, f, b) ==
    \E n \in Sizes :
        /\ f.header = EncodeLength(n)
        /\ ~a.faulty
        /\ b.faulty <=> ~LegalAt(a, f, n)
        /\ b.begun <=> IF LegalAt(a, f, n) /\ Data(f) THEN ~f.final ELSE a.begun
        /\ b.total = IF LegalAt(a, f, n) /\ Data(f)
                     THEN IF f.final THEN 0 ELSE Payload(a, f, n) ELSE a.total
        /\ b.sent = IF LegalAt(a, f, n) /\ Data(f) /\ f.final
                    THEN Append(a.sent, Payload(a, f, n)) ELSE a.sent
        /\ b.pings = IF LegalAt(a, f, n) /\ f.op = "ping" THEN Append(a.pings, n) ELSE a.pings

\* p are the points between the frames of the wire, from where the reader is to
\* where the gateway is.
Joins(p) ==
    /\ p \in [0 .. Len(wire) -> Point]
    /\ IsReaderAt(p[0])
    /\ IsGatewayAt(p[Len(wire)])
    /\ \A i \in 1 .. Len(wire) : Leads(p[i - 1], wire[i], p[i])
    /\ \A i \in 0 .. Len(wire) : IsPrefix(p[i].sent, sent)

\* The inductive invariant.  As long as the reader reads, what is on the wire
\* leads from what it has understood to what the gateway has said.
ReaderInv ==
    /\ TypeOK
    /\ at = "reading" => \E p : Joins(p)
    /\ MessagesAreIntact
    /\ LegalStreamAccepted

LEMMA PrefixSelf == ASSUME NEW S, NEW s \in Seq(S) PROVE IsPrefix(s, s)
  BY DEF IsPrefix

LEMMA PrefixAppend ==
  ASSUME NEW S, NEW s \in Seq(S), NEW t \in Seq(S), NEW e \in S, IsPrefix(s, t)
  PROVE  IsPrefix(s, Append(t, e))
<1>1. Len(s) \in Nat /\ Len(t) \in Nat /\ Len(s) <= Len(t)
  BY DEF IsPrefix
<1>2. SubSeq(Append(t, e), 1, Len(s)) = SubSeq(t, 1, Len(s))
  BY <1>1
<1> QED
  BY <1>1, <1>2 DEF IsPrefix

\* The sizes considered are natural numbers, and the header tells them.
LEMMA SizeRead ==
  ASSUME NEW n \in Sizes
  PROVE  n \in Nat /\ DecodeLength(EncodeLength(n)) = n
<1>0. Limit \in Nat
  BY SMT DEF Limit
<1>1. n \in Nat /\ n < Limit
  BY <1>0, SMT, WsReaderAssumption
<1> QED
  BY <1>1, LengthRoundTrip

LEMMA MessageLimit == MaxMessage \in Nat /\ MaxControl <= MaxMessage /\ MaxControl \in Nat
<1>1. Limit \in Nat
  BY SMT DEF Limit
<1>2. MaxControl \in Nat
  BY SMT DEF MaxControl
<1> QED
  BY <1>1, <1>2, SMT, WsReaderAssumption

FrameTypes == [op : Opcodes, final : BOOLEAN, malformed : BOOLEAN,
               header : {EncodeLength(n) : n \in Sizes}]

\* What one send does to the wire and to the point the gateway is at.
LEMMA SendLeads ==
  ASSUME TypeOK, Send, NEW a \in Point, IsGatewayAt(a)
  PROVE  \E f \in FrameTypes, b \in Point :
            /\ wire' = Append(wire, f)
            /\ Leads(a, f, b) /\ IsGatewayAt(b)'
            /\ sent' = sent \/ \E n \in Nat : sent' = Append(sent, n)
<1>1. PICK g \in Frames :
        LET data == g.op \in {"text", "continuation"}
            payload == IF g.op = "text" THEN g.size ELSE total + g.size
        IN  /\ wire' = Append(wire, [op |-> g.op, final |-> g.final, malformed |-> g.malformed,
                                       header |-> EncodeLength(g.size)])
            /\ faulty' = ~Legal(g)
            /\ unfinished' = IF Legal(g) /\ data THEN ~g.final ELSE unfinished
            /\ total' = IF Legal(g) /\ data THEN IF g.final THEN 0 ELSE payload ELSE total
            /\ sent' = IF Legal(g) /\ data /\ g.final THEN Append(sent, payload) ELSE sent
            /\ pings' = IF Legal(g) /\ g.op = "ping" THEN Append(pings, g.size) ELSE pings
  BY Zenon DEF Send
<1> DEFINE f == [op |-> g.op, final |-> g.final, malformed |-> g.malformed,
                 header |-> EncodeLength(g.size)]
           b == [begun |-> unfinished', total |-> total', sent |-> sent', pings |-> pings',
                 faulty |-> faulty']
<1>2. f \in FrameTypes /\ g.size \in Sizes /\ g.size \in Nat
  BY SizeRead DEF FrameTypes, Frames
<1>3. LegalAt(a, f, g.size) <=> Legal(g)
  BY DEF LegalAt, Legal, IsGatewayAt, Control
<1>4. ~a.faulty
  BY DEF Send, IsGatewayAt
<1>5. Leads(a, f, b)
  BY <1>1, <1>2, <1>3, <1>4 DEF Leads, IsGatewayAt, Payload, Data, Frames
<1>6. total \in Nat /\ MaxMessage \in Nat
  BY MessageLimit DEF TypeOK
<1>7. b \in Point
  <2>1. faulty' \in BOOLEAN
    BY <1>1
  <2>2. unfinished' \in BOOLEAN
    BY <1>1 DEF Frames, TypeOK
  <2>3. total' \in 0 .. MaxMessage
    BY <1>1, <1>2, <1>6 DEF Legal, TypeOK
  <2>4. sent' \in Seq(Nat) /\ pings' \in Seq(Nat)
    BY <1>1, <1>2, <1>6 DEF TypeOK
  <2> QED
    BY <2>1, <2>2, <2>3, <2>4 DEF Point
<1>8. sent' = sent \/ \E n \in Nat : sent' = Append(sent, n)
  BY <1>1, <1>2, <1>6
<1> QED
  BY <1>1, <1>2, <1>5, <1>7, <1>8 DEF IsGatewayAt

\* The frame the reader takes next.
LEMMA HeadOfWire ==
  ASSUME TypeOK, wire # <<>>
  PROVE  /\ wire \in Seq(FrameTypes) /\ Head(wire) = wire[1] /\ Head(wire) \in FrameTypes
         /\ Len(wire) \in Nat \ {0}
         /\ Tail(wire) \in Seq(FrameTypes) /\ Len(Tail(wire)) = Len(wire) - 1
         /\ \A i \in 1 .. Len(wire) - 1 : Tail(wire)[i] = wire[i + 1]
         /\ size \in Nat
<1>1. wire \in Seq(FrameTypes)
  BY DEF TypeOK, FrameTypes
<1>2. /\ Head(wire) = wire[1] /\ Head(wire) \in FrameTypes
      /\ Len(wire) \in Nat \ {0}
      /\ Tail(wire) \in Seq(FrameTypes) /\ Len(Tail(wire)) = Len(wire) - 1
      /\ \A i \in 1 .. Len(wire) - 1 : Tail(wire)[i] = wire[i + 1]
  BY <1>1
<1>3. PICK n \in Sizes : Head(wire).header = EncodeLength(n)
  BY <1>2 DEF FrameTypes
<1>4. size \in Nat
  BY <1>3, SizeRead DEF size
<1> QED
  BY <1>1, <1>2, <1>4

\* The reader refuses exactly what the gateway must not send, and reads the
\* size of the payload from the header.
LEMMA RefusesTheIllegal ==
  ASSUME TypeOK, wire # <<>>, NEW p, Joins(p)
  PROVE  /\ FrameRefused \/ OpcodeRefused <=> ~LegalAt(p[0], Head(wire), size)
         /\ p[1].faulty <=> ~LegalAt(p[0], Head(wire), size)
         /\ p[1].begun <=> IF LegalAt(p[0], Head(wire), size) /\ Data(Head(wire))
                           THEN ~final ELSE p[0].begun
         /\ p[1].total = IF LegalAt(p[0], Head(wire), size) /\ Data(Head(wire))
                         THEN IF final THEN 0 ELSE Payload(p[0], Head(wire), size)
                         ELSE p[0].total
         /\ p[1].sent = IF LegalAt(p[0], Head(wire), size) /\ Data(Head(wire)) /\ final
                        THEN Append(p[0].sent, Payload(p[0], Head(wire), size))
                        ELSE p[0].sent
         /\ p[1].pings = IF LegalAt(p[0], Head(wire), size) /\ op = "ping"
                         THEN Append(p[0].pings, size) ELSE p[0].pings
<1>1. /\ 1 \in 1 .. Len(wire) /\ Head(wire) = wire[1] /\ Head(wire) \in FrameTypes
      /\ size \in Nat
  BY HeadOfWire
<1>2. Leads(p[0], Head(wire), p[1])
  <2>1. Leads(p[1 - 1], wire[1], p[1])
    BY <1>1 DEF Joins
  <2> QED
    BY <1>1, <2>1
<1>3. PICK n \in Sizes :
        /\ Head(wire).header = EncodeLength(n)
        /\ p[1].faulty <=> ~LegalAt(p[0], Head(wire), n)
        /\ p[1].begun <=> IF LegalAt(p[0], Head(wire), n) /\ Data(Head(wire))
                           THEN ~Head(wire).final ELSE p[0].begun
        /\ p[1].total = IF LegalAt(p[0], Head(wire), n) /\ Data(Head(wire))
                         THEN IF Head(wire).final THEN 0 ELSE Payload(p[0], Head(wire), n)
                         ELSE p[0].total
        /\ p[1].sent = IF LegalAt(p[0], Head(wire), n) /\ Data(Head(wire)) /\ Head(wire).final
                        THEN Append(p[0].sent, Payload(p[0], Head(wire), n))
                        ELSE p[0].sent
        /\ p[1].pings = IF LegalAt(p[0], Head(wire), n) /\ Head(wire).op = "ping"
                         THEN Append(p[0].pings, n) ELSE p[0].pings
  BY <1>2, Zenon DEF Leads
<1>4. size = n
  BY <1>3, SizeRead DEF size
<1>5. FrameRefused \/ OpcodeRefused <=> ~LegalAt(p[0], Head(wire), size)
  <2>1. IsReaderAt(p[0])
    BY DEF Joins
  <2>2. MaxMessage \in Nat /\ MaxControl <= MaxMessage /\ MaxControl \in Nat /\ length \in Nat
    BY MessageLimit DEF TypeOK
  <2>3. opcode \in {"none", "text"}
    BY DEF TypeOK
  <2>4. FrameRefused <=> \/ Head(wire).malformed
                         \/ Control(Head(wire).op) /\ (~Head(wire).final \/ size > MaxControl)
                         \/ size > MaxMessage
    BY DEF FrameRefused, op, final
  <2>5. OpcodeRefused <=>
          \/ Head(wire).op = "continuation" /\ (opcode = "none" \/ length + size > MaxMessage)
          \/ Head(wire).op = "text" /\ opcode # "none"
          \/ Head(wire).op \in {"binary", "reserved"}
    BY DEF OpcodeRefused, MessageTooLong, op
  <2>6. Head(wire).op \in Opcodes
    BY <1>1 DEF FrameTypes
  <2> HIDE DEF size
  <2> QED
    BY <1>1, <2>1, <2>2, <2>3, <2>4, <2>5, <2>6 DEF LegalAt, IsReaderAt, Control, Opcodes
<1> QED
  BY <1>3, <1>4, <1>5 DEF op, final

-----------------------------------------------------------------------------
LEMMA ReaderTypeOK == TypeOK /\ [Next]_vars => TypeOK'
<1> SUFFICES ASSUME TypeOK, [Next]_vars PROVE TypeOK'
  OBVIOUS
<1>1. CASE Send
  <2> DEFINE a == [begun |-> unfinished, total |-> total, sent |-> sent, pings |-> pings,
                   faulty |-> faulty]
  <2>1. a \in Point /\ IsGatewayAt(a)
    BY DEF Point, IsGatewayAt, TypeOK
  <2> HIDE DEF a
  <2>2. PICK f \in FrameTypes, b \in Point :
          wire' = Append(wire, f) /\ IsGatewayAt(b)'
    BY <1>1, <2>1, SendLeads
  <2>3. wire' \in Seq(FrameTypes)
    BY <2>2 DEF TypeOK, FrameTypes
  <2>4. total' \in 0 .. MaxMessage /\ sent' \in Seq(Nat) /\ pings' \in Seq(Nat)
    BY <2>2 DEF IsGatewayAt, Point
  <2>5. frames' \in 0 .. MaxFrames
    BY <1>1, WsReaderAssumption DEF Send, TypeOK
  <2>6. unfinished' \in BOOLEAN /\ faulty' \in BOOLEAN
    BY <1>1 DEF Send, Frames, TypeOK
  <2> QED
    BY <1>1, <2>3, <2>4, <2>5, <2>6 DEF Send, readerVars, TypeOK, FrameTypes
<1>2. CASE ReadFails
  BY <1>2 DEF ReadFails, gatewayVars, TypeOK
<1>3. CASE ReadMessage /\ ~ReadFails
  <2>1. /\ wire # <<>> /\ wire' = Tail(wire) /\ UNCHANGED gatewayVars
        /\ at' \in {"reading", "protocol", "eof", "io"}
    BY <1>3 DEF ReadMessage, Refuse, ReadText, ReadContinuation, ReadPing, PongFails,
                ReadPong, ReadClose, Goto
  <2>2. wire' \in Seq(FrameTypes) /\ size \in Nat
    BY <2>1, HeadOfWire
  <2>3. MaxMessage \in Nat
    BY MessageLimit
  <2>4. ~FrameRefused /\ ~OpcodeRefused => size <= MaxMessage
    BY <2>2, <2>3 DEF FrameRefused
  <2>5. ~OpcodeRefused /\ op = "continuation" => length + size <= MaxMessage
    BY <2>2, <2>3 DEF OpcodeRefused, MessageTooLong, TypeOK
  <2>6. /\ opcode' \in {"none", "text"} /\ length' \in 0 .. MaxMessage
        /\ delivered' \in Seq(Nat) /\ pongs' \in Seq(Nat)
    <3>1. CASE UNCHANGED <<opcode, length, delivered, pongs>>
      BY <3>1 DEF TypeOK
    <3>0. ASSUME NEW n, n \in 0 .. MaxMessage, Deliver(n), UNCHANGED pongs
          PROVE  /\ opcode' \in {"none", "text"} /\ length' \in 0 .. MaxMessage
                 /\ delivered' \in Seq(Nat) /\ pongs' \in Seq(Nat)
      <4>1. delivered \in Seq(Nat) /\ n \in Nat
        BY <2>3, <3>0 DEF TypeOK
      <4>2. delivered' \in Seq(Nat)
        BY <3>0, <4>1 DEF Deliver
      <4> QED
        BY <2>3, <3>0, <4>2 DEF Deliver, TypeOK
    <3>2. CASE ReadText
      <4>1. size \in 0 .. MaxMessage
        BY <2>2, <2>3, <2>4, <3>2 DEF ReadText, Takes
      <4>2. CASE final
        BY <3>0, <3>2, <4>1, <4>2 DEF ReadText
      <4>3. CASE ~final
        BY <3>2, <4>1, <4>3 DEF ReadText, TypeOK
      <4> QED
        BY <4>2, <4>3
    <3>3. CASE ReadContinuation
      <4>1. length \in Nat /\ length + size \in 0 .. MaxMessage
        BY <2>2, <2>3, <2>5, <3>3 DEF ReadContinuation, Takes, TypeOK
      <4>2. CASE final
        BY <3>0, <3>3, <4>1, <4>2 DEF ReadContinuation
      <4>3. CASE ~final
        BY <3>3, <4>1, <4>3 DEF ReadContinuation, TypeOK
      <4> QED
        BY <4>2, <4>3
    <3>4. CASE ReadPing
      BY <2>2, <3>4 DEF ReadPing, TypeOK
    <3> QED
      BY <1>3, <3>1, <3>2, <3>3, <3>4 DEF ReadMessage, Refuse, PongFails, ReadPong, ReadClose
  <2> QED
    BY <2>1, <2>2, <2>6 DEF gatewayVars, TypeOK, FrameTypes
<1>4. CASE UNCHANGED vars
  BY <1>4 DEF vars, gatewayVars, readerVars, TypeOK
<1> QED
  BY <1>1, <1>2, <1>3, <1>4 DEF Next

LEMMA SendKeeps == ReaderInv /\ Send => ReaderInv'
<1> SUFFICES ASSUME ReaderInv, Send PROVE ReaderInv'
  OBVIOUS
<1>1. TypeOK /\ TypeOK'
  BY ReaderTypeOK DEF ReaderInv, Next
<1>2. UNCHANGED <<at, opcode, length, delivered, pongs>>
  BY DEF Send, readerVars
<1>3. delivered \in Seq(Nat) /\ sent \in Seq(Nat) /\ IsPrefix(delivered, sent)
  BY <1>1 DEF TypeOK, ReaderInv, MessagesAreIntact
<1>4. ~faulty
  BY DEF Send
<1>5. sent' = sent \/ \E n \in Nat : sent' = Append(sent, n)
  <2> DEFINE a == [begun |-> unfinished, total |-> total, sent |-> sent, pings |-> pings,
                   faulty |-> faulty]
  <2>1. a \in Point /\ IsGatewayAt(a)
    BY <1>1 DEF Point, IsGatewayAt, TypeOK
  <2> HIDE DEF a
  <2> QED
    BY <1>1, <2>1, SendLeads
<1>6. ASSUME NEW s \in Seq(Nat), IsPrefix(s, sent) PROVE IsPrefix(s, sent')
  BY <1>3, <1>5, <1>6, PrefixAppend
<1>7. MessagesAreIntact'
  BY <1>2, <1>3, <1>6 DEF MessagesAreIntact
<1>8. LegalStreamAccepted'
  BY <1>2, <1>4 DEF LegalStreamAccepted, ReaderInv
<1>9. ASSUME at' = "reading" PROVE \E p : Joins(p)'
  <2>1. PICK p : Joins(p)
    BY <1>2, <1>9 DEF ReaderInv
  <2>2. wire \in Seq(FrameTypes) /\ Len(wire) \in Nat
    BY <1>1 DEF TypeOK, FrameTypes
  <2>3. PICK f \in FrameTypes, b \in Point :
          /\ wire' = Append(wire, f)
          /\ Leads(p[Len(wire)], f, b) /\ IsGatewayAt(b)'
    <3>1. p[Len(wire)] \in Point /\ IsGatewayAt(p[Len(wire)])
      BY <2>1, <2>2 DEF Joins
    <3> QED
      BY <1>1, <3>1, SendLeads
  <2>m. PICK m : m = Len(wire) + 1
    OBVIOUS
  <2>q. PICK q : q = [i \in 0 .. m |-> IF i = m THEN b ELSE p[i]]
    OBVIOUS
  <2>4. /\ Len(wire') = m /\ wire'[m] = f /\ m \in Nat \ {0} /\ m - 1 = Len(wire)
        /\ \A i \in 1 .. Len(wire) : wire'[i] = wire[i]
    BY <2>2, <2>3, <2>m
  <2>5. /\ q \in [0 .. m -> Point] /\ q[m] = b
        /\ \A i \in 0 .. Len(wire) : q[i] = p[i]
    BY <2>1, <2>2, <2>4, <2>q DEF Joins
  <2>6. IsReaderAt(q[0])'
    BY <1>2, <2>1, <2>2, <2>5 DEF Joins, IsReaderAt
  <2>7. \A i \in 1 .. m : Leads(q[i - 1], wire'[i], q[i])
    <3> TAKE i \in 1 .. m
    <3>1. CASE i = m
      <4>1. q[i - 1] = p[Len(wire)] /\ wire'[i] = f /\ q[i] = b
        BY <2>2, <2>4, <2>5, <3>1
      <4> QED
        BY <2>3, <4>1
    <3>2. CASE i # m
      <4>1. i \in 1 .. Len(wire) /\ i - 1 \in 0 .. Len(wire) /\ i \in 0 .. Len(wire)
        BY <2>2, <2>4, <3>2
      <4> QED
        BY <2>1, <2>4, <2>5, <4>1 DEF Joins
    <3> QED
      BY <3>1, <3>2
  <2>8. \A i \in 0 .. m : IsPrefix(q[i].sent, sent')
    <3> TAKE i \in 0 .. m
    <3>1. CASE i = m
      BY <1>1, <2>3, <2>5, <3>1, PrefixSelf DEF IsGatewayAt, TypeOK
    <3>2. CASE i # m
      <4>1. i \in 0 .. Len(wire)
        BY <2>2, <2>4, <3>2
      <4>2. p[i].sent \in Seq(Nat) /\ IsPrefix(p[i].sent, sent)
        BY <2>1, <4>1 DEF Joins, Point
      <4> QED
        BY <1>6, <2>5, <4>1, <4>2
    <3> QED
      BY <3>1, <3>2
  <2>9. Joins(q)'
    BY <2>3, <2>4, <2>5, <2>6, <2>7, <2>8 DEF Joins
  <2> QED
    BY <2>9
<1> QED
  BY <1>1, <1>7, <1>8, <1>9 DEF ReaderInv

\* What is left when the reader has taken a legal frame.
LEMMA TakenFrame ==
  ASSUME TypeOK, wire # <<>>, wire' = Tail(wire), UNCHANGED gatewayVars,
         NEW p, Joins(p), IsReaderAt(p[1])'
  PROVE  \E q : Joins(q)'
<1>1. /\ wire \in Seq(FrameTypes)
      /\ Len(wire) \in Nat \ {0} /\ Len(wire') = Len(wire) - 1
      /\ \A i \in 1 .. Len(wire) - 1 : wire'[i] = wire[i + 1]
  BY HeadOfWire
<1>2. PICK m : m = Len(wire) - 1
  OBVIOUS
<1>3. PICK q : q = [i \in 0 .. m |-> p[i + 1]]
  OBVIOUS
<1>4. /\ m \in Nat /\ Len(wire') = m /\ Len(wire) = m + 1
      /\ \A i \in 0 .. m : i + 1 \in 0 .. Len(wire) /\ q[i] = p[i + 1]
      /\ 0 \in 0 .. m /\ m \in 0 .. m
  BY <1>1, <1>2, <1>3
<1>5. q \in [0 .. m -> Point]
  BY <1>3, <1>4 DEF Joins
<1>6. IsReaderAt(q[0])'
  BY <1>4
<1>7. IsGatewayAt(q[m])'
  BY <1>4 DEF Joins, IsGatewayAt, gatewayVars
<1>8. \A i \in 1 .. m : Leads(q[i - 1], wire'[i], q[i])
  <2> TAKE i \in 1 .. m
  <2>1. /\ i - 1 \in 0 .. m /\ i \in 0 .. m /\ i + 1 \in 1 .. Len(wire)
        /\ (i + 1) - 1 = i /\ (i - 1) + 1 = i
    BY <1>4
  <2>2. Leads(p[i], wire[i + 1], p[i + 1])
    <3>1. Leads(p[(i + 1) - 1], wire[i + 1], p[i + 1])
      BY <2>1 DEF Joins
    <3> QED
      BY <2>1, <3>1
  <2>3. q[i - 1] = p[i] /\ q[i] = p[i + 1] /\ wire'[i] = wire[i + 1]
    BY <1>1, <1>2, <1>4, <2>1
  <2> QED
    BY <2>2, <2>3
<1>9. \A i \in 0 .. m : IsPrefix(q[i].sent, sent')
  BY <1>4 DEF Joins, gatewayVars
<1>10. Joins(q)'
  BY <1>4, <1>5, <1>6, <1>7, <1>8, <1>9 DEF Joins
<1> QED
  BY <1>10

LEMMA ReadKeeps == ReaderInv /\ ReadMessage => ReaderInv'
<1> SUFFICES ASSUME ReaderInv, ReadMessage PROVE ReaderInv'
  OBVIOUS
<1>1. TypeOK /\ TypeOK'
  BY ReaderTypeOK DEF ReaderInv, Next
<1>2. UNCHANGED gatewayVars /\ at = "reading"
  BY DEF ReadMessage, Refuse, ReadText, ReadContinuation, ReadPing, PongFails,
         ReadPong, ReadClose, ReadFails, Goto
<1>3. PICK p : Joins(p)
  BY <1>2 DEF ReaderInv
<1>4. CASE at' \in {"eof", "io"}
  <2>1. UNCHANGED <<delivered, sent>>
    BY <1>4, <1>2 DEF gatewayVars, ReadMessage, Refuse, ReadText, ReadContinuation, ReadPing, PongFails,
         ReadPong, ReadClose, ReadFails, Goto
  <2> QED
    BY <1>1, <1>4, <2>1 DEF ReaderInv, MessagesAreIntact, LegalStreamAccepted
<1>5. CASE Refuse
  <2>1. wire # <<>> /\ UNCHANGED <<delivered, sent>>
    BY <1>2, <1>5 DEF Refuse, Goto, gatewayVars
  <2>2. p[1].faulty
    BY <1>1, <1>3, <1>5, <2>1, RefusesTheIllegal DEF Refuse
  <2>3. Len(wire) \in Nat \ {0}
    BY <1>1, <2>1, HeadOfWire
  <2>4. Len(wire) = 1
    <3> SUFFICES ASSUME Len(wire) # 1 PROVE FALSE
      OBVIOUS
    <3>1. 2 \in 1 .. Len(wire) /\ 2 - 1 = 1
      BY <2>3
    <3>2. Leads(p[1], wire[2], p[2])
      BY <1>3, <3>1 DEF Joins
    <3> QED
      BY <2>2, <3>2 DEF Leads
  <2>5. faulty /\ faulty'
    BY <1>2, <1>3, <2>2, <2>4 DEF Joins, IsGatewayAt, gatewayVars
  <2> QED
    BY <1>1, <1>5, <2>1, <2>5 DEF Refuse, Goto, ReaderInv, MessagesAreIntact,
                                  LegalStreamAccepted
<1>6. CASE ReadText \/ ReadContinuation \/ ReadPing \/ ReadPong
  <2>1. /\ wire # <<>> /\ wire' = Tail(wire) /\ at' = "reading"
        /\ ~FrameRefused /\ ~OpcodeRefused
    BY <1>6 DEF ReadText, ReadContinuation, ReadPing, ReadPong, Goto, Takes
  <2>2. /\ LegalAt(p[0], Head(wire), size)
        /\ ~p[1].faulty
        /\ p[1].begun <=> IF Data(Head(wire)) THEN ~final ELSE p[0].begun
        /\ p[1].total = IF Data(Head(wire))
                         THEN IF final THEN 0 ELSE Payload(p[0], Head(wire), size)
                         ELSE p[0].total
        /\ p[1].sent = IF Data(Head(wire)) /\ final
                        THEN Append(p[0].sent, Payload(p[0], Head(wire), size))
                        ELSE p[0].sent
        /\ p[1].pings = IF op = "ping" THEN Append(p[0].pings, size) ELSE p[0].pings
    BY <1>1, <1>3, <2>1, RefusesTheIllegal
  <2>3. IsReaderAt(p[0])
    BY <1>3 DEF Joins
  <2>4. IsReaderAt(p[1])'
    <3> HIDE DEF size, final
    <3>1. CASE ReadText
      BY <2>2, <2>3, <3>1 DEF ReadText, Takes, Deliver, op, Data, Payload, IsReaderAt
    <3>2. CASE ReadContinuation
      <4>1. opcode # "none"
        BY <3>2 DEF ReadContinuation, Takes, OpcodeRefused
      <4> QED
        BY <2>2, <2>3, <3>2, <4>1 DEF ReadContinuation, Takes, Deliver, op, Data, Payload, IsReaderAt
    <3>3. CASE ReadPing
      BY <2>2, <2>3, <3>3 DEF ReadPing, Takes, op, Data, IsReaderAt
    <3>4. CASE ReadPong
      BY <2>2, <2>3, <3>4 DEF ReadPong, Takes, op, Data, IsReaderAt
    <3> QED
      BY <1>6, <3>1, <3>2, <3>3, <3>4
  <2>5. \E q : Joins(q)'
    BY <1>1, <1>2, <1>3, <2>1, <2>4, TakenFrame
  <2>6. IsPrefix(delivered', sent')
    <3>1. 1 \in 0 .. Len(wire)
      BY <1>1, <2>1, HeadOfWire
    <3> QED
      BY <1>2, <1>3, <2>4, <3>1 DEF Joins, IsReaderAt, gatewayVars
  <2> QED
    BY <1>1, <2>1, <2>5, <2>6 DEF ReaderInv, MessagesAreIntact, LegalStreamAccepted
<1> QED
  BY <1>4, <1>5, <1>6
  DEF ReadMessage, PongFails, ReadClose, ReadFails, Goto

LEMMA InitReader == Init => ReaderInv
<1> SUFFICES ASSUME Init PROVE ReaderInv
  OBVIOUS
<1>1. TypeOK
  <2>1. 0 \in 0 .. MaxMessage /\ 0 \in 0 .. MaxFrames
    BY WsReaderAssumption, MessageLimit
  <2>2. wire \in Seq(FrameTypes)
    BY DEF Init
  <2>3. /\ sent \in Seq(Nat) /\ pings \in Seq(Nat)
        /\ delivered \in Seq(Nat) /\ pongs \in Seq(Nat)
    BY DEF Init
  <2> QED
    BY <2>1, <2>2, <2>3 DEF Init, TypeOK, FrameTypes
<1>2. PICK a : a = [begun |-> FALSE, total |-> 0, sent |-> <<>>, pings |-> <<>>,
                    faulty |-> FALSE]
  OBVIOUS
<1>3. a \in Point /\ IsReaderAt(a) /\ IsGatewayAt(a) /\ a.sent = <<>>
  BY <1>2, MessageLimit DEF Init, Point, IsReaderAt, IsGatewayAt
<1>4. IsPrefix(<<>>, sent)
  <2>1. sent \in Seq(Nat) /\ sent = <<>>
    BY DEF Init
  <2> QED
    BY <2>1, PrefixSelf
<1>5. Joins([i \in 0 .. 0 |-> a])
  BY <1>3, <1>4 DEF Init, Joins
<1> QED
  BY <1>1, <1>4, <1>5 DEF Init, ReaderInv, MessagesAreIntact, LegalStreamAccepted

\* What is on the wire leads from what the reader has understood to what the
\* gateway has said, in every reachable state.
THEOREM ReaderInductive == Spec => []ReaderInv
<1>1. ReaderInv /\ [Next]_vars => ReaderInv'
  <2> SUFFICES ASSUME ReaderInv, [Next]_vars PROVE ReaderInv'
    OBVIOUS
  <2>1. CASE UNCHANGED vars
    <3>1. TypeOK'
      BY ReaderTypeOK DEF ReaderInv
    <3>2. UNCHANGED <<wire, unfinished, total, sent, pings, faulty, at, opcode, length,
                      delivered, pongs>>
      BY <2>1 DEF vars, gatewayVars, readerVars
    <3>3. ASSUME NEW p, Joins(p) PROVE Joins(p)'
      BY <3>2, <3>3 DEF Joins, IsReaderAt, IsGatewayAt
    <3> QED
      BY <3>1, <3>2, <3>3 DEF ReaderInv, MessagesAreIntact, LegalStreamAccepted
  <2> QED
    BY <2>1, SendKeeps, ReadKeeps DEF Next
<1> QED
  BY InitReader, <1>1, PTL DEF Spec

\* Every variable of the reader and of the wire stays in its type; a message
\* that is being put together never exceeds the limit.
THEOREM ReaderTypeCorrect == Spec => []TypeOK
<1>1. ReaderInv => TypeOK
  BY DEF ReaderInv
<1> QED
  BY ReaderInductive, <1>1, PTL

\* The read loop gets the gateway's messages, whole, in order and with their
\* size, whatever fragments they came in and whatever stood between those.
THEOREM MessagesArriveIntact == Spec => []MessagesAreIntact
<1>1. ReaderInv => MessagesAreIntact
  BY DEF ReaderInv
<1> QED
  BY ReaderInductive, <1>1, PTL

\* Only an illegal frame makes ReadMessage fail for a protocol error.
THEOREM OnlyTheIllegalIsRefused == Spec => []LegalStreamAccepted
<1>1. ReaderInv => LegalStreamAccepted
  BY DEF ReaderInv
<1> QED
  BY ReaderInductive, <1>1, PTL

\* A reader with nothing left to read has returned every message, answered every
\* ping, and seen nothing illegal.
THEOREM NothingIsOverlooked == Spec => []NothingOverlooked
<1>1. ReaderInv => NothingOverlooked
  <2> SUFFICES ASSUME ReaderInv, at = "reading", wire = <<>>
               PROVE  delivered = sent /\ pongs = pings /\ ~faulty
    BY DEF NothingOverlooked
  <2>1. PICK p : Joins(p)
    BY DEF ReaderInv
  <2>2. IsReaderAt(p[0]) /\ IsGatewayAt(p[0])
    BY <2>1 DEF Joins
  <2> QED
    BY <2>2 DEF IsReaderAt, IsGatewayAt
<1> QED
  BY ReaderInductive, <1>1, PTL
=============================================================================
