------------------------------ MODULE WsFrame ------------------------------
(***************************************************************************)
(* The length of a WebSocket frame as wsclient writes it in a header and   *)
(* as it reads it back: seven bits, which announce two or eight further    *)
(* bytes when the payload is longer than 125.  Lengths stay below          *)
(* 2^31 - 1 (the companion's limit is 16 MiB + 4 KiB), so that the upper   *)
(* four of the eight bytes are zero.                                       *)
(***************************************************************************)
EXTENDS Integers, Sequences

MaxControl == 125   \* the longest payload of a control frame
Max16 == 65535      \* the longest payload two bytes can announce
Limit == 2147483647 \* bound: lengths considered are below

Byte(n, weight) == (n \div weight) % 256

\* writeFrame: the seven-bit code and the bytes that follow it, big endian.
EncodeLength(n) ==
    IF n < 126 THEN [code |-> n, extended |-> <<>>]
    ELSE IF n <= Max16 THEN [code |-> 126, extended |-> <<Byte(n, 256), Byte(n, 1)>>]
    ELSE [code |-> 127, extended |-> <<0, 0, 0, 0, Byte(n, 16777216), Byte(n, 65536),
                                       Byte(n, 256), Byte(n, 1)>>]

\* readFrame with the two bytes swapped.
DecodeLengthSwapped(h) ==
    IF h.code = 126 THEN h.extended[1] + 256 * h.extended[2]
    ELSE IF h.code = 127 THEN 16777216 * h.extended[5] + 65536 * h.extended[6]
                              + 256 * h.extended[7] + h.extended[8]
    ELSE h.code

\* readFrame: the length a header announces.
DecodeLength(h) ==
    IF h.code = 126 THEN 256 * h.extended[1] + h.extended[2]
    ELSE IF h.code = 127 THEN 16777216 * h.extended[5] + 65536 * h.extended[6]
                              + 256 * h.extended[7] + h.extended[8]
    ELSE h.code
=============================================================================
