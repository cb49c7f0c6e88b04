----------------------------- MODULE WireFormat -----------------------------
(***************************************************************************)
(* The messages as bytes: the cursor of libbuffer, the base message that   *)
(* every message begins with, and the messages that the server builds.     *)
(* A number is written as its digits to the base Byte, the lowest first;   *)
(* memcpy on the chip (little-endian) writes and reads the same digits.    *)
(***************************************************************************)
EXTENDS Integers, Sequences

CONSTANT Byte    \* how many values a byte has, 256

Word32 == Byte * Byte * Byte * Byte

\* message_type_e
CODEC_HEADER == 1
WIRE_CHUNK == 2
SERVER_SETTINGS == 3
TIME == 4
HELLO == 5
STREAM_TAGS == 6

\* A byte tells the types apart, which Refuses relies on.
ASSUME ByteAssumption == Byte \in Nat /\ Byte > STREAM_TAGS

BaseMessageSize == 26
-----------------------------------------------------------------------------
(* Numbers and digits.                                                     *)

Weight == << 1, Byte, Byte * Byte, Byte * Byte * Byte >>

\* A number as buffer_write_uint8, 16, 32 and their int twins store it; a negative number wraps.
Digits(width, n) == [i \in 1 .. width |-> (n \div Weight[i]) % Byte]

\* buffer_read_uint8, 16, 32: the digits from place at on.
Number(width, data, at) ==
  LET digit(i) == IF i < width THEN Weight[i + 1] * data[at + i] ELSE 0
  IN  digit(0) + digit(1) + digit(2) + digit(3)

\* Variant: read as a uint32_t.
Unsigned(n) == n

\* A 32-bit pattern as an int32_t.
Signed(n) == IF 2 * n >= Word32 THEN n - Word32 ELSE n

-----------------------------------------------------------------------------
(* The cursor.  A read or write that does not fit leaves the cursor where  *)
(* it is and is remembered in result; later ones are tried all the same.   *)

BufferWriteInit(size) == [data |-> << >>, size |-> size, result |-> 0]

BufferWrite(buffer, bytes) ==
  IF buffer.size - Len(buffer.data) < Len(bytes)
  THEN [buffer EXCEPT !.result = 1]
  ELSE [buffer EXCEPT !.data = @ \o bytes]

\* buffer_write_uint16 and the like.
Put(buffer, width, n) == BufferWrite(buffer, Digits(width, n))

BufferReadInit(data, size) ==
  [data |-> data, size |-> size, index |-> 0, result |-> 0, value |-> 0]

BufferRead(buffer, width) ==
  IF buffer.size - buffer.index < width
  THEN [buffer EXCEPT !.result = 1]
  ELSE [buffer EXCEPT !.index = @ + width,
                      !.value = Number(width, buffer.data, buffer.index + 1)]

-----------------------------------------------------------------------------
(* The base message and the answer to a TIME.                              *)

BaseMessageSerialize(msg, size) ==
  LET ids == Put(Put(Put(BufferWriteInit(size), 2, msg.type), 2, msg.id), 2, msg.refersTo)
      sent == Put(Put(ids, 4, msg.sent.sec), 4, msg.sent.usec)
      received == Put(Put(sent, 4, msg.received.sec), 4, msg.received.usec)
  IN  Put(received, 4, msg.size).data

\* The type is judged by its first byte alone.
Refuses(data) == Len(data) > BaseMessageSize \/ data[1] > STREAM_TAGS

\* The stamp "received" is the server's own clock.
DeserializeBaseMsg(data, now) ==
  [type |-> Number(2, data, 1), id |-> Number(2, data, 3), refersTo |-> Number(2, data, 5),
   sent |-> [sec |-> Signed(Number(4, data, 7)), usec |-> Signed(Number(4, data, 11))],
   received |-> now,
   size |-> Number(4, data, 23)]

TimeMessageDeserialize(data, size) ==
  LET sec == BufferRead(BufferReadInit(data, size), 4)
      usec == BufferRead(sec, 4)
  IN  [result |-> usec.result,
       latency |-> [sec |-> Signed(sec.value), usec |-> Signed(usec.value)]]

-----------------------------------------------------------------------------
(* The messages of the server: a base message, then the body.              *)

Message(type, id, refersTo, now, body) ==
  BaseMessageSerialize([type |-> type, id |-> id, refersTo |-> refersTo, sent |-> now,
                        received |-> [sec |-> 0, usec |-> 0], size |-> Len(body)],
                       BaseMessageSize) \o body

\* A text or a payload goes out behind its length.
Counted(bytes) == Digits(4, Len(bytes)) \o bytes

\* tv_t
Tv(tv) == Digits(4, tv.sec) \o Digits(4, tv.usec)

SettingsMessage(id, refersTo, now, json) ==
  Message(SERVER_SETTINGS, id, refersTo, now, Counted(json))

CodecHeaderMessage(id, refersTo, now, codec, payload) ==
  Message(CODEC_HEADER, id, refersTo, now, Counted(codec) \o Counted(payload))

\* The latency is a difference field by field; its microseconds may be negative.
TimeMessage(id, request, now) ==
  Message(TIME, id, request.id, now,
          Tv([sec |-> request.received.sec - request.sent.sec,
              usec |-> request.received.usec - request.sent.usec]))

WireChunkMessage(id, now, timestamp, payload) ==
  Message(WIRE_CHUNK, id, 0, now, Tv(timestamp) \o Counted(payload))
=============================================================================
