--------------------------- MODULE SocketIOProofs ---------------------------
(***************************************************************************)
(* Proofs about SocketIO, for every stream of messages, every size of      *)
(* body, length of answer, send buffer, queue and number of HELLOs.        *)
(*                                                                         *)
(*   TypeInv     the types, who may have something to write, and how many  *)
(*               messages a welcome has begun;                             *)
(*   OrderInv    while one HELLO was handled, one sends the newest frame;  *)
(*   StepInv     where in the client's stream a handler in step is, which  *)
(*               message it has in hand;                                   *)
(*   QueueInv    a queued request is one that the client sent;             *)
(*   FramesRead  each frame can be read, which builds on WireFormatProofs; *)
(*   WholeInv    while one HELLO was handled, all frames of the tx task are*)
(*               whole but the one it is at, which what is left completes; *)
(*   TurnInv     of the messages that the handler has dealt with, those    *)
(*               answered and those queued are the TIMEs, in their order.  *)
(*                                                                         *)
(* TypeInv is inductive by itself; the others are with it, QueueInv and    *)
(* FramesRead with StepInv, too, WholeInv with OrderInv, and TurnInv with  *)
(* QueueInv.                                                               *)
(***************************************************************************)
EXTENDS SocketIO, WireFormatProofs, FiniteSetTheorems, LeastNumber

\* The tasks.
LEMMA TaskNumbers ==
  /\ Handler = 0 /\ Handler \in Tasks /\ Handler \notin TxTasks
  /\ \A t \in TxTasks : t \in Tasks /\ t \in Nat /\ t # 0 /\ t # Handler /\ t <= MaxHello
  /\ \A t \in Tasks : t # Handler => t \in TxTasks
  /\ MaxHello \in Nat /\ 1 \in TxTasks
BY SocketAssumption DEF Handler, Tasks, TxTasks

-----------------------------------------------------------------------------
(* Where the messages of a stream end.                                     *)

\* e are the ends of the first n messages of m.
EndsTo(m, n, e) ==
  e = [k \in 0 .. n |-> IF k = 0 THEN 0 ELSE e[k - 1] + BaseUnits + BodySize[m[k]]]

\* The recursion of Ends has a solution.
LEMMA EndsExist == \A m : \A n \in Nat : \E e : EndsTo(m, n, e)
<1> SUFFICES ASSUME NEW m, {n \in Nat : ~\E e : EndsTo(m, n, e)} # {} PROVE FALSE
  OBVIOUS
<1>1. PICK n \in Nat : /\ ~(\E e : EndsTo(m, n, e))
                       /\ \A i \in Nat : ~(\E e : EndsTo(m, i, e)) => n <= i
  BY LeastExists
<1>2. CASE n = 0
  <2>1. EndsTo(m, 0, [k \in 0 .. 0 |-> 0])
    BY DEF EndsTo
  <2> QED
    BY <1>1, <1>2, <2>1
<1>3. CASE n # 0
  <2>1. PICK e : EndsTo(m, n - 1, e)
    BY <1>1, <1>3
  <2> DEFINE f == [k \in 0 .. n |-> IF k = 0 THEN 0 ELSE e[k - 1] + BaseUnits + BodySize[m[k]]]
  <2>2. e = [k \in 0 .. n - 1 |-> IF k = 0 THEN 0 ELSE e[k - 1] + BaseUnits + BodySize[m[k]]]
    BY <2>1 DEF EndsTo
  <2>3. \A k \in 0 .. n - 1 : f[k] = e[k]
    BY <2>2
  <2>4. \A k \in 0 .. n : k # 0 => f[k - 1] = e[k - 1]
    BY <2>3
  <2>5. f = [k \in 0 .. n |-> IF k = 0 THEN 0 ELSE e[k - 1] + BaseUnits + BodySize[m[k]]]
    OBVIOUS
  <2> HIDE DEF f
  <2>6. f = [k \in 0 .. n |-> IF k = 0 THEN 0 ELSE f[k - 1] + BaseUnits + BodySize[m[k]]]
    BY <2>4, <2>5
  <2>7. EndsTo(m, n, f)
    BY <2>6 DEF EndsTo
  <2> QED
    BY <1>1, <2>7
<1> QED
  BY <1>2, <1>3

\* So Ends is what its definition says.
LEMMA EndsAre ==
  \A m : Ends(m) = [k \in 0 .. MaxMessages |->
                      IF k = 0 THEN 0 ELSE Ends(m)[k - 1] + BaseUnits + BodySize[m[k]]]
<1> TAKE m
<1>1. \E e : e = [k \in 0 .. MaxMessages |->
                    IF k = 0 THEN 0 ELSE e[k - 1] + BaseUnits + BodySize[m[k]]]
  BY EndsExist, SocketAssumption DEF EndsTo
<1> QED
  BY <1>1, Zenon DEF Ends

Streams == [1 .. MaxMessages -> Messages]

\* Each message ends its base message and its body behind the one before.
LEMMA EndStep ==
  ASSUME NEW m \in Streams
  PROVE  /\ Ends(m)[0] = 0
         /\ \A k \in 1 .. MaxMessages : Ends(m)[k] = Ends(m)[k - 1] + BaseUnits + BodySize[m[k]]
         /\ \A k \in 1 .. MaxMessages : BodySize[m[k]] \in Nat
<1>1. \A k \in 1 .. MaxMessages : BodySize[m[k]] \in Nat
  <2>1. BodySize \in [Messages -> 0 .. Word32 - 1] /\ Word32 \in Nat
    BY SocketAssumption, ByteFacts DEF Word32
  <2> QED
    BY <2>1 DEF Streams
<1>2. MaxMessages \in Nat
  BY SocketAssumption
<1>3. Ends(m) = [k \in 0 .. MaxMessages |->
                   IF k = 0 THEN 0 ELSE Ends(m)[k - 1] + BaseUnits + BodySize[m[k]]]
  BY EndsAre
<1> DEFINE e == Ends(m)
<1> HIDE DEF e
<1>4. e = [k \in 0 .. MaxMessages |-> IF k = 0 THEN 0 ELSE e[k - 1] + BaseUnits + BodySize[m[k]]]
  BY <1>3 DEF e
<1>5. e[0] = 0 /\ \A k \in 1 .. MaxMessages : e[k] = e[k - 1] + BaseUnits + BodySize[m[k]]
  BY <1>2, <1>4
<1> QED
  BY <1>1, <1>5 DEF e

\* They are numbers, and each is a base message behind all earlier ones.
LEMMA EndsGrow ==
  ASSUME NEW m \in Streams
  PROVE  \A k \in 0 .. MaxMessages : /\ Ends(m)[k] \in Nat
                                     /\ \A j \in 0 .. k - 1 : Ends(m)[j] + BaseUnits <= Ends(m)[k]
<1> DEFINE e == Ends(m)
           Good(k) == e[k] \in Nat /\ \A j \in 0 .. k - 1 : e[j] + BaseUnits <= e[k]
<1>1. /\ e[0] = 0
      /\ \A k \in 1 .. MaxMessages : e[k] = e[k - 1] + BaseUnits + BodySize[m[k]]
      /\ \A k \in 1 .. MaxMessages : BodySize[m[k]] \in Nat
  BY EndStep
<1>2. BaseUnits \in Nat /\ MaxMessages \in Nat
  BY SocketAssumption
<1> HIDE DEF e
<1> SUFFICES ASSUME {k \in Nat : ~(k \in 0 .. MaxMessages => Good(k))} # {} PROVE FALSE
  <2>1. \A k \in Nat : k \in 0 .. MaxMessages => Good(k)
    OBVIOUS
  <2> QED
    BY <1>2, <2>1 DEF e
<1>3. PICK n \in Nat : /\ ~(n \in 0 .. MaxMessages => Good(n))
                       /\ \A i \in Nat : ~(i \in 0 .. MaxMessages => Good(i)) => n <= i
  <2> DEFINE P(k) == ~(k \in 0 .. MaxMessages => Good(k))
  <2> HIDE DEF P
  <2>1. {k \in Nat : P(k)} # {}
    BY DEF P
  <2>2. PICK n \in Nat : P(n) /\ \A i \in Nat : P(i) => n <= i
    BY <2>1, LeastExists
  <2> QED
    BY <2>2 DEF P
<1>4. n \in 0 .. MaxMessages /\ ~Good(n)
  BY <1>3
<1>5. CASE n = 0
  BY <1>1, <1>4, <1>5
<1>6. CASE n # 0
  <2>1. n - 1 \in 0 .. MaxMessages /\ n \in 1 .. MaxMessages
    BY <1>2, <1>4, <1>6
  <2>2. Good(n - 1)
    BY <1>3, <2>1
  <2>3. e[n] = e[n - 1] + BaseUnits + BodySize[m[n]] /\ BodySize[m[n]] \in Nat
    BY <1>1, <2>1
  <2>4. e[n] \in Nat /\ e[n - 1] + BaseUnits <= e[n] /\ e[n - 1] <= e[n]
    BY <1>2, <2>2, <2>3
  <2>5. ASSUME NEW j \in 0 .. n - 1 PROVE e[j] + BaseUnits <= e[n]
    <3>1. CASE j = n - 1
      BY <2>4, <3>1
    <3>2. CASE j # n - 1
      <4>1. j \in 0 .. (n - 1) - 1
        BY <2>1, <3>2
      <4>2. e[j] + BaseUnits <= e[n - 1]
        BY <2>2, <4>1
      <4>3. j \in Nat /\ j \in 0 .. MaxMessages /\ j < n
        BY <1>2, <1>4
      <4>4. Good(j)
        BY <1>3, <4>3
      <4> QED
        BY <1>2, <2>2, <2>4, <4>2, <4>4
    <3> QED
      BY <3>1, <3>2
  <2> QED
    BY <1>4, <2>4, <2>5
<1> QED
  BY <1>5, <1>6

-----------------------------------------------------------------------------
(* The messages of the server.                                             *)

BaseMessageSet ==
  [type : Nat, id : Nat, refersTo : Nat, sent : [sec : Int, usec : Int],
   received : [sec : Int, usec : Int], size : Nat]

\* What a reader of frame m needs to find the next one.
WellBuilt(m, type) ==
  LET head == DeserializeBaseMsg(m, ServerTime)
  IN  /\ m \in Seq(Bytes) /\ Number(2, m, 1) = type
      /\ head.type = type /\ head.size = Len(SubSeq(m, BaseMessageSize + 1, Len(m)))
      /\ ~Refuses(SubSeq(m, 1, BaseMessageSize))

\* A message is well built whatever the body, up to a size that all answers keep.
LEMMA Built ==
  ASSUME NEW type \in 1 .. 6, NEW id \in Int, NEW refersTo \in Int, NEW body \in Seq(Bytes),
         Len(body) < 49 * 49
  PROVE  LET m == Message(type, id, refersTo, ServerTime, body)
         IN  /\ WellBuilt(m, type)
             /\ SubSeq(m, BaseMessageSize + 1, Len(m)) = body
             /\ DeserializeBaseMsg(m, ServerTime).refersTo = refersTo % (Byte * Byte)
<1> DEFINE m == Message(type, id, refersTo, ServerTime, body)
           head == DeserializeBaseMsg(m, ServerTime)
<1>1. ServerTime.sec \in Int /\ ServerTime.usec \in Int
  BY DEF ServerTime
<1>2. Carries(m, head, type, refersTo, body)
  <2>1. type \in Int
    OBVIOUS
  <2> QED
    BY <1>1, <2>1, MessageIs, Zenon
<1> HIDE DEF m, head
<1>3. type % Byte = type
  BY ByteFacts
<1>4. type % (Byte * Byte) = type
  <2>1. PICK s \in Nat : s = Byte * Byte /\ s >= 49
    BY Ranges
  <2>2. type % s = type
    BY <2>1
  <2> QED
    BY <2>1, <2>2
<1>5. Len(body) % Word32 = Len(body)
  <2>1. Len(body) \in Nat
    BY LenProperties
  <2>2. PICK w \in Nat, s \in Nat : w = Word32 /\ s = Byte * Byte /\ w >= 49 * s /\ s >= 49
    BY Ranges
  <2>3. Len(body) < w
    BY <2>1, <2>2
  <2>4. Len(body) % w = Len(body)
    BY <2>1, <2>3
  <2> QED
    BY <2>2, <2>4
<1>6. ~Refuses(SubSeq(m, 1, BaseMessageSize))
  BY <1>2, <1>3 DEF Carries, Refuses, BaseMessageSize, STREAM_TAGS
<1>7. WellBuilt(m, type)
  BY <1>2, <1>3, <1>4, <1>5, <1>6, Zenon DEF Carries, WellBuilt, head
<1> QED
  BY <1>2, <1>7 DEF Carries, m, head

\* What the handler and the tx tasks send.
LEMMA AnswersBuilt ==
  ASSUME NEW id \in Nat, NEW b \in BaseMessageSet
  PROVE  /\ WellBuilt(SettingsMessage(id, b.id, ServerTime, Json), SERVER_SETTINGS)
         /\ WellBuilt(CodecHeaderMessage(id, b.id, ServerTime, Codec, Payload), CODEC_HEADER)
         /\ WellBuilt(WireChunkMessage(id, ServerTime, ServerTime, Payload), WIRE_CHUNK)
         /\ LET m == TimeMessage(id, b, ServerTime)
                latency == [sec |-> b.received.sec - b.sent.sec,
                            usec |-> b.received.usec - b.sent.usec]
            IN  /\ WellBuilt(m, TIME)
                /\ SubSeq(m, BaseMessageSize + 1, Len(m)) = Tv(latency) /\ Len(Tv(latency)) = 8
                /\ DeserializeBaseMsg(m, ServerTime).refersTo = b.id % (Byte * Byte)
<1>1. b.id \in Int /\ id \in Int
  BY DEF BaseMessageSet
<1>2. /\ Json \in Seq(Bytes) /\ Len(Json) = 1 /\ Codec \in Seq(Bytes) /\ Len(Codec) = 2
      /\ Payload \in Seq(Bytes) /\ Len(Payload) = 2
  BY ByteFacts DEF Json, Codec, Payload, Bytes
<1>3. WellBuilt(SettingsMessage(id, b.id, ServerTime, Json), SERVER_SETTINGS)
  <2>1. Counted(Json) \in Seq(Bytes) /\ Len(Counted(Json)) = 4 + Len(Json)
    BY <1>2, PartTypes
  <2>2. Len(Counted(Json)) < 49 * 49 /\ SERVER_SETTINGS \in 1 .. 6
    BY <1>2, <2>1 DEF SERVER_SETTINGS
  <2> QED
    BY <1>1, <2>1, <2>2, Built, Zenon DEF SettingsMessage
<1>4. WellBuilt(CodecHeaderMessage(id, b.id, ServerTime, Codec, Payload), CODEC_HEADER)
  <2>1. /\ Counted(Codec) \in Seq(Bytes) /\ Len(Counted(Codec)) = 4 + Len(Codec)
        /\ Counted(Payload) \in Seq(Bytes) /\ Len(Counted(Payload)) = 4 + Len(Payload)
    BY <1>2, PartTypes, Zenon
  <2> DEFINE body == Counted(Codec) \o Counted(Payload)
  <2>2. body \in Seq(Bytes) /\ Len(body) = Len(Counted(Codec)) + Len(Counted(Payload))
    BY <2>1, Behind, Zenon
  <2>3. Len(body) < 49 * 49 /\ CODEC_HEADER \in 1 .. 6
    BY <1>2, <2>1, <2>2 DEF CODEC_HEADER
  <2> QED
    BY <1>1, <2>2, <2>3, Built, Zenon DEF CodecHeaderMessage
<1>5. WellBuilt(WireChunkMessage(id, ServerTime, ServerTime, Payload), WIRE_CHUNK)
  <2>1. Counted(Payload) \in Seq(Bytes) /\ Len(Counted(Payload)) = 4 + Len(Payload)
    BY <1>2, PartTypes, Zenon
  <2>2. Tv(ServerTime) \in Seq(Bytes) /\ Len(Tv(ServerTime)) = 8
    BY PartTypes DEF ServerTime
  <2> DEFINE body == Tv(ServerTime) \o Counted(Payload)
  <2>3. body \in Seq(Bytes) /\ Len(body) = Len(Tv(ServerTime)) + Len(Counted(Payload))
    BY <2>1, <2>2, Behind, Zenon
  <2>4. Len(body) < 49 * 49 /\ WIRE_CHUNK \in 1 .. 6 /\ 0 \in Int
    BY <1>2, <2>1, <2>2, <2>3 DEF WIRE_CHUNK
  <2> QED
    BY <1>1, <2>3, <2>4, Built, Zenon DEF WireChunkMessage
<1> DEFINE m == TimeMessage(id, b, ServerTime)
           latency == [sec |-> b.received.sec - b.sent.sec,
                       usec |-> b.received.usec - b.sent.usec]
<1>6. /\ WellBuilt(m, TIME)
      /\ SubSeq(m, BaseMessageSize + 1, Len(m)) = Tv(latency) /\ Len(Tv(latency)) = 8
      /\ DeserializeBaseMsg(m, ServerTime).refersTo = b.id % (Byte * Byte)
  <2>1. latency.sec \in Int /\ latency.usec \in Int
    BY DEF BaseMessageSet
  <2>2. m = Message(TIME, id, b.id, ServerTime, Tv(latency))
    BY DEF TimeMessage
  <2> HIDE DEF latency, m
  <2>3. Tv(latency) \in Seq(Bytes) /\ Len(Tv(latency)) = 8
    BY <2>1, PartTypes
  <2>4. Len(Tv(latency)) < 49 * 49 /\ TIME \in 1 .. 6
    BY <2>3 DEF TIME
  <2> QED
    BY <1>1, <2>2, <2>3, <2>4, Built, Zenon
<1> QED
  BY <1>3, <1>4, <1>5, <1>6

-----------------------------------------------------------------------------
(* The messages of the client.                                             *)

\* b is the base message of the client's k-th message, as it is read.
BaseOf(b, k) ==
  /\ b.type = msgs[k] /\ b.id = k % (Byte * Byte) /\ b.size = BodySize[msgs[k]]
  /\ b.received = ServerTime
  /\ b.sent = [sec |-> Signed((-k) % Word32), usec |-> Signed(k % Word32)]

\* The handler reads a client's base message as it was sent, but for what does not fit.
LEMMA BaseIsRead ==
  ASSUME msgs \in Streams, NEW k \in 1 .. MaxMessages
  PROVE  LET b == DeserializeBaseMsg(BaseBytes(k), ServerTime)
         IN  b \in BaseMessageSet /\ BaseOf(b, k)
<1> DEFINE zero == [sec |-> 0, usec |-> 0]
           msg == [type |-> msgs[k], id |-> k, refersTo |-> 0, sent |-> ClientTime(k),
                   received |-> zero, size |-> BodySize[msgs[k]]]
           data == BaseMessageSerialize(msg, BaseMessageSize)
           b == DeserializeBaseMsg(BaseBytes(k), ServerTime)
<1>1. k \in Int /\ MaxMessages \in Nat
  BY SocketAssumption
<1>2. msgs[k] \in 0 .. Byte * Byte - 1 /\ BodySize[msgs[k]] \in 0 .. Word32 - 1
  <2>1. msgs[k] \in Messages
    BY DEF Streams
  <2> QED
    BY <2>1, SocketAssumption
<1>3. Byte * Byte \in Nat \ {0} /\ Word32 \in Nat \ {0}
  BY Ranges
<1>4. BaseNumbers(msg)
  BY <1>1, <1>2, <1>3 DEF BaseNumbers, ClientTime
<1>5. /\ msg.type = msgs[k] /\ msg.id = k /\ msg.refersTo = 0 /\ msg.size = BodySize[msgs[k]]
      /\ msg.sent.sec = -k /\ msg.sent.usec = k
  BY DEF ClientTime
<1>6. BaseBytes(k) = data
  BY DEF BaseBytes
<1> HIDE DEF msg
<1>7. data \o << >> = data
  <2>1. data \in Seq(Bytes)
    BY <1>4, BaseBytesAre
  <2> QED
    BY <2>1
<1>8. << >> \in Seq(Bytes)
  BY EmptySeq
<1>9. DeserializeBaseMsg(data \o << >>, ServerTime) = BaseRead(msg, ServerTime)
  BY <1>4, <1>8, BaseMessageReadsBack
<1>10. b = BaseRead(msg, ServerTime)
  BY <1>6, <1>7, <1>9, Zenon
<1> HIDE DEF data, b
<1>11. b = [type |-> msgs[k] % (Byte * Byte), id |-> k % (Byte * Byte),
            refersTo |-> 0 % (Byte * Byte),
            sent |-> [sec |-> Signed((-k) % Word32), usec |-> Signed(k % Word32)],
            received |-> ServerTime, size |-> BodySize[msgs[k]] % Word32]
  BY <1>5, <1>10, Zenon DEF BaseRead
<1>12. /\ msgs[k] % (Byte * Byte) = msgs[k] /\ BodySize[msgs[k]] % Word32 = BodySize[msgs[k]]
       /\ k % (Byte * Byte) \in Nat /\ 0 % (Byte * Byte) \in Nat
       /\ (-k) % Word32 \in Nat /\ k % Word32 \in Nat
  <2>1. PICK s \in Nat \ {0}, w \in Nat \ {0} : s = Byte * Byte /\ w = Word32
    BY <1>3
  <2>2. msgs[k] % s = msgs[k] /\ BodySize[msgs[k]] % w = BodySize[msgs[k]]
    BY <1>2, <2>1
  <2>3. k % s \in Nat /\ 0 % s \in Nat /\ (-k) % w \in Nat /\ k % w \in Nat
    BY <1>1
  <2> QED
    BY <2>1, <2>2, <2>3
<1>13. Signed((-k) % Word32) \in Int /\ Signed(k % Word32) \in Int
  BY <1>3, <1>12 DEF Signed
<1>14. ServerTime \in [sec : Int, usec : Int]
  BY DEF ServerTime
<1>15. /\ b.type = msgs[k] /\ b.id = k % (Byte * Byte) /\ b.size = BodySize[msgs[k]]
       /\ b.received = ServerTime
       /\ b.sent = [sec |-> Signed((-k) % Word32), usec |-> Signed(k % Word32)]
  BY <1>11, <1>12
<1>16. b \in BaseMessageSet
  BY <1>2, <1>3, <1>11, <1>12, <1>13, <1>14 DEF BaseMessageSet
<1> QED
  BY <1>15, <1>16 DEF BaseOf, b

-----------------------------------------------------------------------------
(* The types, and what each task may be at.                                *)

HandlerPlaces == {"base", "typed", "settings", "sendingSettings", "sendingHeader", "queue",
                  "closing", "closed"}
TxPlaces == {"none", "wait", "sending", "deleted"}
Welcoming == pc[Handler] \in {"settings", "sendingSettings", "sendingHeader"}

\* What the handler has received.
InTypes ==
  /\ msgs \in Streams
  /\ pos \in 0 .. End(MaxMessages) /\ need \in Nat
  /\ base \in BaseMessageSet
  /\ client \in 0 .. MaxHello
  /\ msgQ \in [TxTasks -> Seq(BaseMessageSet)] /\ \A r \in TxTasks : Len(msgQ[r]) <= QLen
  /\ inStep \in BOOLEAN

\* What is being sent.
OutTypes ==
  /\ buffered \in 0 .. Room
  /\ frames \in Seq(Seq(Bytes)) /\ \A f \in 1 .. Len(frames) : Kind(f) \in Answers
  /\ wire \in Seq(1 .. Len(frames))
  /\ idCounter \in [TxTasks -> Nat]
  /\ frame \in [Tasks -> 0 .. Len(frames)]
  /\ toWrite \in [Tasks -> Nat]
  /\ count \in [Tasks -> 0 .. MaxRefused]

\* Where the tasks are: a record's task starts when its welcome is over, and only a task
\* that sends has something to write.
TaskInv ==
  /\ open \in BOOLEAN
  /\ pc \in [Tasks -> HandlerPlaces \cup TxPlaces]
  /\ pc[Handler] \in HandlerPlaces /\ \A t \in TxTasks : pc[t] \in TxPlaces
  /\ Welcoming \/ pc[Handler] = "queue" => client # 0
  /\ Welcoming => pc[client] = "none"
  /\ \A t \in TxTasks : t > client => pc[t] = "none"
  /\ \A t \in Tasks : toWrite[t] > 0 => Sending(t) /\ frame[t] # 0

\* The messages of a welcome that the handler has yet to begin.
Unsent == IF pc[Handler] = "settings" THEN 2 ELSE IF pc[Handler] = "sendingSettings" THEN 1 ELSE 0

\* A welcome is two messages, beyond which the tx tasks begin MaxFrames at most.
FramesCounted == Len(frames) <= MaxFrames + 2 * client - Unsent

TypeInv == InTypes /\ OutTypes /\ TaskInv /\ FramesCounted

\* The constants.
LEMMA ConstantTypes ==
  /\ Length \in [Answers -> Nat \ {0}] /\ Room \in Nat \ {0} /\ MaxRefused \in Nat
  /\ QLen \in Nat \ {0} /\ MaxMessages \in Nat /\ MaxHello \in Nat \ {0} /\ MaxFrames \in Nat
  /\ BaseUnits \in Nat \ {0} /\ Undefined \subseteq [type : Nat, size : Nat]
BY SocketAssumption

\* The types at the start.
LEMMA TypeInit == SocketInit => TypeInv
<1> SUFFICES ASSUME SocketInit PROVE TypeInv
  OBVIOUS
<1> USE DEF SocketInit
<1>1. msgs \in Streams
  BY DEF Conversations, Streams
<1>2. End(MaxMessages) \in Nat
  BY <1>1, EndsGrow, ConstantTypes DEF End
<1>3. base \in BaseMessageSet
  BY DEF BaseMessageSet, NoMessage
<1>4. msgQ \in [TxTasks -> Seq(BaseMessageSet)] /\ \A r \in TxTasks : Len(msgQ[r]) <= QLen
  <2>1. << >> \in Seq(BaseMessageSet) /\ Len(<< >>) = 0
    BY EmptySeq
  <2> QED
    BY <2>1, ConstantTypes
<1>5. InTypes
  BY <1>1, <1>2, <1>3, <1>4, ConstantTypes DEF InTypes
<1>6. OutTypes
  BY EmptySeq, ConstantTypes DEF OutTypes
<1>7. TaskInv
  BY TaskNumbers DEF TaskInv, Welcoming, HandlerPlaces, TxPlaces
<1>8. FramesCounted
  BY TaskNumbers, EmptySeq, ConstantTypes DEF FramesCounted, Unsent
<1> QED
  BY <1>5, <1>6, <1>7, <1>8 DEF TypeInv

\* Task t has one more frame to send.
Adds(t, type) ==
  /\ Len(frames') = Len(frames) + 1 /\ WellBuilt(frames'[Len(frames) + 1], type)
  /\ \A f \in 1 .. Len(frames) : frames'[f] = frames[f]
  /\ frame' = [frame EXCEPT ![t] = Len(frames) + 1]
  /\ toWrite' = [toWrite EXCEPT ![t] = Length[type]]
  /\ wire' = wire /\ open' = open

\* A message is begun.
LEMMA BeginTypes ==
  ASSUME OutTypes, NEW t \in Tasks, NEW r \in TxTasks, NEW m, NEW type \in Answers,
         WellBuilt(m, type), Begin(t, r, m)
  PROVE  OutTypes' /\ Adds(t, type) /\ frames'[Len(frames) + 1] = m
<1>1. m \in Seq(Bytes) /\ Number(2, m, 1) = type
  BY DEF WellBuilt
<1>2. /\ frames' = Append(frames, m) /\ idCounter' = [idCounter EXCEPT ![r] = @ + 1]
      /\ frame' = [frame EXCEPT ![t] = Len(frames) + 1]
      /\ toWrite' = [toWrite EXCEPT ![t] = Length[type]]
      /\ count' = [count EXCEPT ![t] = 0] /\ buffered' = buffered /\ wire' = wire
  BY <1>1 DEF Begin
<1>3. /\ frames' \in Seq(Seq(Bytes)) /\ Len(frames') = Len(frames) + 1
      /\ frames'[Len(frames) + 1] = m /\ \A f \in 1 .. Len(frames) : frames'[f] = frames[f]
      /\ Len(frames) \in Nat
  BY <1>1, <1>2 DEF OutTypes
<1>4. \A f \in 1 .. Len(frames') : Number(2, frames'[f], 1) \in Answers
  <2> TAKE f \in 1 .. Len(frames')
  <2>1. CASE f = Len(frames) + 1
    BY <1>1, <1>3, <2>1
  <2>2. CASE f # Len(frames) + 1
    <3>1. f \in 1 .. Len(frames)
      BY <1>3, <2>2
    <3> QED
      BY <1>3, <3>1 DEF OutTypes, Kind
  <2> QED
    BY <2>1, <2>2
<1>5. wire' \in Seq(1 .. Len(frames'))
  <2>1. 1 .. Len(frames) \subseteq 1 .. Len(frames')
    BY <1>3
  <2>2. wire \in Seq(1 .. Len(frames))
    BY DEF OutTypes
  <2> QED
    BY <1>2, <2>1, <2>2
<1>6. frame' \in [Tasks -> 0 .. Len(frames')]
  BY <1>2, <1>3 DEF OutTypes
<1>7. toWrite' \in [Tasks -> Nat] /\ count' \in [Tasks -> 0 .. MaxRefused]
      /\ idCounter' \in [TxTasks -> Nat] /\ buffered' \in 0 .. Room
  BY <1>2, ConstantTypes DEF OutTypes
<1>8. OutTypes'
  BY <1>3, <1>4, <1>5, <1>6, <1>7 DEF OutTypes, Kind
<1>9. Adds(t, type)
  BY <1>2, <1>3 DEF Adds, Begin
<1> QED
  BY <1>3, <1>8, <1>9

\* Some units are written.
LEMMA WriteTypes ==
  ASSUME OutTypes, TaskInv, NEW t \in Tasks, Write(t)
  PROVE  \E n \in Nat \ {0} :
           /\ n <= toWrite[t] /\ toWrite' = [toWrite EXCEPT ![t] = toWrite[t] - n]
           /\ wire' = wire \o [i \in 1 .. n |-> frame[t]]
           /\ frames' = frames /\ frame' = frame /\ OutTypes' /\ Sending(t)
<1>1. toWrite[t] \in Nat /\ toWrite[t] > 0 /\ buffered \in 0 .. Room /\ buffered < Room
      /\ Room \in Nat
  BY ConstantTypes DEF OutTypes, Write
<1>2. PICK n \in Nat \ {0} : n = (IF toWrite[t] < Room - buffered THEN toWrite[t] ELSE Room - buffered)
  BY <1>1
<1>3. n <= toWrite[t] /\ buffered + n <= Room
  BY <1>1, <1>2
<1>4. /\ buffered' = buffered + n /\ wire' = wire \o [i \in 1 .. n |-> frame[t]]
      /\ toWrite' = [toWrite EXCEPT ![t] = @ - n]
      /\ frames' = frames /\ frame' = frame /\ count' = count /\ idCounter' = idCounter
  BY <1>2 DEF Write
<1>5. Sending(t)
  BY <1>1 DEF TaskInv
<1>6. wire' \in Seq(1 .. Len(frames))
  <2>1. frame[t] \in 1 .. Len(frames)
    BY <1>1 DEF OutTypes, TaskInv
  <2>2. [i \in 1 .. n |-> frame[t]] \in Seq(1 .. Len(frames))
    BY <2>1
  <2> QED
    BY <1>4, <2>2 DEF OutTypes
<1>7. toWrite' \in [Tasks -> Nat] /\ toWrite' = [toWrite EXCEPT ![t] = toWrite[t] - n]
  BY <1>1, <1>3, <1>4 DEF OutTypes
<1>8. OutTypes'
  BY <1>1, <1>3, <1>4, <1>6, <1>7 DEF OutTypes, Kind
<1> QED
  BY <1>3, <1>4, <1>5, <1>7, <1>8

\* Steps that do not receive ...
LEMMA InSame == InTypes /\ UNCHANGED receiving => InTypes'
BY DEF InTypes, receiving, End

\* ... and steps that do not send.
LEMMA OutSame == OutTypes /\ UNCHANGED sending => OutTypes'
BY DEF OutTypes, sending, Kind

\* recv gives part of what is asked for.
LEMMA ReceiveTypes == TypeInv /\ Receive => InTypes'
<1> SUFFICES ASSUME TypeInv, Receive PROVE InTypes'
  OBVIOUS
<1>1. PICK n \in 1 .. need : pos + n <= End(Len(msgs)) /\ pos' = pos + n /\ need' = need - n
  BY DEF Receive
<1>2. msgs \in Streams /\ MaxMessages \in Nat /\ Len(msgs) = MaxMessages
  <2>1. msgs \in Streams /\ MaxMessages \in Nat
    BY ConstantTypes DEF TypeInv, InTypes
  <2> QED
    BY <2>1, FunctionIsSeq DEF Streams
<1>3. End(MaxMessages) \in Nat
  BY <1>2, EndsGrow DEF End
<1>4. pos \in Nat /\ need \in Nat /\ msgs' = msgs
  BY <1>3 DEF TypeInv, InTypes, Receive
<1>5. pos' \in 0 .. End(MaxMessages) /\ need' \in Nat
  BY <1>1, <1>2, <1>3, <1>4
<1>6. End(MaxMessages)' = End(MaxMessages)
  BY <1>4 DEF End
<1> QED
  BY <1>4, <1>5, <1>6 DEF TypeInv, InTypes, Receive

\* What may be in baseMessage when a base message has been received.
LEMMA BaseTypes == ASSUME InTypes PROVE \A b \in BaseMessages : b \in BaseMessageSet
<1> TAKE b \in BaseMessages
<1>1. CASE Readable # {}
  <2>1. PICK k \in Readable : b = DeserializeBaseMsg(BaseBytes(k), ServerTime)
    BY <1>1 DEF BaseMessages
  <2>2. k \in 1 .. MaxMessages /\ msgs \in Streams
    BY <2>1 DEF Readable, Arrived, InTypes, Streams
  <2> QED
    BY <2>1, <2>2, BaseIsRead
<1>2. CASE Readable = {} /\ b = base
  BY <1>2 DEF InTypes
<1>3. CASE Readable = {} /\ b # base
  <2>1. PICK u \in Undefined : b = [base EXCEPT !.type = u.type, !.size = u.size]
    BY <1>3 DEF BaseMessages
  <2>2. u.type \in Nat /\ u.size \in Nat /\ base \in BaseMessageSet
    BY ConstantTypes DEF InTypes
  <2> QED
    BY <2>1, <2>2 DEF BaseMessageSet
<1> QED
  BY <1>1, <1>2, <1>3

\* A base message, or what is taken for one, is put in baseMessage.
LEMMA BaseReceivedTypes == TypeInv /\ BaseReceived => InTypes'
<1> SUFFICES ASSUME TypeInv, BaseReceived PROVE InTypes'
  OBVIOUS
<1>1. PICK b \in BaseMessages, allocated \in BOOLEAN :
        /\ base' = b
        /\ need' = IF allocated THEN b.size ELSE BaseUnits
        /\ inStep' = (inStep /\ Arrived = Readable /\ (allocated \/ b.size = 0))
  BY DEF BaseReceived
<1>2. b \in BaseMessageSet
  BY BaseTypes DEF TypeInv
<1>3. need' \in Nat /\ base' \in BaseMessageSet /\ inStep' \in BOOLEAN
  BY <1>1, <1>2, ConstantTypes DEF BaseMessageSet
<1>4. msgs' = msgs /\ pos' = pos /\ client' = client /\ msgQ' = msgQ
  BY DEF BaseReceived
<1> QED
  BY <1>3, <1>4 DEF TypeInv, InTypes, End

\* The queue of a TIME.
LEMMA QueueTypes ==
  /\ TypeInv /\ QueueTime => InTypes'
  /\ \A t \in TxTasks : TypeInv /\ msgQ[t] # << >> /\ msgQ' = [msgQ EXCEPT ![t] = Tail(@)]
       /\ UNCHANGED << msgs, pos, need, base, client, inStep >> => InTypes'
<1>1. ASSUME TypeInv, QueueTime PROVE InTypes'
  <2>1. client \in TxTasks
    BY <1>1, ConstantTypes DEF TypeInv, InTypes, TaskInv, QueueTime, TxTasks
  <2>2. msgQ[client] \in Seq(BaseMessageSet) /\ Len(msgQ[client]) < QLen /\ base \in BaseMessageSet
    BY <1>1, <2>1 DEF TypeInv, InTypes, QueueTime
  <2>3. /\ Append(msgQ[client], base) \in Seq(BaseMessageSet)
        /\ Len(Append(msgQ[client], base)) <= QLen
    BY <2>2, ConstantTypes
  <2>4. msgQ' = [msgQ EXCEPT ![client] = Append(msgQ[client], base)]
    BY <1>1 DEF QueueTime
  <2>5. msgQ' \in [TxTasks -> Seq(BaseMessageSet)] /\ \A r \in TxTasks : Len(msgQ'[r]) <= QLen
    BY <1>1, <2>1, <2>3, <2>4 DEF TypeInv, InTypes
  <2> QED
    BY <1>1, <2>5 DEF TypeInv, InTypes, QueueTime, End
<1>2. ASSUME NEW t \in TxTasks, TypeInv, msgQ[t] # << >>, msgQ' = [msgQ EXCEPT ![t] = Tail(@)],
             UNCHANGED << msgs, pos, need, base, client, inStep >>
      PROVE  InTypes'
  <2>1. msgQ[t] \in Seq(BaseMessageSet) /\ Len(msgQ[t]) <= QLen
    BY <1>2 DEF TypeInv, InTypes
  <2>2. Tail(msgQ[t]) \in Seq(BaseMessageSet) /\ Len(Tail(msgQ[t])) <= QLen
    BY <1>2, <2>1, ConstantTypes
  <2>3. msgQ' \in [TxTasks -> Seq(BaseMessageSet)] /\ \A r \in TxTasks : Len(msgQ'[r]) <= QLen
    BY <1>2, <2>2 DEF TypeInv, InTypes
  <2> QED
    BY <1>2, <2>3 DEF TypeInv, InTypes, End
<1> QED
  BY <1>1, <1>2

\* The handler begins a message of the welcome ...
LEMMA WelcomeAdds ==
  ASSUME TypeInv, SendSettings \/ SendHeader
  PROVE  /\ client \in TxTasks /\ pc[client] = "none" /\ OutTypes' /\ UNCHANGED receiving
         /\ \E type \in {SERVER_SETTINGS, CODEC_HEADER} : Adds(Handler, type)
<1>1. Welcoming /\ UNCHANGED receiving
  BY DEF Welcoming, SendSettings, SendHeader
<1>2. client \in TxTasks /\ pc[client] = "none"
  BY <1>1, ConstantTypes DEF TypeInv, InTypes, TaskInv, TxTasks
<1>3. base \in BaseMessageSet /\ idCounter[client] \in Nat
  BY <1>2 DEF TypeInv, InTypes, OutTypes
<1>4. PICK type \in {SERVER_SETTINGS, CODEC_HEADER} :
        \E m : WellBuilt(m, type) /\ Begin(Handler, client, m)
  <2> DEFINE settings == SettingsMessage(idCounter[client], base.id, ServerTime, Json)
             header == CodecHeaderMessage(idCounter[client], base.id, ServerTime, Codec, Payload)
  <2>1. WellBuilt(settings, SERVER_SETTINGS) /\ WellBuilt(header, CODEC_HEADER)
    BY <1>3, AnswersBuilt, Zenon
  <2>2. Begin(Handler, client, settings) \/ Begin(Handler, client, header)
    BY DEF SendSettings, SendHeader
  <2> QED
    BY <2>1, <2>2, Zenon
<1>5. type \in Answers
  BY DEF Answers
<1>6. OutTypes' /\ Adds(Handler, type)
  BY <1>2, <1>4, <1>5, TaskNumbers, BeginTypes DEF TypeInv
<1> QED
  BY <1>1, <1>2, <1>6

\* ... and a tx task a chunk or an answer.
LEMMA TxAdds ==
  ASSUME TypeInv, NEW t \in TxTasks, SendChunk(t) \/ AnswerTime(t)
  PROVE  /\ OutTypes' /\ Len(frames) < MaxFrames
         /\ \E type \in {WIRE_CHUNK, TIME} : Adds(t, type)
<1>1. idCounter[t] \in Nat /\ t \in Tasks /\ t # Handler
  BY TaskNumbers DEF TypeInv, OutTypes
<1>2. PICK type \in {WIRE_CHUNK, TIME} : \E m : WellBuilt(m, type) /\ Begin(t, t, m)
  <2>1. CASE SendChunk(t)
    <3>1. PICK b : b \in BaseMessageSet
      BY DEF TypeInv, InTypes
    <3> DEFINE chunk == WireChunkMessage(idCounter[t], ServerTime, ServerTime, Payload)
    <3>2. WellBuilt(chunk, WIRE_CHUNK)
      BY <1>1, <3>1, AnswersBuilt, Zenon
    <3>3. Begin(t, t, chunk)
      BY <2>1 DEF SendChunk
    <3> QED
      BY <3>2, <3>3, Zenon
  <2>2. CASE AnswerTime(t)
    <3>1. msgQ[t] # << >> /\ msgQ[t] \in Seq(BaseMessageSet)
      BY <2>2 DEF AnswerTime, TypeInv, InTypes
    <3>2. Head(msgQ[t]) \in BaseMessageSet
      BY <3>1
    <3> DEFINE answer == TimeMessage(idCounter[t], Head(msgQ[t]), ServerTime)
    <3>3. WellBuilt(answer, TIME)
      BY <1>1, <3>2, AnswersBuilt, Zenon
    <3>4. Begin(t, t, answer)
      BY <2>2 DEF AnswerTime
    <3> QED
      BY <3>3, <3>4, Zenon
  <2> QED
    BY <2>1, <2>2
<1>3. type \in Answers
  BY DEF Answers
<1>4. OutTypes' /\ Adds(t, type)
  BY <1>1, <1>2, <1>3, BeginTypes DEF TypeInv
<1>5. Len(frames) < MaxFrames
  BY <1>1, <1>2 DEF Begin
<1> QED
  BY <1>4, <1>5

\* Every step keeps the types.
LEMMA TypeNext == TypeInv /\ [SocketNext]_socketVars => TypeInv'
<1> SUFFICES ASSUME TypeInv, [SocketNext]_socketVars PROVE TypeInv'
  OBVIOUS
<1> USE TaskNumbers
<1>0. /\ client \in 0 .. MaxHello /\ Len(frames) \in Nat /\ MaxFrames \in Nat
      /\ \A t \in TxTasks : t \in 1 .. MaxHello
      /\ toWrite \in [Tasks -> Nat] /\ frame \in [Tasks -> 0 .. Len(frames)]
  BY ConstantTypes, LenProperties DEF TypeInv, InTypes, OutTypes, TxTasks
<1>1. CASE UNCHANGED socketVars
  <2>1. InTypes' /\ OutTypes'
    BY <1>1, InSame, OutSame DEF socketVars, TypeInv
  <2>2. TaskInv' /\ FramesCounted'
    BY <1>1 DEF socketVars, receiving, sending, TypeInv, TaskInv, FramesCounted, Unsent,
                Welcoming, Sending
  <2> QED
    BY <2>1, <2>2 DEF TypeInv
<1>2. CASE PeerTakes
  <2>1. InTypes'
    BY <1>2, InSame DEF PeerTakes, TypeInv
  <2>2. OutTypes'
    <3>1. PICK n \in 1 .. buffered : buffered' = buffered - n
      BY <1>2 DEF PeerTakes
    <3>2. buffered' \in 0 .. Room
      BY <3>1, ConstantTypes DEF TypeInv, OutTypes
    <3> QED
      BY <1>2, <3>2 DEF PeerTakes, TypeInv, OutTypes, Kind
  <2>3. TaskInv' /\ FramesCounted'
    BY <1>2 DEF PeerTakes, receiving, TypeInv, TaskInv, FramesCounted, Unsent, Welcoming, Sending
  <2> QED
    BY <2>1, <2>2, <2>3 DEF TypeInv
<1>3. CASE PeerCloses \/ Close \/ ReceiveFails
  <2>1. InTypes' /\ OutTypes'
    BY <1>3, InSame, OutSame DEF PeerCloses, Close, ReceiveFails, TypeInv
  <2>2. pc' = pc \/ (pc' = [pc EXCEPT ![Handler] = "closing"] /\ ~Welcoming /\ Receiving)
          \/ (pc' = [pc EXCEPT ![Handler] = "closed"] /\ pc[Handler] = "closing")
    BY <1>3 DEF PeerCloses, Close, ReceiveFails, Welcoming, Receiving
  <2>3. UNCHANGED << frames, client, toWrite, frame >> /\ open' \in BOOLEAN
    BY <1>3 DEF PeerCloses, Close, ReceiveFails, receiving, sending, TypeInv, TaskInv
  <2>4. TaskInv' /\ FramesCounted'
    BY <1>0, <2>2, <2>3 DEF TypeInv, TaskInv, FramesCounted, Unsent, Welcoming, Sending, Receiving,
                      HandlerPlaces
  <2> QED
    BY <2>1, <2>4 DEF TypeInv
<1>4. CASE Receive
  <2>1. InTypes' /\ OutTypes'
    BY <1>4, ReceiveTypes, OutSame DEF Receive, TypeInv
  <2>2. TaskInv' /\ FramesCounted'
    BY <1>4 DEF Receive, sending, TypeInv, TaskInv, FramesCounted, Unsent, Welcoming, Sending
  <2> QED
    BY <2>1, <2>2 DEF TypeInv
<1>5. CASE BaseReceived
  <2>1. InTypes' /\ OutTypes'
    BY <1>5, BaseReceivedTypes, OutSame DEF BaseReceived, TypeInv
  <2>2. /\ UNCHANGED << frames, client, toWrite, frame, open >> /\ pc[Handler] = "base"
        /\ \/ pc' = [pc EXCEPT ![Handler] = "typed"]
           \/ pc' = [pc EXCEPT ![Handler] = "base"]
    BY <1>5 DEF BaseReceived, sending
  <2>3. TaskInv' /\ FramesCounted'
    BY <1>0, <2>2 DEF TypeInv, TaskInv, FramesCounted, Unsent, Welcoming, Sending, HandlerPlaces
  <2> QED
    BY <2>1, <2>3 DEF TypeInv
<1>6. CASE TypedReceived
  <2>1. client' \in 0 .. MaxHello
    BY <1>0, <1>6 DEF TypedReceived
  <2>2. InTypes'
    BY <1>6, <2>1, ConstantTypes DEF TypedReceived, TypeInv, InTypes, End
  <2>3. OutTypes'
    BY <1>6, OutSame DEF TypedReceived, TypeInv
  <2>4. /\ UNCHANGED << frames, toWrite, frame, open >> /\ pc[Handler] = "typed"
        /\ \/ client' = client + 1 /\ pc' = [pc EXCEPT ![Handler] = "settings"]
           \/ client' = client /\ client # 0 /\ pc' = [pc EXCEPT ![Handler] = "queue"]
           \/ client' = client /\ pc' = [pc EXCEPT ![Handler] = "base"]
    <3>1. CASE base.type = HELLO
      BY <1>6, <3>1, <1>0 DEF TypedReceived, sending, HELLO, TIME
    <3>2. CASE base.type # HELLO
      <4>1. client' = client
        BY <1>0, <1>6, <3>2 DEF TypedReceived
      <4> QED
        BY <1>6, <3>2, <4>1 DEF TypedReceived, sending
    <3> QED
      BY <3>1, <3>2
  <2>5. TaskInv'
    <3>1. CASE client' = client + 1 /\ pc' = [pc EXCEPT ![Handler] = "settings"]
      <4>1. client' \in TxTasks /\ pc[client'] = "none" /\ client' # Handler
        BY <1>0, <2>1, <3>1 DEF TypeInv, TaskInv, TxTasks
      <4> QED
        BY <1>0, <2>4, <3>1, <4>1 DEF TypeInv, TaskInv, Welcoming, Sending, HandlerPlaces
    <3>2. CASE client' = client
      BY <1>0, <2>4, <3>2 DEF TypeInv, TaskInv, Welcoming, Sending, HandlerPlaces
    <3> QED
      BY <2>4, <3>1, <3>2
  <2>6. FramesCounted'
    <3>1. pc \in [Tasks -> HandlerPlaces \cup TxPlaces]
      BY DEF TypeInv, TaskInv
    <3>2. Len(frames) <= MaxFrames + 2 * client
      BY <1>0, <2>4 DEF TypeInv, FramesCounted, Unsent
    <3> QED
      BY <1>0, <2>4, <3>1, <3>2 DEF FramesCounted, Unsent
  <2> QED
    BY <2>2, <2>3, <2>5, <2>6 DEF TypeInv
<1>7. CASE QueueTime
  <2>1. InTypes' /\ OutTypes'
    BY <1>7, QueueTypes, OutSame DEF QueueTime, TypeInv
  <2>2. /\ UNCHANGED << frames, client, toWrite, frame, open >> /\ pc[Handler] = "queue"
        /\ pc' = [pc EXCEPT ![Handler] = "base"]
    BY <1>7 DEF QueueTime, sending
  <2>3. TaskInv' /\ FramesCounted'
    BY <1>0, <2>2 DEF TypeInv, TaskInv, FramesCounted, Unsent, Welcoming, Sending, HandlerPlaces
  <2> QED
    BY <2>1, <2>3 DEF TypeInv
<1>8. ASSUME NEW t \in Tasks, Write(t) PROVE TypeInv'
  <2>1. PICK n \in Nat \ {0} :
           /\ n <= toWrite[t] /\ toWrite' = [toWrite EXCEPT ![t] = toWrite[t] - n]
           /\ frames' = frames /\ frame' = frame /\ OutTypes' /\ Sending(t)
    BY <1>8, WriteTypes DEF TypeInv
  <2>2. InTypes'
    BY <1>8, InSame DEF Write, TypeInv
  <2>3. \A s \in Tasks : toWrite'[s] > 0 => toWrite[s] > 0
    BY <1>0, <2>1
  <2>4. TaskInv' /\ FramesCounted'
    BY <1>8, <2>1, <2>3 DEF Write, receiving, TypeInv, TaskInv, FramesCounted, Unsent, Welcoming, Sending
  <2> QED
    BY <2>1, <2>2, <2>4 DEF TypeInv
<1>9. ASSUME NEW t \in Tasks, Refused(t) PROVE TypeInv'
  <2>1. InTypes'
    BY <1>9, InSame DEF Refused, TypeInv
  <2>2. count' \in [Tasks -> 0 .. MaxRefused]
    BY <1>9, ConstantTypes DEF Refused, KeepsOn, TypeInv, OutTypes
  <2>3. OutTypes'
    BY <1>9, <2>2 DEF Refused, TypeInv, OutTypes, Kind
  <2>4. TaskInv' /\ FramesCounted'
    BY <1>9 DEF Refused, receiving, TypeInv, TaskInv, FramesCounted, Unsent, Welcoming, Sending
  <2> QED
    BY <2>1, <2>3, <2>4 DEF TypeInv
<1>10. CASE SendSettings \/ SendHeader
  <2>1. /\ client \in TxTasks /\ pc[client] = "none" /\ OutTypes' /\ UNCHANGED receiving
        /\ \E type \in {SERVER_SETTINGS, CODEC_HEADER} : Adds(Handler, type)
    BY <1>10, WelcomeAdds
  <2>2. PICK type \in {SERVER_SETTINGS, CODEC_HEADER} : Adds(Handler, type)
    BY <2>1
  <2>3. InTypes'
    BY <2>1, InSame DEF TypeInv
  <2>4. \/ pc[Handler] = "settings" /\ pc' = [pc EXCEPT ![Handler] = "sendingSettings"]
        \/ pc[Handler] = "sendingSettings" /\ pc' = [pc EXCEPT ![Handler] = "sendingHeader"]
    BY <1>10 DEF SendSettings, SendHeader
  <2>5. client' = client /\ open' = open /\ Len(frames') = Len(frames) + 1
    BY <2>1, <2>2 DEF receiving, Adds
  <2>6. \A s \in Tasks : s # Handler => toWrite'[s] = toWrite[s] /\ frame'[s] = frame[s]
    BY <1>0, <2>2 DEF Adds
  <2>7. frame'[Handler] # 0
    BY <1>0, <2>2 DEF Adds
  <2>8. TaskInv'
    BY <2>1, <2>4, <2>5, <2>6, <2>7 DEF TypeInv, TaskInv, Welcoming, Sending, HandlerPlaces
  <2>9. FramesCounted'
    BY <1>0, <2>4, <2>5 DEF TypeInv, TaskInv, FramesCounted, Unsent
  <2> QED
    BY <2>1, <2>3, <2>8, <2>9 DEF TypeInv
<1>11. CASE NoHeader \/ StartTx
  <2>1. /\ client \in TxTasks /\ pc[client] = "none" /\ Welcoming
        /\ UNCHANGED << frames, client, frame, open >>
        /\ pc' = [pc EXCEPT ![Handler] = "base", ![client] = "wait"]
        /\ toWrite' = [toWrite EXCEPT ![Handler] = 0]
    BY <1>0, <1>11 DEF NoHeader, StartTx, Returns, receiving, Welcoming, TypeInv, TaskInv, TxTasks
  <2>2. InTypes'
    BY <1>11, InSame DEF NoHeader, StartTx, TypeInv
  <2>3. idCounter' \in [TxTasks -> Nat] /\ UNCHANGED << buffered, wire, count >>
    <3>1. idCounter \in [TxTasks -> Nat]
      BY DEF TypeInv, OutTypes
    <3>2. /\ UNCHANGED << buffered, wire, count >>
          /\ idCounter' = idCounter \/ idCounter' = [idCounter EXCEPT ![client] = @ + 1]
      BY <1>11 DEF NoHeader, StartTx, Returns
    <3> QED
      BY <2>1, <3>1, <3>2
  <2>4. OutTypes'
    BY <2>1, <2>3 DEF TypeInv, OutTypes, Kind
  <2>5. TaskInv'
    BY <1>0, <2>1 DEF TypeInv, TaskInv, Welcoming, Sending, HandlerPlaces, TxPlaces
  <2>6. FramesCounted'
    BY <1>0, <2>1 DEF TypeInv, TaskInv, FramesCounted, Unsent
  <2> QED
    BY <2>2, <2>4, <2>5, <2>6 DEF TypeInv
<1>12. ASSUME NEW t \in TxTasks, SendChunk(t) \/ AnswerTime(t) PROVE TypeInv'
  <2>1. OutTypes' /\ Len(frames) < MaxFrames
    BY <1>12, TxAdds
  <2>2. PICK type \in {WIRE_CHUNK, TIME} : Adds(t, type)
    BY <1>12, TxAdds
  <2>3. InTypes'
    BY <1>12, InSame, QueueTypes DEF SendChunk, AnswerTime, TypeInv
  <2>4. /\ pc[t] = "wait" /\ pc' = [pc EXCEPT ![t] = "sending"] /\ client' = client
        /\ open' = open /\ Len(frames') = Len(frames) + 1
    BY <1>12, <2>2 DEF SendChunk, AnswerTime, receiving, Adds
  <2>5. \A s \in Tasks : s # t => toWrite'[s] = toWrite[s] /\ frame'[s] = frame[s]
    BY <1>0, <2>2 DEF Adds
  <2>6. frame'[t] # 0
    BY <1>0, <2>2 DEF Adds
  <2>7. TaskInv'
    BY <1>0, <2>4, <2>5, <2>6 DEF TypeInv, TaskInv, Welcoming, Sending, HandlerPlaces, TxPlaces
  <2>8. FramesCounted'
    BY <1>0, <2>1, <2>4 DEF TypeInv, TaskInv, FramesCounted, Unsent, Welcoming
  <2> QED
    BY <2>1, <2>3, <2>7, <2>8 DEF TypeInv
<1>13. ASSUME NEW t \in TxTasks, AnswerNoMemory(t) \/ AnswerSent(t) \/ AnswerCut(t) PROVE TypeInv'
  <2>1. InTypes'
    BY <1>13, InSame, QueueTypes DEF AnswerNoMemory, AnswerSent, AnswerCut, TypeInv
  <2>2. /\ UNCHANGED << frames, client, frame, open, buffered, wire, count >>
        /\ \/ pc[t] = "wait" /\ pc' = [pc EXCEPT ![t] = "deleted"] /\ toWrite' = toWrite
           \/ /\ toWrite' = [toWrite EXCEPT ![t] = 0]
              /\ pc[t] = "sending"
              /\ pc' = [pc EXCEPT ![t] = "wait"] \/ pc' = [pc EXCEPT ![t] = "deleted"]
    BY <1>13 DEF AnswerNoMemory, AnswerSent, AnswerCut, Returns, receiving
  <2>3. idCounter' \in [TxTasks -> Nat]
    <3>1. idCounter \in [TxTasks -> Nat]
      BY DEF TypeInv, OutTypes
    <3>2. idCounter' = idCounter \/ idCounter' = [idCounter EXCEPT ![t] = @ + 1]
      BY <1>13 DEF AnswerNoMemory, AnswerSent, AnswerCut, Returns
    <3> QED
      BY <3>1, <3>2
  <2>4. OutTypes'
    <3>1. toWrite' \in [Tasks -> Nat]
      BY <1>0, <2>2
    <3> QED
      BY <2>2, <2>3, <3>1 DEF TypeInv, OutTypes, Kind
  <2>5. \A s \in Tasks : toWrite'[s] > 0 => s # t /\ toWrite[s] > 0
    BY <1>0, <2>2 DEF TypeInv, TaskInv, Sending
  <2>6. TaskInv'
    <3>1. /\ pc[t] \in {"wait", "sending"} /\ client' = client /\ frame' = frame /\ open' = open
          /\ \/ pc' = [pc EXCEPT ![t] = "wait"]
             \/ pc' = [pc EXCEPT ![t] = "deleted"]
      BY <2>2
    <3>2. TaskInv /\ t \in Tasks /\ t # Handler
      BY DEF TypeInv
    <3>3. pc' \in [Tasks -> HandlerPlaces \cup TxPlaces] /\ pc'[Handler] = pc[Handler]
      BY <3>1, <3>2 DEF TaskInv, TxPlaces
    <3>4. \A s \in TxTasks : pc'[s] \in TxPlaces /\ (pc[s] = "none" => pc'[s] = "none")
      BY <3>1, <3>2 DEF TaskInv, TxPlaces
    <3>5. \A s \in Tasks : s # t => pc'[s] = pc[s]
      BY <3>1, <3>2 DEF TaskInv
    <3>6. \A s \in Tasks : toWrite'[s] > 0 => Sending(s)' /\ frame'[s] # 0
      BY <2>5, <3>1, <3>2, <3>5 DEF TaskInv, Sending
    <3>7. Welcoming' => client' # 0 /\ pc'[client'] = "none"
      BY <1>0, <3>1, <3>2, <3>3, <3>4 DEF TaskInv, Welcoming, TxTasks
    <3> QED
      BY <3>1, <3>2, <3>3, <3>4, <3>6, <3>7 DEF TaskInv
  <2>7. FramesCounted'
    BY <1>0, <2>2 DEF TypeInv, TaskInv, FramesCounted, Unsent
  <2> QED
    BY <2>1, <2>4, <2>6, <2>7 DEF TypeInv
<1> QED
  BY <1>1, <1>2, <1>3, <1>4, <1>5, <1>6, <1>7, <1>8, <1>9, <1>10, <1>11, <1>12, <1>13
     DEF SocketNext, Socket

\* Type correctness; in particular a welcome is all that the handler sends.
THEOREM SocketTypeCorrect == SocketSpec => []SocketTypeOk
<1>1. SocketSpec => []TypeInv
  BY TypeInit, TypeNext, PTL DEF SocketSpec
<1>2. TypeInv => SocketTypeOk
  <2> SUFFICES ASSUME TypeInv PROVE SocketTypeOk
    OBVIOUS
  <2>1. MaxHello \in Nat /\ MaxFrames \in Nat /\ client \in 0 .. MaxHello /\ Len(frames) \in Nat
    BY ConstantTypes, LenProperties DEF TypeInv, InTypes, OutTypes
  <2>2. Len(msgs) = MaxMessages
    BY ConstantTypes, FunctionIsSeq DEF TypeInv, InTypes, Streams
  <2>3. Len(frames) <= MaxFrames + 2 * MaxHello
    BY <2>1 DEF TypeInv, FramesCounted, Unsent
  <2>4. DOMAIN frames = 1 .. Len(frames)
    BY DEF TypeInv, OutTypes
  <2> QED
    BY <2>2, <2>3, <2>4 DEF SocketTypeOk, TypeInv, InTypes, OutTypes, TaskInv, HandlerPlaces, TxPlaces
<1> QED
  BY <1>1, <1>2, PTL

-----------------------------------------------------------------------------
(* The order of the frames.                                                *)

\* While one HELLO was handled, at most one task sends, and it sends the newest frame.
OrderInv ==
  client <= 1 =>
    /\ \A t \in Tasks : Sending(t) => frame[t] = Len(frames)
    /\ \A i \in 1 .. Len(wire) : \A j \in i .. Len(wire) : wire[i] <= wire[j]

\* Steps by which nobody begins or writes.
LEMMA OrderSame ==
  ASSUME TypeInv, OrderInv, client' \in Nat, client' >= client, UNCHANGED << frames, wire, frame >>,
         \A t \in Tasks : Sending(t)' => Sending(t)
  PROVE  OrderInv'
<1>1. client' <= 1 => client <= 1
  BY TaskNumbers DEF TypeInv, InTypes
<1> QED
  BY <1>1 DEF OrderInv

\* While one HELLO was handled, its tx task is the only one, and starts after the welcome.
LEMMA OneSender ==
  ASSUME TypeInv, client <= 1
  PROVE  /\ \A t \in TxTasks : pc[t] # "none" => t = 1 /\ client = 1
         /\ \A t \in TxTasks : pc[t] # "none" => ~Welcoming
         /\ Welcoming => client = 1 /\ pc[1] = "none"
<1>1. client \in 0 .. MaxHello /\ \A t \in TxTasks : t \in Nat \ {0}
  BY TaskNumbers DEF TypeInv, InTypes
<1>2. \A t \in TxTasks : pc[t] # "none" => t = 1 /\ client = 1
  BY <1>1 DEF TypeInv, TaskInv
<1>3. Welcoming => client = 1 /\ pc[1] = "none"
  BY <1>1 DEF TypeInv, TaskInv
<1> QED
  BY <1>2, <1>3

\* Nobody sends at the start.
LEMMA OrderInit == SocketInit => OrderInv
BY TaskNumbers, EmptySeq DEF SocketInit, OrderInv, Sending

\* Who writes sends the newest frame, and who begins one is the only one that sends.
LEMMA OrderNext == TypeInv /\ OrderInv /\ [SocketNext]_socketVars => OrderInv'
<1> SUFFICES ASSUME TypeInv, OrderInv, [SocketNext]_socketVars PROVE OrderInv'
  OBVIOUS
<1> USE TaskNumbers
<1>0. /\ client \in 0 .. MaxHello /\ Len(frames) \in Nat
      /\ frame \in [Tasks -> 0 .. Len(frames)] /\ pc \in [Tasks -> HandlerPlaces \cup TxPlaces]
      /\ wire \in Seq(1 .. Len(frames))
  BY LenProperties DEF TypeInv, InTypes, OutTypes, TaskInv
<1>1. CASE \/ UNCHANGED socketVars \/ PeerTakes \/ PeerCloses \/ Close \/ ReceiveFails \/ Receive
           \/ BaseReceived \/ QueueTime \/ TypedReceived \/ NoHeader \/ StartTx
  <2>1. client' \in Nat /\ client' >= client
    BY <1>0, <1>1 DEF socketVars, receiving, PeerTakes, PeerCloses, Close, ReceiveFails, Receive,
          BaseReceived, QueueTime, TypedReceived, NoHeader, StartTx
  <2>2. UNCHANGED << frames, wire, frame >>
    BY <1>1 DEF socketVars, sending, PeerTakes, PeerCloses, Close, ReceiveFails, Receive,
          BaseReceived, QueueTime, TypedReceived, NoHeader, StartTx, Returns
  <2>3. \/ pc' = pc
        \/ \E p \in {"base", "typed", "queue", "settings", "closing", "closed"} :
             pc' = [pc EXCEPT ![Handler] = p]
        \/ pc' = [pc EXCEPT ![Handler] = "base", ![client] = "wait"]
    BY <1>1 DEF socketVars, PeerTakes, PeerCloses, Close, ReceiveFails, Receive,
          BaseReceived, QueueTime, TypedReceived, NoHeader, StartTx, Returns
  <2>4. \A t \in Tasks : Sending(t)' => Sending(t)
    BY <1>0, <2>3 DEF Sending
  <2> QED
    BY <2>1, <2>2, <2>4, OrderSame
<1>2. ASSUME NEW t \in Tasks, Write(t) PROVE OrderInv'
  <2> SUFFICES ASSUME client <= 1 PROVE OrderInv'
    BY <1>2 DEF OrderInv, Write, receiving
  <2>1. PICK n \in Nat \ {0} :
           /\ wire' = wire \o [i \in 1 .. n |-> frame[t]]
           /\ frames' = frames /\ frame' = frame /\ Sending(t)
    BY <1>2, WriteTypes DEF TypeInv
  <2>2. frame[t] = Len(frames)
    BY <2>1 DEF OrderInv
  <2>3. /\ Len(wire') = Len(wire) + n
        /\ \A i \in 1 .. Len(wire) : wire'[i] = wire[i]
        /\ \A i \in Len(wire) + 1 .. Len(wire) + n : wire'[i] = Len(frames)
    BY <1>0, <2>1, <2>2
  <2>4. \A i \in 1 .. Len(wire) : wire[i] \in 1 .. Len(frames)
    BY <1>0
  <2>5. ASSUME NEW i \in 1 .. Len(wire'), NEW j \in i .. Len(wire') PROVE wire'[i] <= wire'[j]
    <3>1. CASE j \in 1 .. Len(wire)
      <4>1. i \in 1 .. Len(wire) /\ j \in i .. Len(wire)
        BY <1>0, <2>3, <3>1
      <4>2. wire[i] <= wire[j]
        BY <4>1 DEF OrderInv
      <4> QED
        BY <2>3, <3>1, <4>1, <4>2
    <3>2. CASE j \notin 1 .. Len(wire)
      <4>1. j \in Len(wire) + 1 .. Len(wire) + n /\ Len(wire) \in Nat
        BY <1>0, <2>3, <3>2
      <4>2. wire'[j] = Len(frames)
        BY <2>3, <4>1
      <4>3. CASE i \in 1 .. Len(wire)
        <5>1. wire'[i] = wire[i] /\ wire[i] \in 1 .. Len(frames)
          BY <2>3, <2>4, <4>3
        <5> QED
          BY <1>0, <4>2, <5>1
      <4>4. CASE i \notin 1 .. Len(wire)
        BY <1>0, <2>3, <4>1, <4>2, <4>4
      <4> QED
        BY <4>3, <4>4
    <3> QED
      BY <3>1, <3>2
  <2>6. \A s \in Tasks : Sending(s)' => frame'[s] = Len(frames')
    BY <1>2, <2>1 DEF OrderInv, Sending, Write
  <2> QED
    BY <2>5, <2>6 DEF OrderInv
<1>3. ASSUME NEW t \in Tasks, Refused(t) PROVE OrderInv'
  <2>1. UNCHANGED << client, frames, wire, frame, pc >>
    BY <1>3 DEF Refused, receiving
  <2>2. \A s \in Tasks : Sending(s)' => Sending(s)
    BY <2>1 DEF Sending
  <2> QED
    BY <1>0, <2>1, <2>2, OrderSame
<1>4. CASE SendSettings \/ SendHeader
  <2>1. PICK type \in {SERVER_SETTINGS, CODEC_HEADER} : Adds(Handler, type)
    BY <1>4, WelcomeAdds
  <2>2. client' = client /\ Welcoming
        /\ \E p \in HandlerPlaces : pc' = [pc EXCEPT ![Handler] = p]
    BY <1>4 DEF SendSettings, SendHeader, receiving, Welcoming, HandlerPlaces
  <2> SUFFICES ASSUME client <= 1 PROVE OrderInv'
    BY <2>2 DEF OrderInv
  <2>3. client = 1 /\ pc[1] = "none" /\ \A s \in TxTasks : pc[s] = "none"
    BY <2>2, OneSender
  <2>4. \A s \in Tasks : Sending(s)' => s = Handler
    BY <1>0, <2>2, <2>3 DEF Sending
  <2>5. frame'[Handler] = Len(frames') /\ wire' = wire
    BY <1>0, <2>1 DEF Adds
  <2> QED
    BY <2>4, <2>5 DEF OrderInv
<1>5. ASSUME NEW t \in TxTasks, SendChunk(t) \/ AnswerTime(t) PROVE OrderInv'
  <2>1. PICK type \in {WIRE_CHUNK, TIME} : Adds(t, type)
    BY <1>5, TxAdds
  <2>2. client' = client /\ pc[t] = "wait" /\ pc' = [pc EXCEPT ![t] = "sending"]
    BY <1>5 DEF SendChunk, AnswerTime, receiving
  <2> SUFFICES ASSUME client <= 1 PROVE OrderInv'
    BY <2>2 DEF OrderInv
  <2>3. t = 1 /\ ~Welcoming /\ \A s \in TxTasks : pc[s] # "none" => s = 1
    BY <2>2, OneSender
  <2>4. \A s \in Tasks : Sending(s)' => s = t
    <3>1. \A s \in Tasks : s # t => pc'[s] = pc[s]
      BY <1>0, <2>2
    <3>2. pc[Handler] \in HandlerPlaces
      BY DEF TypeInv, TaskInv
    <3> QED
      BY <2>3, <3>1, <3>2 DEF Sending, Welcoming, HandlerPlaces
  <2>5. frame'[t] = Len(frames') /\ wire' = wire
    BY <1>0, <2>1 DEF Adds
  <2> QED
    BY <2>4, <2>5 DEF OrderInv
<1>6. ASSUME NEW t \in TxTasks, AnswerNoMemory(t) \/ AnswerSent(t) \/ AnswerCut(t) PROVE OrderInv'
  <2>1. UNCHANGED << client, frames, wire, frame >>
    BY <1>6 DEF AnswerNoMemory, AnswerSent, AnswerCut, Returns, receiving
  <2>2. \E p \in {"wait", "deleted"} : pc' = [pc EXCEPT ![t] = p]
    BY <1>6 DEF AnswerNoMemory, AnswerSent, AnswerCut, Returns
  <2>3. \A s \in Tasks : Sending(s)' => Sending(s)
    BY <1>0, <2>2 DEF Sending
  <2> QED
    BY <1>0, <2>1, <2>3, OrderSame
<1> QED
  BY <1>1, <1>2, <1>3, <1>4, <1>5, <1>6 DEF SocketNext, Socket

\* Two tasks send on one connection, but the messages of a connection on which one HELLO
\* was handled never mix.
THEOREM FramesStayInOrder == SocketSpec => []FramesInOrder
<1>1. SocketSpec => [](TypeInv /\ OrderInv)
  BY OrderInit, TypeInit, TypeNext, OrderNext, PTL DEF SocketSpec
<1>2. TypeInv /\ OrderInv => FramesInOrder
  <2> SUFFICES ASSUME TypeInv, OrderInv PROVE FramesInOrder
    OBVIOUS
  <2>1. DOMAIN wire = 1 .. Len(wire)
    BY DEF TypeInv, OutTypes
  <2> QED
    BY <2>1 DEF OrderInv, FramesInOrder
<1> QED
  BY <1>1, <1>2, PTL

-----------------------------------------------------------------------------
(* The handler's place in the stream.                                      *)

\* Of a handler in step, what it has and what it waits for add up to the end of a base
\* message or of a body, and what it handles is the message before that end.
StepInv ==
  inStep =>
    /\ pc[Handler] = "base" =>
         need <= BaseUnits /\ \E k \in 0 .. MaxMessages : pos + need = End(k) + BaseUnits
    /\ pc[Handler] = "typed" =>
         \E k \in 1 .. MaxMessages : pos + need = End(k) /\ BaseOf(base, k)
    /\ Welcoming \/ pc[Handler] = "queue" =>
         need = BaseUnits /\ \E k \in 1 .. MaxMessages : pos = End(k) /\ BaseOf(base, k)

\* Steps that receive nothing and leave the handler where it is, or in its welcome, or
\* let it end.
LEMMA StepSame ==
  ASSUME StepInv, UNCHANGED receiving,
         \/ pc'[Handler] = pc[Handler] \/ (Welcoming /\ Welcoming')
         \/ pc'[Handler] \in {"closing", "closed"}
  PROVE  StepInv'
<1>1. \A k : End(k)' = End(k) /\ (BaseOf(base, k)' <=> BaseOf(base, k))
  BY DEF receiving, End, BaseOf
<1>2. inStep' = inStep /\ pos' = pos /\ need' = need
  BY DEF receiving
<1>3. CASE pc'[Handler] = pc[Handler]
  BY <1>1, <1>2, <1>3 DEF StepInv, Welcoming
<1>4. CASE Welcoming /\ Welcoming'
  BY <1>1, <1>2, <1>4 DEF StepInv, Welcoming
<1>5. CASE pc'[Handler] \in {"closing", "closed"}
  BY <1>5 DEF StepInv, Welcoming
<1> QED
  BY <1>3, <1>4, <1>5

\* The handler goes back to waiting for a base message.
LEMMA StepBack ==
  ASSUME TypeInv, StepInv, Welcoming \/ pc[Handler] = "queue", pc'[Handler] = "base",
         UNCHANGED << msgs, pos, need, base, inStep >>
  PROVE  StepInv'
<1>1. \A k : End(k)' = End(k)
  BY DEF End
<1>2. pos' = pos /\ need' = need /\ inStep' = inStep /\ BaseUnits \in Nat /\ MaxMessages \in Nat
  BY ConstantTypes
<1>3. ASSUME inStep PROVE need = BaseUnits /\ \E k \in 0 .. MaxMessages : pos = End(k)
  <2>1. PICK k \in 1 .. MaxMessages : pos = End(k)
    BY <1>3 DEF StepInv
  <2>2. k \in 0 .. MaxMessages
    BY <1>2
  <2> QED
    BY <1>3, <2>1, <2>2 DEF StepInv
<1> QED
  BY <1>1, <1>2, <1>3 DEF StepInv, Welcoming

\* What a handler in step takes for a base message is one: only the one it has waited for
\* ends here.
LEMMA ArrivedOne ==
  ASSUME TypeInv, NEW k \in 0 .. MaxMessages, pos = End(k) + BaseUnits
  PROVE  /\ k + 1 \in 1 .. MaxMessages /\ Arrived = {k + 1}
         /\ End(k + 1) = pos + BodySize[msgs[k + 1]]
<1>1. /\ msgs \in Streams /\ pos \in 0 .. End(MaxMessages) /\ MaxMessages \in Nat
      /\ BaseUnits \in Nat \ {0} /\ DOMAIN msgs = 1 .. MaxMessages
  BY ConstantTypes DEF TypeInv, InTypes, Streams
<1> DEFINE e == Ends(msgs)
<1>2. /\ \A i \in 1 .. MaxMessages : e[i] = e[i - 1] + BaseUnits + BodySize[msgs[i]]
      /\ \A i \in 0 .. MaxMessages : e[i] \in Nat
      /\ \A i \in 0 .. MaxMessages : \A j \in 0 .. i - 1 : e[j] + BaseUnits <= e[i]
  BY <1>1, EndStep, EndsGrow
<1>3. \A i : End(i) = e[i]
  BY DEF End
<1> HIDE DEF e
<1>4. k # MaxMessages
  BY <1>1, <1>2, <1>3
<1>5. k + 1 \in 1 .. MaxMessages /\ (k + 1) - 1 = k
  BY <1>1, <1>4
<1>6. e[k + 1] = e[k] + BaseUnits + BodySize[msgs[k + 1]]
  BY <1>2, <1>5
<1>7. ASSUME NEW i \in 1 .. MaxMessages, pos = End(i - 1) + BaseUnits PROVE i = k + 1
  <2>1. i - 1 \in 0 .. MaxMessages /\ e[i - 1] \in Nat /\ e[k] \in Nat
    BY <1>1, <1>2
  <2>2. e[i - 1] = e[k]
    BY <1>1, <1>3, <1>7, <2>1
  <2>3. ~(i - 1 < k)
    <3>1. i - 1 < k => i - 1 \in 0 .. k - 1
      BY <2>1
    <3> QED
      BY <1>1, <1>2, <2>1, <2>2, <3>1
  <2>4. ~(k < i - 1)
    <3>1. k < i - 1 => k \in 0 .. (i - 1) - 1
      BY <2>1
    <3> QED
      BY <1>1, <1>2, <2>1, <2>2, <3>1
  <2> QED
    BY <2>1, <2>3, <2>4
<1>8. Arrived = {k + 1}
  BY <1>1, <1>5, <1>7 DEF Arrived
<1>9. End(k + 1) = pos + BodySize[msgs[k + 1]]
  BY <1>3, <1>6
<1> QED
  BY <1>5, <1>8, <1>9

\* A base message arrived: only a refusal or want of memory makes the handler lose step.
LEMMA StepBase == TypeInv /\ StepInv /\ BaseReceived => StepInv'
<1> SUFFICES ASSUME TypeInv, StepInv, BaseReceived, inStep' PROVE StepInv'
  BY DEF StepInv
<1>1. PICK b \in BaseMessages, allocated \in BOOLEAN :
        /\ base' = b
        /\ need' = IF allocated THEN b.size ELSE BaseUnits
        /\ pc' = [pc EXCEPT ![Handler] = IF allocated THEN "typed" ELSE "base"]
        /\ inStep' = (inStep /\ Arrived = Readable /\ (allocated \/ b.size = 0))
  BY DEF BaseReceived
<1>2. inStep /\ Arrived = Readable /\ (allocated \/ b.size = 0)
  BY <1>1
<1>3. pc[Handler] = "base" /\ need = 0 /\ msgs' = msgs /\ pos' = pos
  BY DEF BaseReceived
<1>4. pos \in Nat /\ BaseUnits \in Nat \ {0} /\ MaxMessages \in Nat /\ msgs \in Streams
  <2>1. msgs \in Streams /\ MaxMessages \in Nat /\ BaseUnits \in Nat \ {0}
    BY ConstantTypes DEF TypeInv, InTypes
  <2>2. End(MaxMessages) \in Nat
    BY <2>1, EndsGrow DEF End
  <2> QED
    BY <2>1, <2>2 DEF TypeInv, InTypes
<1>5. PICK k \in 0 .. MaxMessages : pos = End(k) + BaseUnits
  BY <1>2, <1>3, <1>4 DEF StepInv
<1>6. /\ k + 1 \in 1 .. MaxMessages /\ Arrived = {k + 1}
      /\ End(k + 1) = pos + BodySize[msgs[k + 1]]
  BY <1>5, ArrivedOne
<1>7. Readable = {k + 1}
  BY <1>2, <1>6
<1>8. b = DeserializeBaseMsg(BaseBytes(k + 1), ServerTime)
  BY <1>7 DEF BaseMessages
<1>9. BaseOf(b, k + 1)
  BY <1>4, <1>6, <1>8, BaseIsRead
<1>10. b.size = BodySize[msgs[k + 1]] /\ b.size \in Nat
  <2>1. b \in BaseMessageSet
    BY BaseTypes DEF TypeInv
  <2> QED
    BY <1>9, <2>1 DEF BaseOf, BaseMessageSet
<1>11. \A i : End(i)' = End(i)
  BY <1>3 DEF End
<1>12. BaseOf(base, k + 1)'
  BY <1>1, <1>3, <1>9 DEF BaseOf
<1>13. pc'[Handler] = IF allocated THEN "typed" ELSE "base"
  BY <1>1, TaskNumbers DEF TypeInv, TaskInv
<1>14. CASE allocated
  <2>1. pos' + need' = End(k + 1)'
    BY <1>1, <1>3, <1>6, <1>10, <1>11, <1>14
  <2>2. pc'[Handler] = "typed"
    BY <1>13, <1>14
  <2> QED
    BY <1>6, <1>12, <2>1, <2>2 DEF StepInv, Welcoming
<1>15. CASE ~allocated
  <2>1. b.size = 0
    BY <1>2, <1>15
  <2>2. need' = BaseUnits /\ pc'[Handler] = "base"
    BY <1>1, <1>13, <1>15
  <2>3. pos = End(k + 1)
    BY <1>4, <1>6, <1>10, <2>1
  <2>4. pos' + need' = End(k + 1)' + BaseUnits /\ need' <= BaseUnits
    BY <1>3, <1>4, <1>11, <2>2, <2>3
  <2>5. k + 1 \in 0 .. MaxMessages
    BY <1>6
  <2> QED
    BY <2>2, <2>4, <2>5 DEF StepInv, Welcoming
<1> QED
  BY <1>14, <1>15

\* Every step keeps the handler's place.
LEMMA StepNext == TypeInv /\ StepInv /\ [SocketNext]_socketVars => StepInv'
<1> SUFFICES ASSUME TypeInv, StepInv, [SocketNext]_socketVars PROVE StepInv'
  OBVIOUS
<1> USE TaskNumbers
<1>0. /\ pc \in [Tasks -> HandlerPlaces \cup TxPlaces] /\ need \in Nat
      /\ msgs \in Streams /\ MaxMessages \in Nat /\ BaseUnits \in Nat \ {0} /\ pos \in Nat
  <2>1. msgs \in Streams /\ MaxMessages \in Nat /\ BaseUnits \in Nat \ {0}
    BY ConstantTypes DEF TypeInv, InTypes
  <2>2. End(MaxMessages) \in Nat
    BY <2>1, EndsGrow DEF End
  <2> QED
    BY <2>1, <2>2 DEF TypeInv, InTypes, TaskInv
<1>1. CASE \/ UNCHANGED socketVars \/ PeerTakes \/ PeerCloses \/ Close \/ ReceiveFails
           \/ SendSettings \/ SendHeader
  <2>1. UNCHANGED receiving
    BY <1>1 DEF socketVars, PeerTakes, PeerCloses, Close, ReceiveFails, SendSettings, SendHeader
  <2>2. \/ pc'[Handler] = pc[Handler] \/ (Welcoming /\ Welcoming')
        \/ pc'[Handler] \in {"closing", "closed"}
    BY <1>0, <1>1 DEF socketVars, PeerTakes, PeerCloses, Close, ReceiveFails, SendSettings,
                      SendHeader, Welcoming
  <2> QED
    BY <2>1, <2>2, StepSame
<1>2. ASSUME NEW t \in Tasks, Write(t) \/ Refused(t) PROVE StepInv'
  <2>1. UNCHANGED receiving /\ pc' = pc
    BY <1>2 DEF Write, Refused
  <2> QED
    BY <2>1, StepSame
<1>3. ASSUME NEW t \in TxTasks,
             \/ SendChunk(t) \/ AnswerTime(t) \/ AnswerNoMemory(t) \/ AnswerSent(t) \/ AnswerCut(t)
      PROVE  StepInv'
  <2>1. pc'[Handler] = pc[Handler]
    BY <1>0, <1>3 DEF SendChunk, AnswerTime, AnswerNoMemory, AnswerSent, AnswerCut, Returns
  <2>2. UNCHANGED << msgs, pos, need, base, client, inStep >>
    BY <1>3 DEF SendChunk, AnswerTime, AnswerNoMemory, AnswerSent, AnswerCut, receiving
  <2>3. \A k : End(k)' = End(k) /\ (BaseOf(base, k)' <=> BaseOf(base, k))
    BY <2>2 DEF End, BaseOf
  <2> QED
    BY <2>1, <2>2, <2>3 DEF StepInv, Welcoming
<1>4. CASE NoHeader \/ StartTx \/ QueueTime
  <2>1. /\ Welcoming \/ pc[Handler] = "queue"
        /\ UNCHANGED << msgs, pos, need, base, inStep >>
    BY <1>4 DEF NoHeader, StartTx, QueueTime, Welcoming, receiving
  <2>2. pc'[Handler] = "base"
    <3>1. CASE QueueTime
      BY <1>0, <3>1 DEF QueueTime
    <3>2. CASE NoHeader \/ StartTx
      <4>1. pc' = [pc EXCEPT ![Handler] = "base", ![client] = "wait"]
        BY <3>2 DEF NoHeader, StartTx, Returns
      <4>2. client # Handler
        BY <3>2 DEF NoHeader, StartTx, TypeInv, TaskInv, Welcoming
      <4> QED
        BY <1>0, <4>1, <4>2
    <3> QED
      BY <1>4, <3>1, <3>2
  <2> QED
    BY <2>1, <2>2, StepBack
<1>5. CASE Receive
  <2>1. PICK n \in 1 .. need : pos' = pos + n /\ need' = need - n
    BY <1>5 DEF Receive
  <2>2. pos' + need' = pos + need /\ need' <= need
    BY <1>0, <2>1
  <2>3. UNCHANGED << msgs, base, inStep, pc >> /\ pc[Handler] \in {"base", "typed"}
    BY <1>5 DEF Receive, Receiving
  <2>4. \A k : End(k)' = End(k) /\ (BaseOf(base, k)' <=> BaseOf(base, k))
    BY <2>3 DEF End, BaseOf
  <2>5. need <= BaseUnits => need' <= BaseUnits
    BY <1>0, <2>1
  <2>6. CASE pc[Handler] = "base"
    BY <2>2, <2>3, <2>4, <2>5, <2>6 DEF StepInv, Welcoming
  <2>7. CASE pc[Handler] = "typed"
    BY <2>2, <2>3, <2>4, <2>7 DEF StepInv, Welcoming
  <2> QED
    BY <2>3, <2>6, <2>7
<1>6. CASE BaseReceived
  BY <1>6, StepBase
<1>7. CASE TypedReceived
  <2>1. /\ pc[Handler] = "typed" /\ need = 0 /\ need' = BaseUnits
        /\ UNCHANGED << msgs, pos, base, inStep >>
    BY <1>7 DEF TypedReceived
  <2>2. pc'[Handler] \in {"settings", "queue", "base"}
    BY <1>0, <1>7 DEF TypedReceived
  <2>3. \A k : End(k)' = End(k) /\ (BaseOf(base, k)' <=> BaseOf(base, k))
    BY <2>1 DEF End, BaseOf
  <2>4. ASSUME inStep PROVE \E k \in 1 .. MaxMessages : pos = End(k) /\ BaseOf(base, k)
    BY <1>0, <2>1, <2>4 DEF StepInv
  <2>5. CASE pc'[Handler] = "base"
    <3>1. ASSUME inStep PROVE \E k \in 0 .. MaxMessages : pos' + need' = End(k)' + BaseUnits
      <4>1. PICK k \in 1 .. MaxMessages : pos = End(k)
        BY <2>4, <3>1
      <4>2. k \in 0 .. MaxMessages
        BY <1>0
      <4> QED
        BY <2>1, <2>3, <4>1, <4>2
    <3> QED
      BY <1>0, <2>1, <2>5, <3>1 DEF StepInv, Welcoming
  <2>6. CASE pc'[Handler] \in {"settings", "queue"}
    BY <2>1, <2>3, <2>4, <2>6 DEF StepInv, Welcoming
  <2> QED
    BY <2>2, <2>5, <2>6
<1> QED
  BY <1>1, <1>2, <1>3, <1>4, <1>5, <1>6, <1>7 DEF SocketNext, Socket

\* The handler starts in front of the first message.
LEMMA StepInit == SocketInit => StepInv
<1> SUFFICES ASSUME SocketInit PROVE StepInv
  OBVIOUS
<1>1. msgs \in Streams /\ MaxMessages \in Nat /\ BaseUnits \in Nat
  BY ConstantTypes DEF SocketInit, Conversations, Streams
<1>2. End(0) = 0
  BY <1>1, EndStep DEF End
<1>3. pos + need = End(0) + BaseUnits /\ need <= BaseUnits /\ pc[Handler] = "base" /\ 0 \in 0 .. MaxMessages
  BY <1>1, <1>2, TaskNumbers DEF SocketInit
<1> QED
  BY <1>3 DEF StepInv, Welcoming

\* As long as the handler could read every base message and had memory for every body, it
\* waits for a base message only where one begins.
THEOREM HandlerKeepsStep == SocketSpec => []KeepsStep
<1>1. SocketSpec => [](TypeInv /\ StepInv)
  BY StepInit, StepNext, TypeInit, TypeNext, PTL DEF SocketSpec
<1>2. TypeInv /\ StepInv => KeepsStep
  <2> SUFFICES ASSUME TypeInv, StepInv, inStep, pc[Handler] = "base", need = BaseUnits
               PROVE  \E k \in 0 .. Len(msgs) : pos = End(k)
    BY DEF KeepsStep
  <2>1. /\ msgs \in Streams /\ MaxMessages \in Nat /\ BaseUnits \in Nat /\ Len(msgs) = MaxMessages
        /\ \A k \in 0 .. MaxMessages : End(k) \in Nat
    BY ConstantTypes, FunctionIsSeq, EndsGrow DEF TypeInv, InTypes, Streams, End
  <2>2. pos \in Nat
    BY <2>1 DEF TypeInv, InTypes
  <2>3. PICK k \in 0 .. MaxMessages : pos + need = End(k) + BaseUnits
    BY DEF StepInv
  <2> QED
    BY <2>1, <2>2, <2>3
<1> QED
  BY <1>1, <1>2, PTL

-----------------------------------------------------------------------------
(* What the client reads.                                                  *)

\* The requests that wait in a queue are messages of the client.
QueueInv ==
  inStep => \A r \in TxTasks : \A i \in 1 .. Len(msgQ[r]) :
              \E k \in 1 .. MaxMessages : BaseOf(msgQ[r][i], k)

\* A frame leads to the next, and an answer holds the time between the clocks.
FrameReads(m) ==
  LET head == DeserializeBaseMsg(m, ServerTime)
      body == SubSeq(m, BaseMessageSize + 1, Len(m))
      answer == TimeMessageDeserialize(body, head.size)
  IN  /\ ~Refuses(SubSeq(m, 1, BaseMessageSize))
      /\ head.size = Len(body)
      /\ head.type = TIME =>
           /\ answer.result = 0
           /\ inStep => answer.latency =
                           [sec |-> ServerTime.sec - ClientTime(head.refersTo).sec,
                            usec |-> ServerTime.usec - ClientTime(head.refersTo).usec]

FramesRead == \A f \in 1 .. Len(frames) : FrameReads(frames[f])

\* A well-built message that is no answer to a TIME can be read.
LEMMA OthersRead ==
  ASSUME NEW m, NEW type \in {SERVER_SETTINGS, CODEC_HEADER, WIRE_CHUNK}, WellBuilt(m, type)
  PROVE  FrameReads(m)
BY DEF WellBuilt, FrameReads, SERVER_SETTINGS, CODEC_HEADER, WIRE_CHUNK, TIME

\* A request whose number is not cut off when it is written names its message.
LEMMA AnswerReads ==
  ASSUME NEW id \in Nat, NEW b \in BaseMessageSet, MaxMessages < Byte * Byte,
         inStep => \E k \in 1 .. MaxMessages : BaseOf(b, k)
  PROVE  FrameReads(TimeMessage(id, b, ServerTime))
<1> DEFINE m == TimeMessage(id, b, ServerTime)
           head == DeserializeBaseMsg(m, ServerTime)
           body == SubSeq(m, BaseMessageSize + 1, Len(m))
           answer == TimeMessageDeserialize(body, head.size)
           latency == [sec |-> b.received.sec - b.sent.sec,
                       usec |-> b.received.usec - b.sent.usec]
<1>1. /\ WellBuilt(m, TIME) /\ body = Tv(latency) /\ Len(Tv(latency)) = 8
      /\ head.refersTo = b.id % (Byte * Byte)
  BY AnswersBuilt, Zenon
<1>2. ~Refuses(SubSeq(m, 1, BaseMessageSize)) /\ head.size = Len(body) /\ head.size = 8
  BY <1>1, Zenon DEF WellBuilt
<1>3. answer.result = 0
  <2>1. answer = TimeMessageDeserialize(body, 8)
    BY <1>2, Zenon
  <2>2. TimeMessageDeserialize(body, 8).result = 0
    BY ReadsTwice DEF TimeMessageDeserialize
  <2> QED
    BY <2>1, <2>2
<1>4. ASSUME inStep
      PROVE  answer.latency = [sec |-> ServerTime.sec - ClientTime(head.refersTo).sec,
                               usec |-> ServerTime.usec - ClientTime(head.refersTo).usec]
  <2>1. PICK k \in 1 .. MaxMessages : BaseOf(b, k)
    BY <1>4
  <2>2. PICK s \in Nat, w \in Nat : s = Byte * Byte /\ w = Word32 /\ w >= 49 * s
    BY Ranges
  <2>3. k \in Nat /\ k < s /\ 2 * (k + 1) < w /\ s \in Nat \ {0}
    BY <2>2, ConstantTypes
  <2>4. Signed((-k) % Word32) = -k /\ Signed(k % Word32) = k
    <3>1. - Word32 <= 2 * (-k) /\ 2 * (-k) < Word32 /\ - Word32 <= 2 * k /\ 2 * k < Word32
          /\ k \in Int /\ -k \in Int
      BY <2>2, <2>3
    <3> QED
      BY <3>1, SignedReadsBack
  <2>5. k % (Byte * Byte) = k /\ b.id % (Byte * Byte) = k
    <3>1. k % s = k
      BY <2>3
    <3> QED
      BY <2>1, <2>2, <3>1 DEF BaseOf
  <2>6. latency = [sec |-> 1 + k, usec |-> -k]
    <3>1. b.sent.sec = -k /\ b.sent.usec = k /\ b.received.sec = 1 /\ b.received.usec = 0
      BY <2>1, <2>4 DEF BaseOf, ServerTime
    <3>2. 1 - (-k) = 1 + k /\ 0 - k = -k
      BY <2>3
    <3> QED
      BY <3>1, <3>2, Zenon
  <2>7. TimeMessageDeserialize(Tv(latency), 8) = [result |-> 0, latency |-> [sec |-> latency.sec, usec |-> latency.usec]]
    <3>1. /\ latency.sec \in Int /\ latency.usec \in Int
          /\ - Word32 <= 2 * latency.sec /\ 2 * latency.sec < Word32
          /\ - Word32 <= 2 * latency.usec /\ 2 * latency.usec < Word32
      BY <2>2, <2>3, <2>6
    <3> QED
      BY <3>1, LatencyReadsBack, Zenon
  <2>8. answer.latency = [sec |-> 1 + k, usec |-> -k]
    <3>1. answer = TimeMessageDeserialize(Tv(latency), 8)
      BY <1>1, <1>2, Zenon
    <3> HIDE DEF answer, latency
    <3> QED
      BY <2>6, <2>7, <3>1
  <2>9. head.refersTo = k
    BY <1>1, <2>5, Zenon
  <2>10. ServerTime.sec - ClientTime(k).sec = 1 + k /\ ServerTime.usec - ClientTime(k).usec = -k
    BY <2>3 DEF ServerTime, ClientTime
  <2> QED
    BY <2>8, <2>9, <2>10, Zenon
<1> QED
  BY <1>2, <1>3, <1>4, Zenon DEF FrameReads

\* What was true of the frames and the queues stays true of them: msgs does not change, and
\* a handler that is in step has always been.
LEMMA ReadSame ==
  ASSUME TypeInv, QueueInv, FramesRead, UNCHANGED << msgs, msgQ, frames >>, inStep' => inStep
  PROVE  QueueInv' /\ FramesRead'
<1>1. \A b, k : BaseOf(b, k)' <=> BaseOf(b, k)
  BY DEF BaseOf
<1>2. \A m : FrameReads(m) => FrameReads(m)'
  BY DEF FrameReads
<1> QED
  BY <1>1, <1>2 DEF QueueInv, FramesRead

\* One more frame.
LEMMA ReadMore ==
  ASSUME TypeInv, FramesRead, inStep' = inStep, NEW t, NEW type, Adds(t, type),
         FrameReads(frames'[Len(frames) + 1])
  PROVE  FramesRead'
<1>1. \A m : FrameReads(m) => FrameReads(m)'
  BY DEF FrameReads
<1>2. Len(frames') = Len(frames) + 1 /\ \A f \in 1 .. Len(frames) : frames'[f] = frames[f]
  BY DEF Adds
<1>3. Len(frames) \in Nat
  BY LenProperties DEF TypeInv, OutTypes
<1>4. \A f \in 1 .. Len(frames') : f \in 1 .. Len(frames) \/ f = Len(frames) + 1
  BY <1>2, <1>3
<1>5. \A f \in 1 .. Len(frames') : FrameReads(frames'[f])
  BY <1>2, <1>4 DEF FramesRead
<1> QED
  BY <1>1, <1>5 DEF FramesRead

\* A request leaves its queue.
LEMMA QueueShrinks ==
  ASSUME TypeInv, QueueInv, NEW t \in TxTasks, msgQ[t] # << >>,
         msgQ' = [msgQ EXCEPT ![t] = Tail(@)], UNCHANGED << msgs, inStep >>
  PROVE  /\ QueueInv' /\ Head(msgQ[t]) \in BaseMessageSet
         /\ inStep => \E k \in 1 .. MaxMessages : BaseOf(Head(msgQ[t]), k)
<1>1. /\ msgQ[t] \in Seq(BaseMessageSet) /\ Len(msgQ[t]) \in Nat \ {0}
      /\ Head(msgQ[t]) = msgQ[t][1] /\ Len(Tail(msgQ[t])) = Len(msgQ[t]) - 1
      /\ \A i \in 1 .. Len(msgQ[t]) - 1 : Tail(msgQ[t])[i] = msgQ[t][i + 1]
  <2>1. msgQ[t] \in Seq(BaseMessageSet)
    BY DEF TypeInv, InTypes
  <2> QED
    BY <2>1
<1>2. Head(msgQ[t]) \in BaseMessageSet /\ 1 \in 1 .. Len(msgQ[t])
  BY <1>1
<1>3. inStep => \E k \in 1 .. MaxMessages : BaseOf(Head(msgQ[t]), k)
  BY <1>1, <1>2 DEF QueueInv
<1>4. msgQ'[t] = Tail(msgQ[t]) /\ \A r \in TxTasks : r # t => msgQ'[r] = msgQ[r]
  BY DEF TypeInv, InTypes
<1>5. \A b, k : BaseOf(b, k)' <=> BaseOf(b, k)
  BY DEF BaseOf
<1>6. ASSUME inStep, NEW r \in TxTasks, NEW i \in 1 .. Len(msgQ'[r])
      PROVE  \E k \in 1 .. MaxMessages : BaseOf(msgQ'[r][i], k)
  <2>1. CASE r = t
    <3>1. i + 1 \in 1 .. Len(msgQ[t]) /\ msgQ'[r][i] = msgQ[t][i + 1]
      <4>1. msgQ'[r] = Tail(msgQ[t]) /\ i \in 1 .. Len(msgQ[t]) - 1
        BY <1>1, <1>4, <2>1
      <4>2. i + 1 \in 1 .. Len(msgQ[t])
        BY <1>1, <4>1
      <4> QED
        BY <1>1, <4>1, <4>2
    <3> QED
      BY <1>6, <3>1 DEF QueueInv
  <2>2. CASE r # t
    BY <1>4, <1>6, <2>2 DEF QueueInv
  <2> QED
    BY <2>1, <2>2
<1>7. QueueInv'
  BY <1>5, <1>6 DEF QueueInv
<1> QED
  BY <1>2, <1>3, <1>7

\* Every step keeps the queues and the frames readable.
LEMMA ReadNext ==
  ASSUME MaxMessages < Byte * Byte, TypeInv, StepInv, QueueInv, FramesRead,
         [SocketNext]_socketVars
  PROVE  QueueInv' /\ FramesRead'
<1> USE TaskNumbers
<1>1. CASE \/ UNCHANGED socketVars \/ PeerTakes \/ PeerCloses \/ Close \/ ReceiveFails \/ Receive
           \/ BaseReceived \/ TypedReceived \/ NoHeader \/ StartTx
  <2>1. UNCHANGED << msgs, msgQ, frames >>
    BY <1>1 DEF socketVars, receiving, sending, PeerTakes, PeerCloses, Close, ReceiveFails, Receive,
          BaseReceived, TypedReceived, NoHeader, StartTx, Returns
  <2>2. CASE BaseReceived
    <3>1. inStep' => inStep
      BY <2>2 DEF BaseReceived
    <3> QED
      BY <2>1, <3>1, ReadSame
  <2>3. CASE ~BaseReceived
    <3>1. inStep' = inStep
      BY <1>1, <2>3 DEF socketVars, receiving, PeerTakes, PeerCloses, Close, ReceiveFails, Receive,
            TypedReceived, NoHeader, StartTx, Returns
    <3> QED
      BY <2>1, <3>1, ReadSame
  <2> QED
    BY <2>2, <2>3
<1>2. ASSUME NEW t \in Tasks, Write(t) \/ Refused(t) PROVE QueueInv' /\ FramesRead'
  <2>1. UNCHANGED << msgs, msgQ, frames >> /\ (inStep' => inStep)
    BY <1>2 DEF receiving, Write, Refused
  <2> QED
    BY <2>1, ReadSame
<1>3. ASSUME NEW t \in TxTasks, AnswerSent(t) \/ AnswerCut(t) PROVE QueueInv' /\ FramesRead'
  <2>1. UNCHANGED << msgs, msgQ, frames >> /\ (inStep' => inStep)
    BY <1>3 DEF receiving, AnswerSent, AnswerCut, Returns
  <2> QED
    BY <2>1, ReadSame
<1>4. CASE QueueTime
  <2>1. client \in TxTasks
    BY <1>4, ConstantTypes DEF TypeInv, InTypes, TaskInv, QueueTime, TxTasks
  <2>2. /\ UNCHANGED << msgs, frames, inStep >> /\ msgQ' = [msgQ EXCEPT ![client] = Append(@, base)]
    BY <1>4 DEF QueueTime, sending
  <2>3. inStep => \E k \in 1 .. MaxMessages : BaseOf(base, k)
    BY <1>4 DEF StepInv, QueueTime
  <2>4. msgQ[client] \in Seq(BaseMessageSet) /\ base \in BaseMessageSet
    BY <2>1 DEF TypeInv, InTypes
  <2> DEFINE q == msgQ[client]
  <2>5. /\ Len(Append(q, base)) = Len(q) + 1 /\ Len(q) \in Nat
        /\ Append(q, base)[Len(q) + 1] = base
        /\ \A i \in 1 .. Len(q) : Append(q, base)[i] = q[i]
    BY <2>4
  <2>6. msgQ'[client] = Append(q, base) /\ \A r \in TxTasks : r # client => msgQ'[r] = msgQ[r]
    BY <2>1, <2>2 DEF TypeInv, InTypes
  <2>7. \A b, k : BaseOf(b, k)' <=> BaseOf(b, k)
    BY <2>2 DEF BaseOf
  <2>8. ASSUME inStep, NEW r \in TxTasks, NEW i \in 1 .. Len(msgQ'[r])
        PROVE  \E k \in 1 .. MaxMessages : BaseOf(msgQ'[r][i], k)
    <3>1. CASE r = client /\ i = Len(q) + 1
      BY <2>3, <2>5, <2>6, <2>8, <3>1
    <3>2. CASE r = client /\ i # Len(q) + 1
      <4>1. i \in 1 .. Len(q)
        BY <2>5, <2>6, <3>2
      <4>2. msgQ'[r][i] = q[i]
        BY <2>5, <2>6, <3>2, <4>1
      <4> QED
        BY <2>1, <2>8, <4>1, <4>2 DEF QueueInv
    <3>3. CASE r # client
      BY <2>6, <2>8, <3>3 DEF QueueInv
    <3> QED
      BY <3>1, <3>2, <3>3
  <2>9. QueueInv'
    BY <2>2, <2>7, <2>8 DEF QueueInv
  <2>10. FramesRead'
    <3>1. \A m : FrameReads(m) => FrameReads(m)'
      BY <2>2 DEF FrameReads
    <3> QED
      BY <2>2, <3>1 DEF FramesRead
  <2> QED
    BY <2>9, <2>10
<1>5. CASE SendSettings \/ SendHeader
  <2>1. PICK type \in {SERVER_SETTINGS, CODEC_HEADER} : Adds(Handler, type)
    BY <1>5, WelcomeAdds
  <2>2. UNCHANGED receiving
    BY <1>5, WelcomeAdds
  <2>3. FrameReads(frames'[Len(frames) + 1])
    BY <2>1, OthersRead DEF Adds
  <2>4. FramesRead'
    BY <2>1, <2>2, <2>3, ReadMore DEF receiving
  <2>5. QueueInv'
    BY <2>2 DEF receiving, QueueInv, BaseOf
  <2> QED
    BY <2>4, <2>5
<1>6. ASSUME NEW t \in TxTasks, SendChunk(t) PROVE QueueInv' /\ FramesRead'
  <2> DEFINE m == WireChunkMessage(idCounter[t], ServerTime, ServerTime, Payload)
  <2>1. idCounter[t] \in Nat /\ t \in Tasks /\ OutTypes /\ UNCHANGED receiving
    BY <1>6 DEF TypeInv, OutTypes, SendChunk
  <2>2. WellBuilt(m, WIRE_CHUNK)
    <3>1. PICK b : b \in BaseMessageSet
      BY DEF TypeInv, InTypes
    <3> QED
      BY <2>1, <3>1, AnswersBuilt, Zenon
  <2>3. Begin(t, t, m) /\ WIRE_CHUNK \in Answers
    BY <1>6 DEF SendChunk, Answers
  <2> HIDE DEF m
  <2>4. Adds(t, WIRE_CHUNK) /\ frames'[Len(frames) + 1] = m
    BY <2>1, <2>2, <2>3, BeginTypes
  <2>5. FrameReads(m)
    BY <2>2, OthersRead
  <2>6. FramesRead'
    BY <2>1, <2>4, <2>5, ReadMore DEF receiving
  <2>7. QueueInv'
    BY <2>1 DEF receiving, QueueInv, BaseOf
  <2> QED
    BY <2>6, <2>7
<1>7. ASSUME NEW t \in TxTasks, AnswerTime(t) PROVE QueueInv' /\ FramesRead'
  <2> DEFINE m == TimeMessage(idCounter[t], Head(msgQ[t]), ServerTime)
  <2>1. idCounter[t] \in Nat /\ t \in Tasks /\ OutTypes
    BY DEF TypeInv, OutTypes
  <2>2. /\ msgQ[t] # << >> /\ msgQ' = [msgQ EXCEPT ![t] = Tail(@)] /\ UNCHANGED << msgs, inStep >>
    BY <1>7 DEF AnswerTime
  <2>3. /\ QueueInv' /\ Head(msgQ[t]) \in BaseMessageSet
        /\ inStep => \E k \in 1 .. MaxMessages : BaseOf(Head(msgQ[t]), k)
    BY <2>2, QueueShrinks
  <2>4. WellBuilt(m, TIME) /\ FrameReads(m)
    BY <2>1, <2>3, AnswersBuilt, AnswerReads, Zenon
  <2>5. Begin(t, t, m) /\ TIME \in Answers
    BY <1>7 DEF AnswerTime, Answers
  <2> HIDE DEF m
  <2>6. Adds(t, TIME) /\ frames'[Len(frames) + 1] = m
    BY <2>1, <2>4, <2>5, BeginTypes
  <2>7. FramesRead'
    BY <2>2, <2>4, <2>6, ReadMore
  <2> QED
    BY <2>3, <2>7
<1>8. ASSUME NEW t \in TxTasks, AnswerNoMemory(t) PROVE QueueInv' /\ FramesRead'
  <2>1. /\ msgQ[t] # << >> /\ msgQ' = [msgQ EXCEPT ![t] = Tail(@)]
        /\ UNCHANGED << msgs, inStep, frames >>
    BY <1>8 DEF AnswerNoMemory
  <2>2. QueueInv'
    BY <2>1, QueueShrinks
  <2>3. \A m : FrameReads(m) => FrameReads(m)'
    BY <2>1 DEF FrameReads
  <2> QED
    BY <2>1, <2>2, <2>3 DEF FramesRead
<1> QED
  BY <1>1, <1>2, <1>3, <1>4, <1>5, <1>6, <1>7, <1>8 DEF SocketNext, Socket

\* The client can read whatever it is sent, and the time in an answer is the one between
\* the clocks, if no message has the number of an earlier one in its uint16_t id.
THEOREM ClientReadsAnswers ==
  ASSUME MaxMessages < Byte * Byte
  PROVE  SocketSpec => []AnswersReadable
<1>1. SocketInit => QueueInv /\ FramesRead
  BY EmptySeq DEF SocketInit, QueueInv, FramesRead
<1>2. TypeInv /\ StepInv /\ QueueInv /\ FramesRead /\ [SocketNext]_socketVars
        => QueueInv' /\ FramesRead'
  BY ReadNext
<1>3. SocketSpec => [](TypeInv /\ FramesRead)
  BY <1>1, <1>2, StepInit, StepNext, TypeInit, TypeNext, PTL DEF SocketSpec
<1>4. TypeInv /\ FramesRead => AnswersReadable
  <2> SUFFICES ASSUME TypeInv, FramesRead PROVE AnswersReadable
    OBVIOUS
  <2>1. DOMAIN frames = 1 .. Len(frames)
    BY DEF TypeInv, OutTypes
  <2>2. \A f \in DOMAIN frames : FrameReads(frames[f])
    BY <2>1 DEF FramesRead
  <2> QED
    BY <2>2, Zenon DEF AnswersReadable, FrameReads
<1> QED
  BY <1>3, <1>4, PTL

-----------------------------------------------------------------------------
(* What is cut.                                                            *)

UnitsOf(w, f) == Cardinality({ i \in DOMAIN w : w[i] = f })

\* How much of a frame is on the wire is a number, which writing raises.
LEMMA UnitsGrow ==
  ASSUME NEW S, NEW w \in Seq(S), NEW n \in Nat, NEW g, NEW v, v = w \o [i \in 1 .. n |-> g]
  PROVE  /\ \A f : UnitsOf(w, f) \in Nat /\ UnitsOf(v, f) \in Nat /\ UnitsOf(w, f) <= UnitsOf(v, f)
         /\ UnitsOf(v, g) = UnitsOf(w, g) + n
<1> DEFINE At(x, f) == { i \in DOMAIN x : x[i] = f }
<1>1. /\ DOMAIN w = 1 .. Len(w) /\ Len(w) \in Nat /\ DOMAIN v = 1 .. Len(w) + n
      /\ \A i \in 1 .. Len(w) : v[i] = w[i]
      /\ \A i \in Len(w) + 1 .. Len(w) + n : v[i] = g
  OBVIOUS
<1>2. IsFiniteSet(DOMAIN w) /\ IsFiniteSet(DOMAIN v)
  BY <1>1, FS_Interval
<1>3. \A f : IsFiniteSet(At(w, f)) /\ IsFiniteSet(At(v, f))
  BY <1>2, FS_Subset
<1>4. \A f : At(w, f) \subseteq At(v, f)
  BY <1>1
<1>5. \A f : Cardinality(At(w, f)) <= Cardinality(At(v, f))
  <2> TAKE f
  <2> HIDE DEF At
  <2>1. At(w, f) \in SUBSET At(v, f) /\ IsFiniteSet(At(v, f))
    BY <1>3, <1>4
  <2> QED
    BY <2>1, FS_Subset, Zenon
<1>6. \A f : Cardinality(At(w, f)) \in Nat /\ Cardinality(At(v, f)) \in Nat
  BY <1>3, FS_CardinalityType
<1> DEFINE New == Len(w) + 1 .. Len(w) + n
<1>7. At(v, g) = At(w, g) \cup New /\ At(w, g) \cap New = {}
  BY <1>1
<1>8. IsFiniteSet(New) /\ Cardinality(New) = n
  BY <1>1, FS_Interval
<1>9. Cardinality(At(v, g)) = Cardinality(At(w, g)) + n
  <2>1. Cardinality(At(w, g) \cup New)
          = Cardinality(At(w, g)) + Cardinality(New) - Cardinality(At(w, g) \cap New)
    BY <1>3, <1>8, FS_Union
  <2>2. Cardinality(At(w, g) \cap New) = 0
    BY <1>7, FS_EmptySet
  <2>3. Cardinality(At(v, g)) = Cardinality(At(w, g)) + Cardinality(New) - Cardinality(At(w, g) \cap New)
    BY <1>7, <2>1, Zenon
  <2> HIDE DEF New, At
  <2>4. Cardinality(At(v, g)) = Cardinality(At(w, g)) + n - 0
    BY <1>8, <2>2, <2>3, Zenon
  <2> QED
    BY <1>6, <2>4
<1> QED
  BY <1>5, <1>6, <1>9 DEF UnitsOf

\* How much of a frame is on the wire is a number.
LEMMA UnitsType == TypeInv => \A f : Units(f) \in Nat
<1> SUFFICES ASSUME TypeInv PROVE \A f : Units(f) \in Nat
  OBVIOUS
<1>1. DOMAIN wire = 1 .. Len(wire) /\ Len(wire) \in Nat
  BY LenProperties DEF TypeInv, OutTypes
<1>2. IsFiniteSet(DOMAIN wire)
  BY <1>1, FS_Interval
<1>3. \A f : IsFiniteSet({ i \in DOMAIN wire : wire[i] = f })
  BY <1>2, FS_Subset
<1> QED
  BY <1>3, FS_CardinalityType DEF Units

\* While one HELLO was handled: a tx task has sent the whole of each frame but the one it
\* is at, of which it has sent what it has not still to write.
WholeInv ==
  client <= 1 =>
    /\ \A f \in 1 .. Len(frames) : Kind(f) \in {WIRE_CHUNK, TIME} =>
         /\ pc[1] # "none"
         /\ f < Len(frames) \/ pc[1] = "wait" => ~Cut(f)
    /\ pc[1] = "sending" => /\ Len(frames) > 0
                            /\ Units(Len(frames)) + toWrite[1] >= Length[Kind(Len(frames))]

\* Steps that neither begin nor write, and after which the tx task has no more to show.
LEMMA WholeSame ==
  ASSUME TypeInv, WholeInv, client' \in Nat, client' >= client, UNCHANGED << frames, wire >>,
         pc'[1] = "sending" => pc[1] = "sending" /\ toWrite'[1] = toWrite[1],
         pc[1] # "none" => pc'[1] # "none", pc'[1] = "wait" => pc[1] \in {"wait", "none"}
  PROVE  WholeInv'
<1> SUFFICES ASSUME client' <= 1 PROVE WholeInv'
  BY DEF WholeInv
<1>1. client <= 1
  BY TaskNumbers DEF TypeInv, InTypes
<1>2. \A f : Units(f)' = Units(f) /\ Kind(f)' = Kind(f) /\ (Cut(f)' <=> Cut(f))
  BY DEF Units, Kind, Cut
<1>3. Len(frames)' = Len(frames) /\ Units(Len(frames))' = Units(Len(frames))
      /\ Kind(Len(frames))' = Kind(Len(frames))
  BY DEF Units, Kind
<1>4. ASSUME NEW f \in 1 .. Len(frames), Kind(f) \in {WIRE_CHUNK, TIME}
      PROVE  pc'[1] # "none" /\ (f < Len(frames) \/ pc'[1] = "wait" => ~Cut(f))
  BY <1>1, <1>4 DEF WholeInv
<1>5. pc'[1] = "sending" => /\ Len(frames) > 0
                            /\ Units(Len(frames)) + toWrite'[1] >= Length[Kind(Len(frames))]
  BY <1>1 DEF WholeInv
<1> QED
  BY <1>2, <1>3, <1>4, <1>5 DEF WholeInv

\* A frame that is begun leaves the earlier ones as they are.
LEMMA WholeAdds ==
  ASSUME TypeInv, NEW t \in Tasks, NEW type, Adds(t, type)
  PROVE  /\ \A f \in 1 .. Len(frames) : Kind(f)' = Kind(f) /\ (Cut(f)' <=> Cut(f))
         /\ Len(frames') = Len(frames) + 1 /\ Len(frames) \in Nat
         /\ toWrite'[t] = Length[type]
         /\ \A f : f = Len(frames) + 1 => Kind(f)' = type /\ Units(f)' \in Nat
<1>1. /\ Len(frames') = Len(frames) + 1 /\ Len(frames) \in Nat /\ wire' = wire
      /\ \A f \in 1 .. Len(frames) : frames'[f] = frames[f]
      /\ toWrite' = [toWrite EXCEPT ![t] = Length[type]]
      /\ Number(2, frames'[Len(frames) + 1], 1) = type
  BY LenProperties DEF Adds, WellBuilt, TypeInv, OutTypes
<1>2. \A f : Units(f)' = Units(f)
  BY <1>1 DEF Units
<1>3. \A f \in 1 .. Len(frames) : Kind(f)' = Kind(f) /\ (Cut(f)' <=> Cut(f))
  BY <1>1, <1>2 DEF Kind, Cut
<1>4. \A f : f = Len(frames) + 1 => Kind(f)' = type
  BY <1>1 DEF Kind
<1>5. toWrite'[t] = Length[type]
  BY <1>1 DEF TypeInv, OutTypes
<1>6. \A f : Units(f)' \in Nat
  BY <1>2, UnitsType
<1> QED
  BY <1>1, <1>3, <1>4, <1>5, <1>6

\* Writing makes no frame shorter, and the frame of the task that writes longer by what the
\* task has not still to write.
LEMMA WholeWrites ==
  ASSUME TypeInv, NEW t \in Tasks, Write(t)
  PROVE  /\ UNCHANGED << frames, client, pc >>
         /\ \A s \in Tasks : s # t => toWrite'[s] = toWrite[s]
         /\ \A f : Kind(f)' = Kind(f) /\ Units(f) \in Nat /\ Units(f)' \in Nat
                   /\ Units(f) <= Units(f)'
         /\ Units(frame[t])' + toWrite'[t] = Units(frame[t]) + toWrite[t]
         /\ toWrite[t] \in Nat /\ toWrite'[t] \in Nat /\ Sending(t)
<1>1. UNCHANGED << frames, client, pc >>
  BY DEF Write, receiving
<1>2. PICK n \in Nat \ {0} :
        /\ n <= toWrite[t] /\ toWrite' = [toWrite EXCEPT ![t] = toWrite[t] - n]
        /\ wire' = wire \o [i \in 1 .. n |-> frame[t]]
        /\ OutTypes' /\ Sending(t)
  BY WriteTypes DEF TypeInv
<1>3. wire \in Seq(1 .. Len(frames)) /\ toWrite \in [Tasks -> Nat] /\ toWrite' \in [Tasks -> Nat]
  BY <1>2 DEF TypeInv, OutTypes
<1>4. /\ \A f : UnitsOf(wire, f) \in Nat /\ UnitsOf(wire', f) \in Nat
              /\ UnitsOf(wire, f) <= UnitsOf(wire', f)
      /\ UnitsOf(wire', frame[t]) = UnitsOf(wire, frame[t]) + n
  <2>1. PICK S, w, v, g : S = 1 .. Len(frames) /\ w = wire /\ v = wire' /\ g = frame[t]
    OBVIOUS
  <2>2. w \in Seq(S) /\ n \in Nat
    BY <1>2, <1>3, <2>1
  <2>3. v = w \o [i \in 1 .. n |-> g]
    BY <1>2, <2>1
  <2>4. /\ \A f : UnitsOf(w, f) \in Nat /\ UnitsOf(v, f) \in Nat /\ UnitsOf(w, f) <= UnitsOf(v, f)
        /\ UnitsOf(v, g) = UnitsOf(w, g) + n
    BY <2>2, <2>3, UnitsGrow, Zenon
  <2> QED
    BY <2>1, <2>4
<1>5. \A f : Kind(f)' = Kind(f)
  BY <1>1 DEF Kind
<1>6. /\ \A f : Units(f) \in Nat /\ Units(f)' \in Nat /\ Units(f) <= Units(f)'
      /\ Units(frame[t])' = Units(frame[t]) + n
  <2>1. \A f : Units(f) = UnitsOf(wire, f) /\ Units(f)' = UnitsOf(wire', f)
    BY DEF Units, UnitsOf
  <2>2. frame' = frame
    BY DEF Write
  <2>3. Units(frame[t])' = UnitsOf(wire', frame[t])
    BY <2>2 DEF Units, UnitsOf
  <2> QED
    BY <1>4, <2>1, <2>3
<1>7. toWrite'[t] = toWrite[t] - n /\ \A s \in Tasks : s # t => toWrite'[s] = toWrite[s]
  BY <1>2, <1>3
<1>8. Units(frame[t])' + toWrite'[t] = Units(frame[t]) + toWrite[t]
  <2>1. Units(frame[t]) \in Nat /\ toWrite[t] \in Nat
    BY <1>3, <1>6
  <2> QED
    BY <1>6, <1>7, <2>1
<1> QED
  BY <1>1, <1>2, <1>3, <1>5, <1>6, <1>7, <1>8

\* Every step keeps the tx task's frames whole: it begins one when it has sent the last.
LEMMA WholeNext == TypeInv /\ OrderInv /\ WholeInv /\ [SocketNext]_socketVars => WholeInv'
<1> SUFFICES ASSUME TypeInv, OrderInv, WholeInv, [SocketNext]_socketVars PROVE WholeInv'
  OBVIOUS
<1> USE TaskNumbers
<1>0. /\ client \in 0 .. MaxHello /\ Len(frames) \in Nat /\ 1 \in Tasks
      /\ pc \in [Tasks -> HandlerPlaces \cup TxPlaces] /\ toWrite \in [Tasks -> Nat]
      /\ \A f \in 1 .. Len(frames) : Length[Kind(f)] \in Nat
  BY ConstantTypes, LenProperties DEF TypeInv, InTypes, OutTypes, TaskInv
<1>1. CASE \/ UNCHANGED socketVars \/ PeerTakes \/ PeerCloses \/ Close \/ ReceiveFails \/ Receive
           \/ BaseReceived \/ QueueTime \/ TypedReceived \/ NoHeader \/ StartTx
  <2>1. client' \in Nat /\ client' >= client
    BY <1>0, <1>1 DEF socketVars, receiving, PeerTakes, PeerCloses, Close, ReceiveFails, Receive,
          BaseReceived, QueueTime, TypedReceived, NoHeader, StartTx
  <2>2. UNCHANGED << frames, wire >> /\ toWrite' \in {toWrite, [toWrite EXCEPT ![Handler] = 0]}
    BY <1>1 DEF socketVars, sending, PeerTakes, PeerCloses, Close, ReceiveFails, Receive,
          BaseReceived, QueueTime, TypedReceived, NoHeader, StartTx, Returns
  <2>3. toWrite'[1] = toWrite[1]
    BY <1>0, <2>2
  <2>4. \/ pc' = pc
        \/ \E p \in {"base", "typed", "queue", "settings", "closing", "closed"} :
             pc' = [pc EXCEPT ![Handler] = p]
        \/ Welcoming /\ pc' = [pc EXCEPT ![Handler] = "base", ![client] = "wait"]
    BY <1>1 DEF socketVars, PeerTakes, PeerCloses, Close, ReceiveFails, Receive, Welcoming,
          BaseReceived, QueueTime, TypedReceived, NoHeader, StartTx, Returns
  <2>5. pc'[1] = pc[1] \/ (pc[1] = "none" /\ pc'[1] = "wait")
    <3>1. CASE ~Welcoming \/ client # 1
      BY <1>0, <2>4, <3>1
    <3>2. CASE Welcoming /\ client = 1
      <4>1. pc[1] = "none"
        BY <3>2 DEF TypeInv, TaskInv
      <4> QED
        BY <1>0, <2>4, <4>1
    <3> QED
      BY <3>1, <3>2
  <2> QED
    BY <2>1, <2>2, <2>3, <2>5, WholeSame
<1>2. ASSUME NEW t \in Tasks, Write(t) PROVE WholeInv'
  <2>1. /\ UNCHANGED << frames, client, pc >>
        /\ \A s \in Tasks : s # t => toWrite'[s] = toWrite[s]
        /\ \A f : Kind(f)' = Kind(f) /\ Units(f) \in Nat /\ Units(f)' \in Nat
                  /\ Units(f) <= Units(f)'
        /\ Units(frame[t])' + toWrite'[t] = Units(frame[t]) + toWrite[t]
        /\ toWrite[t] \in Nat /\ toWrite'[t] \in Nat /\ Sending(t)
    BY <1>2, WholeWrites
  <2> SUFFICES ASSUME client <= 1 PROVE WholeInv'
    BY <2>1 DEF WholeInv
  <2>2. Len(frames)' = Len(frames)
    BY <2>1
  <2>3. ASSUME NEW f \in 1 .. Len(frames), Kind(f) \in {WIRE_CHUNK, TIME}
        PROVE  pc'[1] # "none" /\ (f < Len(frames) \/ pc'[1] = "wait" => ~Cut(f)')
    <3>1. pc'[1] # "none" /\ (f < Len(frames) \/ pc'[1] = "wait" => ~Cut(f))
      BY <2>1, <2>3 DEF WholeInv
    <3>2. ~Cut(f) => ~Cut(f)'
      <4>1. Length[Kind(f)] \in Nat /\ Units(f) \in Nat /\ Units(f)' \in Nat
            /\ Units(f) <= Units(f)' /\ Kind(f)' = Kind(f)
        BY <1>0, <2>1
      <4>2. Cut(f) <=> Units(f) < Length[Kind(f)]
        BY DEF Cut
      <4>3. Cut(f)' <=> Units(f)' < Length[Kind(f)]
        BY <4>1 DEF Cut
      <4> QED
        BY <4>1, <4>2, <4>3
    <3> QED
      BY <3>1, <3>2
  <2>4. ASSUME pc'[1] = "sending"
        PROVE  /\ Len(frames) > 0
               /\ Units(Len(frames))' + toWrite'[1] >= Length[Kind(Len(frames))]
    <3>1. pc[1] = "sending" /\ Len(frames) > 0
          /\ Units(Len(frames)) + toWrite[1] >= Length[Kind(Len(frames))]
      BY <2>1, <2>4 DEF WholeInv
    <3>2. Length[Kind(Len(frames))] \in Nat
      BY <1>0, <3>1
    <3>3. /\ Units(Len(frames)) \in Nat /\ Units(Len(frames))' \in Nat
          /\ Units(Len(frames)) <= Units(Len(frames))'
      BY <2>1, <2>2
    <3>4. CASE t = 1
      <4>1. frame[t] = Len(frames) /\ frame' = frame
        BY <1>2, <2>1 DEF OrderInv, Write
      <4>2. Units(Len(frames))' + toWrite'[1] = Units(Len(frames)) + toWrite[1]
        BY <2>1, <2>2, <3>4, <4>1
      <4> QED
        BY <3>1, <4>2
    <3>5. CASE t # 1
      <4>1. toWrite'[1] = toWrite[1] /\ toWrite[1] \in Nat
        BY <1>0, <2>1, <3>5
      <4> QED
        BY <3>1, <3>2, <3>3, <4>1
    <3> QED
      BY <3>4, <3>5
  <2>5. Kind(Len(frames))' = Kind(Len(frames))
    BY <2>1 DEF Kind
  <2> QED
    BY <2>1, <2>2, <2>3, <2>4, <2>5 DEF WholeInv
<1>3. ASSUME NEW t \in Tasks, Refused(t) PROVE WholeInv'
  <2>1. UNCHANGED << client, frames, wire, toWrite, pc >>
    BY <1>3 DEF Refused, receiving
  <2> QED
    BY <1>0, <2>1, WholeSame
<1>4. CASE SendSettings \/ SendHeader
  <2>1. PICK type \in {SERVER_SETTINGS, CODEC_HEADER} : Adds(Handler, type)
    BY <1>4, WelcomeAdds
  <2>2. client' = client /\ Welcoming
        /\ \E p \in HandlerPlaces : pc' = [pc EXCEPT ![Handler] = p]
    BY <1>4 DEF SendSettings, SendHeader, receiving, Welcoming, HandlerPlaces
  <2> SUFFICES ASSUME client <= 1 PROVE WholeInv'
    BY <2>2 DEF WholeInv
  <2>3. pc[1] = "none" /\ pc'[1] = "none"
    BY <1>0, <2>2, OneSender
  <2>4. /\ \A f \in 1 .. Len(frames) : Kind(f)' = Kind(f)
        /\ Len(frames') = Len(frames) + 1
        /\ \A f : f = Len(frames) + 1 => Kind(f)' = type
    BY <2>1, WholeAdds
  <2>5. \A f \in 1 .. Len(frames) : Kind(f) \notin {WIRE_CHUNK, TIME}
    BY <2>3 DEF WholeInv
  <2>6. ASSUME NEW f \in 1 .. Len(frames') PROVE Kind(f)' \notin {WIRE_CHUNK, TIME}
    <3>1. CASE f = Len(frames) + 1
      BY <2>4, <3>1 DEF SERVER_SETTINGS, CODEC_HEADER, WIRE_CHUNK, TIME
    <3>2. CASE f # Len(frames) + 1
      <4>1. f \in 1 .. Len(frames)
        BY <1>0, <2>4, <3>2
      <4> QED
        BY <2>4, <2>5, <4>1
    <3> QED
      BY <3>1, <3>2
  <2> QED
    BY <2>3, <2>6 DEF WholeInv
<1>5. ASSUME NEW t \in TxTasks, SendChunk(t) \/ AnswerTime(t) PROVE WholeInv'
  <2>1. PICK type \in {WIRE_CHUNK, TIME} : Adds(t, type)
    BY <1>5, TxAdds
  <2>2. /\ client' = client /\ pc[t] = "wait" /\ pc' = [pc EXCEPT ![t] = "sending"]
    BY <1>5 DEF SendChunk, AnswerTime, receiving
  <2> SUFFICES ASSUME client <= 1 PROVE WholeInv'
    BY <2>2 DEF WholeInv
  <2>3. t = 1 /\ pc[1] = "wait" /\ pc'[1] = "sending"
    BY <1>0, <2>2, OneSender
  <2>4. /\ \A f \in 1 .. Len(frames) : Kind(f)' = Kind(f) /\ (Cut(f)' <=> Cut(f))
        /\ Len(frames') = Len(frames) + 1
        /\ \A f : f = Len(frames) + 1 => Kind(f)' = type /\ Units(f)' \in Nat
        /\ toWrite'[1] = Length[type]
    BY <2>1, <2>3, WholeAdds
  <2>5. ASSUME NEW f \in 1 .. Len(frames'), f < Len(frames'), Kind(f)' \in {WIRE_CHUNK, TIME}
        PROVE  ~Cut(f)'
    <3>1. f \in 1 .. Len(frames)
      BY <1>0, <2>4, <2>5
    <3> QED
      BY <2>3, <2>4, <2>5, <3>1 DEF WholeInv
  <2>6. Units(Len(frames))' + toWrite'[1] >= Length[Kind(Len(frames))]'
    <3>1. PICK f : f = Len(frames')
      OBVIOUS
    <3>2. f = Len(frames) + 1
      BY <2>4, <3>1
    <3>3. Kind(f)' = type /\ Units(f)' \in Nat /\ toWrite'[1] = Length[type]
      BY <2>4, <3>2
    <3>4. Length[type] \in Nat
      BY ConstantTypes DEF Answers
    <3>5. Units(f)' + toWrite'[1] >= Length[Kind(f)']
      BY <3>3, <3>4
    <3>6. Units(Len(frames))' = Units(f)' /\ Kind(Len(frames))' = Kind(f)'
      BY <3>1 DEF Units, Kind
    <3>7. Length[Kind(Len(frames))]' = Length[Kind(f)']
      BY <3>6
    <3> QED
      BY <3>5, <3>6, <3>7
  <2>7. Len(frames') > 0
    BY <1>0, <2>4
  <2> QED
    BY <2>3, <2>5, <2>6, <2>7 DEF WholeInv
<1>6. ASSUME NEW t \in TxTasks, AnswerNoMemory(t) \/ AnswerCut(t) PROVE WholeInv'
  <2>1. /\ UNCHANGED << client, frames, wire >> /\ pc' = [pc EXCEPT ![t] = "deleted"]
        /\ toWrite' \in {toWrite, [toWrite EXCEPT ![t] = 0]}
    BY <1>6 DEF AnswerNoMemory, AnswerCut, Returns, receiving
  <2>2. \/ pc'[1] = "deleted"
        \/ pc'[1] = pc[1] /\ toWrite'[1] = toWrite[1]
    BY <1>0, <2>1
  <2>3. client' \in Nat /\ client' >= client
    BY <1>0, <2>1
  <2> QED
    BY <2>1, <2>2, <2>3, WholeSame
<1>7. ASSUME NEW t \in TxTasks, AnswerSent(t) PROVE WholeInv'
  <2>1. /\ UNCHANGED << client, frames, wire >> /\ pc[t] = "sending" /\ toWrite[t] = 0
        /\ pc' = [pc EXCEPT ![t] = "wait"]
    BY <1>7 DEF AnswerSent, Sent, Returns, receiving
  <2> SUFFICES ASSUME client <= 1 PROVE WholeInv'
    BY <2>1 DEF WholeInv
  <2>2. t = 1 /\ pc'[1] = "wait" /\ pc[1] = "sending" /\ toWrite[1] = 0
    BY <1>0, <2>1, OneSender
  <2>3. \A f : Kind(f)' = Kind(f) /\ (Cut(f)' <=> Cut(f))
    BY <2>1 DEF Kind, Cut, Units
  <2>4. Len(frames) > 0 /\ Units(Len(frames)) + toWrite[1] >= Length[Kind(Len(frames))]
    BY <2>2 DEF WholeInv
  <2>5. ~Cut(Len(frames))
    <3>1. Units(Len(frames)) \in Nat /\ Length[Kind(Len(frames))] \in Nat
      BY <1>0, <2>4, UnitsType
    <3>2. ~(Units(Len(frames)) < Length[Kind(Len(frames))])
      BY <2>2, <2>4, <3>1
    <3> QED
      BY <3>2 DEF Cut
  <2>6. ASSUME NEW f \in 1 .. Len(frames), Kind(f) \in {WIRE_CHUNK, TIME} PROVE ~Cut(f)
    <3>1. f < Len(frames) => ~Cut(f)
      BY <2>6 DEF WholeInv
    <3> QED
      BY <1>0, <2>5, <3>1
  <2> QED
    BY <2>1, <2>2, <2>3, <2>6 DEF WholeInv
<1> QED
  BY <1>1, <1>2, <1>3, <1>4, <1>5, <1>6, <1>7 DEF SocketNext, Socket

\* There is no frame at the start.
LEMMA WholeInit == SocketInit => WholeInv
BY TaskNumbers, EmptySeq DEF SocketInit, WholeInv

\* The client loses its place in the stream only while it is being welcomed.
THEOREM OnlyAWelcomeIsCut == SocketSpec => []OnlyWelcomeCut
<1>1. SocketSpec => [](TypeInv /\ OrderInv /\ WholeInv)
  BY TypeInit, TypeNext, OrderInit, OrderNext, WholeInit, WholeNext, PTL DEF SocketSpec
<1>2. TypeInv /\ OrderInv /\ WholeInv => OnlyWelcomeCut
  <2> SUFFICES ASSUME TypeInv, OrderInv, WholeInv, client <= 1, NEW i \in DOMAIN wire,
                      wire[i] < wire[Len(wire)], Cut(wire[i])
               PROVE  Kind(wire[i]) \in {SERVER_SETTINGS, CODEC_HEADER}
    BY DEF OnlyWelcomeCut
  <2>1. /\ wire \in Seq(1 .. Len(frames)) /\ Len(frames) \in Nat
        /\ \A f \in 1 .. Len(frames) : Kind(f) \in Answers
    BY LenProperties DEF TypeInv, OutTypes
  <2>2. DOMAIN wire = 1 .. Len(wire) /\ Len(wire) \in Nat
    BY <2>1
  <2>3. wire[i] \in 1 .. Len(frames) /\ wire[Len(wire)] \in 1 .. Len(frames)
    BY <2>1, <2>2
  <2>4. wire[i] < Len(frames)
    BY <2>1, <2>3
  <2>5. Kind(wire[i]) \notin {WIRE_CHUNK, TIME}
    BY <2>3, <2>4 DEF WholeInv
  <2> QED
    BY <2>1, <2>3, <2>5 DEF Answers
<1> QED
  BY <1>1, <1>2, PTL

-----------------------------------------------------------------------------
(* The sequences of a sequence behind each other.                          *)

\* e are the first n of d's sequences joined, one more at a time.
FlatTo(d, n, e) == e = [i \in 1 .. n |-> IF i = 1 THEN d[i] ELSE e[i - 1] \o d[i]]

\* The recursion of FlattenSeq has a solution.
LEMMA FlatExist == \A d : \A n \in Nat : \E e : FlatTo(d, n, e)
<1> SUFFICES ASSUME NEW d, {n \in Nat : ~\E e : FlatTo(d, n, e)} # {} PROVE FALSE
  OBVIOUS
<1>1. PICK n \in Nat : /\ ~(\E e : FlatTo(d, n, e))
                       /\ \A i \in Nat : ~(\E e : FlatTo(d, i, e)) => n <= i
  BY LeastExists
<1>2. CASE n = 0
  <2>1. FlatTo(d, 0, [i \in 1 .. 0 |-> 0])
    BY DEF FlatTo
  <2> QED
    BY <1>1, <1>2, <2>1
<1>3. CASE n # 0
  <2>1. PICK e : FlatTo(d, n - 1, e)
    BY <1>1, <1>3
  <2> DEFINE f == [i \in 1 .. n |-> IF i = 1 THEN d[i] ELSE e[i - 1] \o d[i]]
  <2>2. e = [i \in 1 .. n - 1 |-> IF i = 1 THEN d[i] ELSE e[i - 1] \o d[i]]
    BY <2>1 DEF FlatTo
  <2>3. \A i \in 1 .. n - 1 : f[i] = e[i]
    <3> TAKE i \in 1 .. n - 1
    <3>1. e[i] = IF i = 1 THEN d[i] ELSE e[i - 1] \o d[i]
      BY <2>2, Zenon
    <3>2. i \in 1 .. n
      BY <1>3
    <3>3. f[i] = IF i = 1 THEN d[i] ELSE e[i - 1] \o d[i]
      BY <3>2, Zenon
    <3> QED
      BY <3>1, <3>3, Zenon
  <2>4. \A i \in 1 .. n : i # 1 => f[i - 1] = e[i - 1]
    <3> HIDE DEF f
    <3> TAKE i \in 1 .. n
    <3>1. i # 1 => i - 1 \in 1 .. n - 1
      OBVIOUS
    <3> QED
      BY <2>3, <3>1, Zenon
  <2>5. f = [i \in 1 .. n |-> IF i = 1 THEN d[i] ELSE e[i - 1] \o d[i]]
    OBVIOUS
  <2> HIDE DEF f
  <2>6. f = [i \in 1 .. n |-> IF i = 1 THEN d[i] ELSE f[i - 1] \o d[i]]
    BY <2>4, <2>5
  <2>7. FlatTo(d, n, f)
    BY <2>6 DEF FlatTo
  <2> QED
    BY <1>1, <2>7
<1> QED
  BY <1>2, <1>3

\* So FlattenSeq takes the last of them.
LEMMA FlatIs ==
  ASSUME NEW d, Len(d) \in Nat \ {0}
  PROVE  \E e : FlatTo(d, Len(d), e) /\ Seqs!FlattenSeq(d) = e[Len(d)]
<1> DEFINE flat == CHOOSE e : e = [i \in 1 .. Len(d) |-> IF i = 1 THEN d[i] ELSE e[i - 1] \o d[i]]
<1>1. \E e : e = [i \in 1 .. Len(d) |-> IF i = 1 THEN d[i] ELSE e[i - 1] \o d[i]]
  BY FlatExist DEF FlatTo
<1>2. FlatTo(d, Len(d), flat)
  BY <1>1, Zenon DEF FlatTo
<1>3. Seqs!FlattenSeq(d) = flat[Len(d)]
  BY Zenon DEF Seqs!FlattenSeq
<1> QED
  BY <1>2, <1>3

\* One more sequence goes behind the others.
LEMMA FlattenAppend ==
  ASSUME NEW S, NEW d \in Seq(Seq(S)), NEW x \in Seq(S)
  PROVE  /\ Seqs!FlattenSeq(d) \in Seq(S)
         /\ Seqs!FlattenSeq(Append(d, x)) = Seqs!FlattenSeq(d) \o x
<1> DEFINE more == Append(d, x)
           last == Len(d)
<1>1. /\ last \in Nat /\ Len(more) = last + 1 /\ more[last + 1] = x
      /\ \A i \in 1 .. last : more[i] = d[i] /\ d[i] \in Seq(S)
  OBVIOUS
<1> HIDE DEF more
<1>2. PICK f : FlatTo(more, last + 1, f) /\ Seqs!FlattenSeq(more) = f[last + 1]
  BY <1>1, FlatIs
<1>3. f[last + 1] = IF last + 1 = 1 THEN more[last + 1] ELSE f[(last + 1) - 1] \o more[last + 1]
  <2>1. f = [i \in 1 .. last + 1 |-> IF i = 1 THEN more[i] ELSE f[i - 1] \o more[i]]
    BY <1>2, Zenon DEF FlatTo
  <2>2. last + 1 \in 1 .. last + 1
    BY <1>1
  <2> QED
    BY <2>1, <2>2, Zenon
<1>4. CASE last = 0
  <2>1. d = << >>
    BY <1>4
  <2>2. Seqs!FlattenSeq(d) = << >>
    BY <2>1, <1>4 DEF Seqs!FlattenSeq
  <2>3. Seqs!FlattenSeq(more) = x
    BY <1>1, <1>2, <1>3, <1>4
  <2> QED
    BY <2>2, <2>3 DEF more
<1>5. CASE last # 0
  <2>1. last \in Nat \ {0}
    BY <1>1, <1>5
  <2>2. PICK e : FlatTo(d, last, e) /\ Seqs!FlattenSeq(d) = e[last]
    BY <2>1, FlatIs
  <2>3. e[last] \in Seq(S) /\ f[last] = e[last]
    <3> DEFINE Bad(i) == ~(i \in 1 .. last => e[i] \in Seq(S) /\ f[i] = e[i])
    <3> SUFFICES ASSUME {i \in Nat : Bad(i)} # {} PROVE FALSE
      BY <2>1
    <3> HIDE DEF Bad
    <3>1. PICK i \in Nat : Bad(i) /\ \A j \in Nat : Bad(j) => i <= j
      BY LeastExists
    <3>2. /\ i \in 1 .. last /\ i \in 1 .. last + 1 /\ ~(e[i] \in Seq(S) /\ f[i] = e[i])
          /\ more[i] = d[i] /\ d[i] \in Seq(S)
      BY <1>1, <3>1 DEF Bad
    <3> HIDE DEF last
    <3>3. e[i] = IF i = 1 THEN d[i] ELSE e[i - 1] \o d[i]
      BY <2>2, <3>2, Zenon DEF FlatTo
    <3>4. f[i] = IF i = 1 THEN more[i] ELSE f[i - 1] \o more[i]
      BY <1>2, <3>2, Zenon DEF FlatTo
    <3>5. CASE i = 1
      BY <3>2, <3>3, <3>4, <3>5
    <3>6. CASE i # 1
      <4>1. i - 1 \in Nat /\ i - 1 \in 1 .. last /\ ~(i <= i - 1)
        BY <1>1, <3>2, <3>6
      <4>2. e[i - 1] \in Seq(S) /\ f[i - 1] = e[i - 1]
        BY <3>1, <4>1 DEF Bad
      <4>3. e[i] = e[i - 1] \o d[i] /\ f[i] = e[i]
        BY <3>2, <3>3, <3>4, <3>6, <4>2
      <4> QED
        BY <3>2, <4>2, <4>3
    <3> QED
      BY <3>5, <3>6
  <2>4. f[last + 1] = f[last] \o x
    BY <1>1, <1>3, <1>5
  <2> QED
    BY <1>2, <2>2, <2>3, <2>4 DEF more
<1> QED
  BY <1>4, <1>5

\* A function on 1 .. n + 1 joins what the shorter one joins, and its last sequence.
LEMMA FlattenLast ==
  ASSUME NEW S, NEW n \in Nat, NEW h \in [1 .. n + 1 -> Seq(S)]
  PROVE  LET g == [i \in 1 .. n |-> h[i]]
         IN  /\ Seqs!FlattenSeq(g) \in Seq(S)
             /\ Seqs!FlattenSeq(h) = Seqs!FlattenSeq(g) \o h[n + 1]
<1> DEFINE g == [i \in 1 .. n |-> h[i]]
           x == h[n + 1]
<1>1. g \in Seq(Seq(S)) /\ Len(g) = n /\ x \in Seq(S) /\ \A i \in 1 .. n : g[i] = h[i]
  <2>1. g \in [1 .. n -> Seq(S)]
    OBVIOUS
  <2> QED
    BY <2>1, FunctionIsSeq
<1>2. h = Append(g, x)
  <2> HIDE DEF g
  <2>1. \A i \in 1 .. n + 1 : h[i] = Append(g, x)[i]
    BY <1>1
  <2>2. Append(g, x) \in Seq(Seq(S)) /\ Len(Append(g, x)) = n + 1
    BY <1>1
  <2>3. Append(g, x) \in [1 .. n + 1 -> Seq(S)]
    BY <2>2, LenProperties
  <2> QED
    BY <2>1, <2>3
<1> HIDE DEF g, x
<1>3. Seqs!FlattenSeq(g) \in Seq(S) /\ Seqs!FlattenSeq(Append(g, x)) = Seqs!FlattenSeq(g) \o x
  BY <1>1, FlattenAppend, Zenon
<1> QED
  BY <1>2, <1>3, Zenon DEF g, x

\* Nothing joined is nothing.
LEMMA FlattenNone == \A h : Len(h) = 0 => Seqs!FlattenSeq(h) = h
BY Zenon DEF Seqs!FlattenSeq

-----------------------------------------------------------------------------
(* Requests and answers.                                                   *)

\* What an answer may refer to.
References == Int \cup { DeserializeBaseMsg(m, ServerTime).refersTo : m \in Seq(Bytes) }

Greeted(k) == \E j \in 1 .. k : msgs[j] = HELLO

\* One more message of the client.
LEMMA TimesGrow ==
  ASSUME NEW k \in Nat \ {0}
  PROVE  /\ TimesOf(k - 1) \in Seq(References)
         /\ TimesOf(k) = TimesOf(k - 1) \o (IF msgs[k] = TIME /\ Greeted(k) THEN << k >> ELSE << >>)
<1> DEFINE h == [i \in 1 .. k |-> Asked(i)]
           n == k - 1
           g == [i \in 1 .. n |-> h[i]]
<1>1. n \in Nat /\ n + 1 = k
  OBVIOUS
<1>2. h \in [1 .. n + 1 -> Seq(References)]
  <2>1. \A i \in 1 .. k : Asked(i) \in Seq(References)
    <3> TAKE i \in 1 .. k
    <3>1. i \in References
      BY DEF References
    <3>2. << i >> \in Seq(References) /\ << >> \in Seq(References)
      BY <3>1
    <3> QED
      BY <3>2, Zenon DEF Asked
  <2> QED
    BY <1>1, <2>1
<1>3. g = [i \in 1 .. k - 1 |-> Asked(i)] /\ h[k] = Asked(k)
  OBVIOUS
<1>4. TimesOf(k) = Seqs!FlattenSeq(h) /\ TimesOf(k - 1) = Seqs!FlattenSeq(g)
  BY <1>3, Zenon DEF TimesOf
<1> HIDE DEF h, n
<1>5. Seqs!FlattenSeq(g) \in Seq(References) /\ Seqs!FlattenSeq(h) = Seqs!FlattenSeq(g) \o h[n + 1]
  BY <1>1, <1>2, FlattenLast, Zenon
<1> HIDE DEF g
<1> QED
  BY <1>1, <1>3, <1>4, <1>5, Zenon DEF Asked, Greeted

\* No message asks for nothing.
LEMMA TimesOfNone == TimesOf(0) = << >>
<1> DEFINE h == [i \in 1 .. 0 |-> Asked(i)]
<1>1. h = << >> /\ Len(h) = 0
  OBVIOUS
<1>2. TimesOf(0) = Seqs!FlattenSeq(h)
  BY DEF TimesOf
<1> HIDE DEF h
<1> QED
  BY <1>1, <1>2, FlattenNone

\* One more frame.
LEMMA AnswersGrow ==
  ASSUME NEW sent \in Seq(Seq(Bytes)), NEW more \in Seq(Seq(Bytes)), Len(more) = Len(sent) + 1,
         \A f \in 1 .. Len(sent) : more[f] = sent[f]
  PROVE  /\ AnswersIn(sent) \in Seq(References)
         /\ AnswersIn(more) = AnswersIn(sent) \o Answer(more[Len(sent) + 1])
<1> DEFINE n == Len(sent)
           h == [f \in 1 .. Len(more) |-> Answer(more[f])]
           g == [f \in 1 .. n |-> h[f]]
<1>1. n \in Nat /\ Len(more) = n + 1
  BY LenProperties
<1>2. \A f \in 1 .. n + 1 : Answer(more[f]) \in Seq(References)
  <2> TAKE f \in 1 .. n + 1
  <2>1. more[f] \in Seq(Bytes)
    BY <1>1
  <2>2. DeserializeBaseMsg(more[f], ServerTime).refersTo \in References
    BY <2>1, Zenon DEF References
  <2> QED
    BY <2>2 DEF Answer
<1>3. h \in [1 .. n + 1 -> Seq(References)]
  BY <1>1, <1>2
<1>4. g = [f \in 1 .. Len(sent) |-> Answer(sent[f])]
  <2>1. \A f \in 1 .. n : h[f] = Answer(sent[f])
    BY <1>1
  <2> QED
    BY <2>1
<1>5. AnswersIn(more) = Seqs!FlattenSeq(h) /\ AnswersIn(sent) = Seqs!FlattenSeq(g)
  BY <1>4, Zenon DEF AnswersIn
<1>6. h[n + 1] = Answer(more[n + 1])
  BY <1>1
<1> HIDE DEF h
<1>7. Seqs!FlattenSeq(g) \in Seq(References) /\ Seqs!FlattenSeq(h) = Seqs!FlattenSeq(g) \o h[n + 1]
  BY <1>1, <1>3, FlattenLast, Zenon
<1> QED
  BY <1>5, <1>6, <1>7, Zenon

-----------------------------------------------------------------------------
(* The turn of the answers.                                                *)

\* Of the first k messages: before the HELLO nothing is to be answered, and after it what
\* was answered and what waits in the queue are together the TIMEs that came.
InTurn(k) ==
  /\ client = 0 => ~Greeted(k) /\ frames = << >> /\ msgQ[1] = << >> /\ TimesOf(k) = << >>
  /\ client = 1 => Greeted(k)
  /\ client = 1 /\ pc[1] # "deleted" => AnswersOf(1) = TimesOf(k)

\* The message that the handler is at; a TIME is not yet in the queue while it waits for room.
TurnInv ==
  inStep =>
    /\ pc[Handler] = "base" =>
         \E k \in 0 .. MaxMessages : pos + need = End(k) + BaseUnits /\ InTurn(k)
    /\ pc[Handler] = "typed" =>
         \E k \in 1 .. MaxMessages : pos + need = End(k) /\ BaseOf(base, k) /\ InTurn(k - 1)
    /\ Welcoming =>
         need = BaseUnits /\ \E k \in 1 .. MaxMessages : pos = End(k) /\ InTurn(k)
    /\ pc[Handler] = "queue" =>
         /\ need = BaseUnits /\ base.type = TIME
         /\ \E k \in 1 .. MaxMessages : pos = End(k) /\ BaseOf(base, k) /\ InTurn(k - 1)

\* A message that is neither a HELLO nor to be answered.
LEMMA TurnPasses ==
  ASSUME NEW k \in 1 .. MaxMessages, InTurn(k - 1), msgs[k] # HELLO,
         msgs[k] # TIME \/ client = 0
  PROVE  InTurn(k)
<1>1. k \in Nat \ {0} /\ MaxMessages \in Nat
  BY ConstantTypes
<1>2. Greeted(k) <=> Greeted(k - 1)
  <2>1. 1 .. k = (1 .. k - 1) \cup {k}
    BY <1>1
  <2> QED
    BY <2>1 DEF Greeted
<1>3. ASSUME ~(msgs[k] = TIME /\ Greeted(k)) PROVE TimesOf(k) = TimesOf(k - 1)
  <2>1. TimesOf(k - 1) \in Seq(References) /\ TimesOf(k) = TimesOf(k - 1) \o << >>
    BY <1>1, <1>3, TimesGrow, Zenon
  <2>2. \A s \in Seq(References) : s \o << >> = s
    OBVIOUS
  <2> QED
    BY <2>1, <2>2, Zenon
<1> QED
  BY <1>2, <1>3, Zenon DEF InTurn

\* A HELLO, which gets the first record or another one.
LEMMA TurnBegins ==
  ASSUME TypeInv, NEW k \in 1 .. MaxMessages, InTurn(k - 1), msgs[k] = HELLO,
         client' = client + 1, UNCHANGED << msgs, frames, msgQ >>
  PROVE  InTurn(k)'
<1>1. k \in Nat \ {0} /\ MaxMessages \in Nat /\ client \in Nat
  BY ConstantTypes DEF TypeInv, InTypes
<1>2. client' # 0 /\ (client' = 1 => client = 0)
  BY <1>1
<1>3. Greeted(k) /\ msgs[k] # TIME
  <2>1. k \in 1 .. k
    BY <1>1
  <2> QED
    BY <2>1 DEF Greeted, HELLO, TIME
<1>4. TimesOf(k) = TimesOf(k - 1) \o << >>
  BY <1>1, <1>3, TimesGrow, Zenon
<1>5. TimesOf(k)' = TimesOf(k) /\ Greeted(k)' = Greeted(k)
  BY DEF TimesOf, Asked, Greeted
<1>6. ASSUME client = 0 PROVE AnswersOf(1)' = TimesOf(k)
  <2>1. frames' = << >> /\ msgQ'[1] = << >> /\ TimesOf(k - 1) = << >>
    BY <1>6 DEF InTurn
  <2>2. AnswersIn(<< >>) = << >> /\ IdsOf(<< >>) = << >>
    <3> DEFINE h == [f \in 1 .. Len(<< >>) |-> Answer(<< >>[f])]
    <3>1. h = << >> /\ Len(h) = 0
      OBVIOUS
    <3>2. AnswersIn(<< >>) = Seqs!FlattenSeq(h)
      BY DEF AnswersIn
    <3> HIDE DEF h
    <3>3. AnswersIn(<< >>) = << >>
      BY <3>1, <3>2, FlattenNone
    <3>4. IdsOf(<< >>) = << >>
      BY DEF IdsOf
    <3> QED
      BY <3>3, <3>4
  <2>3. AnswersOf(1)' = << >> \o << >>
    BY <2>1, <2>2, Zenon DEF AnswersOf
  <2> QED
    BY <1>4, <2>1, <2>3, Zenon
<1> QED
  BY <1>2, <1>3, <1>5, <1>6, Zenon DEF InTurn

\* Steps that take nothing from the stream.
LEMMA TurnSame ==
  ASSUME UNCHANGED << msgs, client >>,
         client = 0 => UNCHANGED << frames, msgQ >>,
         client = 1 /\ pc'[1] # "deleted" => pc[1] # "deleted" /\ AnswersOf(1)' = AnswersOf(1)
  PROVE  \A k : InTurn(k) => InTurn(k)'
<1>1. \A k : TimesOf(k)' = TimesOf(k) /\ Greeted(k)' = Greeted(k)
  BY DEF TimesOf, Asked, Greeted
<1> QED
  BY <1>1, Zenon DEF InTurn

\* The queue's ids, with one more request, and with the first one taken out.
LEMMA IdsChange ==
  ASSUME NEW q \in Seq(BaseMessageSet)
  PROVE  /\ IdsOf(q) \in Seq(Int)
         /\ \A b \in BaseMessageSet : IdsOf(Append(q, b)) = IdsOf(q) \o << b.id >>
         /\ q # << >> => IdsOf(q) = << Head(q).id >> \o IdsOf(Tail(q))
<1>1. Len(q) \in Nat /\ \A i \in 1 .. Len(q) : q[i] \in BaseMessageSet
  BY LenProperties, ElementOfSeq
<1>2. \A b \in BaseMessageSet : b.id \in Int
  BY DEF BaseMessageSet
<1>3. IdsOf(q) \in Seq(Int) /\ Len(IdsOf(q)) = Len(q) /\ \A i \in 1 .. Len(q) : IdsOf(q)[i] = q[i].id
  <2>1. IdsOf(q) \in [1 .. Len(q) -> Int]
    BY <1>1, <1>2 DEF IdsOf
  <2>2. \A i \in 1 .. Len(q) : IdsOf(q)[i] = q[i].id
    BY DEF IdsOf
  <2> QED
    BY <1>1, <2>1, <2>2, FunctionIsSeq
<1>4. ASSUME NEW b \in BaseMessageSet PROVE IdsOf(Append(q, b)) = IdsOf(q) \o << b.id >>
  <2> DEFINE p == Append(q, b)
             l == IdsOf(p)
             r == IdsOf(q) \o << b.id >>
  <2>1. /\ Len(p) = Len(q) + 1 /\ p[Len(q) + 1] = b /\ \A i \in 1 .. Len(q) : p[i] = q[i]
    OBVIOUS
  <2>2. b.id \in Int
    BY <1>2
  <2>3. /\ Len(r) = Len(q) + 1 /\ r[Len(q) + 1] = b.id
        /\ \A i \in 1 .. Len(q) : r[i] = IdsOf(q)[i]
        /\ r \in Seq(Int)
    BY <1>1, <1>3, <2>2
  <2> HIDE DEF p, r
  <2>4. l = [i \in 1 .. Len(q) + 1 |-> p[i].id]
    BY <2>1 DEF IdsOf
  <2>5. r = [i \in 1 .. Len(q) + 1 |-> r[i]]
    BY <2>3, LenProperties
  <2>6. \A i \in 1 .. Len(q) + 1 : r[i] = p[i].id
    <3> TAKE i \in 1 .. Len(q) + 1
    <3>1. i \in 1 .. Len(q) \/ i = Len(q) + 1
      BY <1>1
    <3> QED
      BY <1>3, <2>1, <2>3, <3>1
  <2> QED
    BY <2>4, <2>5, <2>6 DEF p, r
<1>5. ASSUME q # << >> PROVE IdsOf(q) = << Head(q).id >> \o IdsOf(Tail(q))
  <2> DEFINE p == Tail(q)
             n == Len(q) - 1
             r == << Head(q).id >> \o IdsOf(p)
  <2>1. /\ n \in Nat /\ Len(q) = n + 1 /\ Len(p) = n /\ Head(q) = q[1]
        /\ \A i \in 1 .. n : p[i] = q[i + 1]
    BY <1>5
  <2>2. \A i \in 1 .. n : i + 1 \in 1 .. Len(q)
    BY <2>1
  <2> HIDE DEF p
  <2>3. IdsOf(p) \in [1 .. n -> Int] /\ \A i \in 1 .. n : IdsOf(p)[i] = q[i + 1].id
    <3>1. IdsOf(p) = [i \in 1 .. n |-> p[i].id]
      BY <2>1 DEF IdsOf
    <3>2. \A i \in 1 .. n : p[i].id \in Int /\ p[i].id = q[i + 1].id
      BY <1>1, <1>2, <2>1, <2>2
    <3> QED
      BY <3>1, <3>2
  <2>4. IdsOf(p) \in Seq(Int) /\ Len(IdsOf(p)) = n
    BY <2>1, <2>3, FunctionIsSeq
  <2>5. q[1].id \in Int
    BY <1>1, <1>2, <2>1
  <2>6. /\ r \in Seq(Int) /\ Len(r) = n + 1 /\ r[1] = q[1].id
        /\ \A i \in 1 .. n : r[i + 1] = IdsOf(p)[i]
    <3>1. \A x \in Int, s \in Seq(Int) :
            /\ << x >> \o s \in Seq(Int) /\ Len(<< x >> \o s) = Len(s) + 1
            /\ (<< x >> \o s)[1] = x
            /\ \A i \in 1 .. Len(s) : (<< x >> \o s)[i + 1] = s[i]
      OBVIOUS
    <3>2. Head(q).id = q[1].id
      BY <2>1
    <3>3. PICK x \in Int, s \in Seq(Int) : x = Head(q).id /\ s = IdsOf(p)
      BY <2>4, <2>5, <3>2
    <3>4. r = << x >> \o s
      BY <3>3
    <3> HIDE DEF r, n
    <3> QED
      BY <2>4, <3>1, <3>2, <3>3, <3>4
  <2> HIDE DEF r, n
  <2>7. \A i \in 1 .. n + 1 : r[i] = q[i].id
    <3> TAKE i \in 1 .. n + 1
    <3>1. CASE i = 1
      BY <2>6, <3>1
    <3>2. CASE i # 1
      <4>1. i - 1 \in 1 .. n /\ (i - 1) + 1 = i
        BY <2>1, <3>2
      <4> QED
        BY <2>3, <2>6, <4>1
    <3> QED
      BY <3>1, <3>2
  <2>8. r = [i \in 1 .. n + 1 |-> r[i]]
    BY <2>6, LenProperties
  <2>9. IdsOf(q) = [i \in 1 .. n + 1 |-> q[i].id]
    BY <2>1 DEF IdsOf
  <2>10. IdsOf(q) = r
    BY <2>7, <2>8, <2>9
  <2> QED
    BY <2>10, Zenon DEF r, p
<1> QED
  BY <1>3, <1>4, <1>5

\* A message is begun that answers no TIME.
LEMMA TurnAdds ==
  ASSUME TypeInv, OutTypes', NEW t, NEW type \in {SERVER_SETTINGS, CODEC_HEADER, WIRE_CHUNK},
         Adds(t, type), client # 0, UNCHANGED receiving,
         pc'[1] # "deleted" => pc[1] # "deleted"
  PROVE  \A k : InTurn(k) => InTurn(k)'
<1> DEFINE m == frames'[Len(frames) + 1]
<1>1. Answer(m) = << >>
  <2>1. type # TIME
    BY DEF SERVER_SETTINGS, CODEC_HEADER, WIRE_CHUNK, TIME
  <2> QED
    BY <2>1, Zenon DEF Adds, WellBuilt, Answer
<1>2. PICK sent \in Seq(Seq(Bytes)), more \in Seq(Seq(Bytes)) : sent = frames /\ more = frames'
  BY DEF TypeInv, OutTypes
<1>3. Len(more) = Len(sent) + 1 /\ \A f \in 1 .. Len(sent) : more[f] = sent[f]
  BY <1>2 DEF Adds
<1>4. /\ AnswersIn(sent) \in Seq(References)
      /\ AnswersIn(more) = AnswersIn(sent) \o Answer(more[Len(sent) + 1])
  BY <1>3, AnswersGrow, Zenon
<1>5. \A s \in Seq(References) : s \o << >> = s
  OBVIOUS
<1>6. AnswersIn(frames') = AnswersIn(frames)
  BY <1>1, <1>2, <1>4, <1>5, Zenon
<1>7. msgs' = msgs /\ client' = client /\ msgQ' = msgQ
  BY DEF receiving
<1>8. AnswersOf(1)' = AnswersOf(1)
  BY <1>6, <1>7, Zenon DEF AnswersOf
<1> QED
  BY <1>7, <1>8, TurnSame, Zenon

\* The first request in the queue is answered.
LEMMA TurnAnswers ==
  ASSUME TypeInv, QueueInv, inStep, MaxMessages < Byte * Byte, NEW t \in TxTasks, AnswerTime(t)
  PROVE  \A k : InTurn(k) => InTurn(k)'
<1> USE TaskNumbers
<1> DEFINE b == Head(msgQ[t])
           m == TimeMessage(idCounter[t], b, ServerTime)
<1>1. /\ pc[t] = "wait" /\ pc' = [pc EXCEPT ![t] = "sending"] /\ msgQ[t] # << >>
      /\ msgQ' = [msgQ EXCEPT ![t] = Tail(msgQ[t])]
      /\ UNCHANGED << msgs, client, inStep >> /\ Begin(t, t, m)
  BY DEF AnswerTime
<1>2. b \in BaseMessageSet /\ \E k \in 1 .. MaxMessages : BaseOf(b, k)
  BY <1>1, QueueShrinks DEF AnswerTime
<1>3. idCounter[t] \in Nat /\ TIME \in Answers /\ t \in Tasks /\ OutTypes
  BY DEF TypeInv, OutTypes, Answers
<1>4. WellBuilt(m, TIME) /\ DeserializeBaseMsg(m, ServerTime).refersTo = b.id % (Byte * Byte)
  BY <1>2, <1>3, AnswersBuilt, Zenon
<1>5. b.id % (Byte * Byte) = b.id /\ b.id \in Int
  <2>1. PICK k \in 1 .. MaxMessages : BaseOf(b, k)
    BY <1>2
  <2>2. PICK s \in Nat : s = Byte * Byte /\ s >= 49
    BY Ranges
  <2>3. k \in Nat /\ k < s
    BY <2>2, ConstantTypes
  <2>4. k % s = k
    BY <2>2, <2>3
  <2> QED
    BY <2>1, <2>2, <2>3, <2>4 DEF BaseOf
<1>6. Answer(m) = << b.id >>
  BY <1>4, <1>5, Zenon DEF Answer, WellBuilt
<1> HIDE DEF m
<1>7. OutTypes' /\ Adds(t, TIME) /\ frames'[Len(frames) + 1] = m
  BY <1>1, <1>3, <1>4, BeginTypes
<1>8. PICK sent \in Seq(Seq(Bytes)), more \in Seq(Seq(Bytes)) : sent = frames /\ more = frames'
  BY <1>7 DEF TypeInv, OutTypes
<1>9. Len(more) = Len(sent) + 1 /\ \A f \in 1 .. Len(sent) : more[f] = sent[f]
  BY <1>7, <1>8 DEF Adds
<1>10. /\ AnswersIn(sent) \in Seq(References)
       /\ AnswersIn(more) = AnswersIn(sent) \o Answer(more[Len(sent) + 1])
  BY <1>9, AnswersGrow, Zenon
<1>11. AnswersIn(frames') = AnswersIn(frames) \o << b.id >> /\ AnswersIn(frames) \in Seq(References)
  BY <1>6, <1>7, <1>8, <1>10, Zenon
<1>12. client # 0 /\ (client = 1 => t = 1)
  <2>1. ~(t > client) /\ client \in 0 .. MaxHello
    BY <1>1 DEF TypeInv, InTypes, TaskInv
  <2> QED
    BY <2>1
<1>13. ASSUME client = 1 PROVE pc[1] # "deleted" /\ AnswersOf(1)' = AnswersOf(1)
  <2>1. t = 1 /\ msgQ[1] \in Seq(BaseMessageSet) /\ msgQ[1] # << >>
    BY <1>1, <1>12, <1>13 DEF TypeInv, InTypes
  <2>2. msgQ'[1] = Tail(msgQ[1]) /\ b = Head(msgQ[1])
    BY <1>1, <2>1 DEF TypeInv, InTypes
  <2> HIDE DEF b
  <2>3. /\ IdsOf(msgQ[1]) = << b.id >> \o IdsOf(Tail(msgQ[1]))
        /\ IdsOf(Tail(msgQ[1])) \in Seq(Int)
    <3>1. Tail(msgQ[1]) \in Seq(BaseMessageSet)
      BY <2>1
    <3>2. PICK q \in Seq(BaseMessageSet), p \in Seq(BaseMessageSet) :
            q = msgQ[1] /\ q # << >> /\ p = Tail(msgQ[1])
      BY <2>1, <3>1
    <3>3. IdsOf(q) = << Head(q).id >> \o IdsOf(Tail(q)) /\ IdsOf(p) \in Seq(Int)
      BY <3>2, IdsChange, Zenon
    <3> QED
      BY <2>2, <3>2, <3>3, Zenon
  <2>4. \A x \in Seq(References), y, z \in Seq(References) : (x \o y) \o z = x \o (y \o z)
    OBVIOUS
  <2>5. << b.id >> \in Seq(References) /\ IdsOf(Tail(msgQ[1])) \in Seq(References)
    <3>1. Int \subseteq References
      BY DEF References
    <3>2. PICK n \in Int : n = b.id
      BY <1>5 DEF b
    <3>3. << n >> \in Seq(References)
      BY <3>1
    <3>4. \A s \in Seq(Int) : s \in Seq(References)
      BY <3>1
    <3> QED
      BY <2>3, <3>2, <3>3, <3>4
  <2>6. AnswersOf(1)' = (AnswersIn(frames) \o << b.id >>) \o IdsOf(Tail(msgQ[1]))
    BY <1>11, <2>2, Zenon DEF AnswersOf, b
  <2>7. AnswersOf(1) = AnswersIn(frames) \o (<< b.id >> \o IdsOf(Tail(msgQ[1])))
    BY <2>3, Zenon DEF AnswersOf
  <2>8. AnswersIn(frames) \in Seq(References)
    BY <1>11
  <2> QED
    BY <1>1, <2>1, <2>4, <2>5, <2>6, <2>7, <2>8, Zenon
<1> QED
  BY <1>1, <1>12, <1>13, TurnSame, Zenon

\* Every step by which the handler takes nothing from the stream and queues nothing.
LEMMA TurnOut ==
  ASSUME TypeInv, QueueInv, inStep, MaxMessages < Byte * Byte, [SocketNext]_socketVars,
         ~TypedReceived, ~QueueTime
  PROVE  \A k : InTurn(k) => InTurn(k)'
<1> USE TaskNumbers
<1>0. /\ pc \in [Tasks -> HandlerPlaces \cup TxPlaces] /\ client \in 0 .. MaxHello
      /\ 1 \in Tasks /\ 1 # Handler
  BY DEF TypeInv, InTypes, TaskInv
<1>1. ASSUME UNCHANGED << msgs, client, frames, msgQ >>, pc'[1] # "deleted" => pc[1] # "deleted"
      PROVE  \A k : InTurn(k) => InTurn(k)'
  <2>1. AnswersOf(1)' = AnswersOf(1)
    BY <1>1, Zenon DEF AnswersOf
  <2> QED
    BY <1>1, <2>1, TurnSame, Zenon
<1>2. CASE \/ UNCHANGED socketVars \/ PeerTakes \/ PeerCloses \/ Close \/ ReceiveFails \/ Receive
           \/ BaseReceived
  <2>1. UNCHANGED << msgs, client, frames, msgQ >>
    BY <1>2 DEF socketVars, receiving, sending, PeerTakes, PeerCloses, Close, ReceiveFails, Receive,
                BaseReceived
  <2>2. pc'[1] = pc[1]
    BY <1>0, <1>2 DEF socketVars, PeerTakes, PeerCloses, Close, ReceiveFails, Receive, BaseReceived
  <2> QED
    BY <1>1, <2>1, <2>2
<1>3. CASE NoHeader \/ StartTx
  <2>1. UNCHANGED << msgs, client, frames, msgQ >>
    BY <1>3 DEF receiving, NoHeader, StartTx, Returns
  <2>2. pc' = [pc EXCEPT ![Handler] = "base", ![client] = "wait"] /\ Welcoming
    BY <1>3 DEF NoHeader, StartTx, Returns, Welcoming
  <2>3. pc[client] = "none" /\ client \in Tasks
    BY <1>0, <2>2 DEF TypeInv, TaskInv, Tasks, TxTasks
  <2>4. pc'[1] # "deleted" => pc[1] # "deleted"
    BY <1>0, <2>2, <2>3
  <2> QED
    BY <1>1, <2>1, <2>4
<1>4. ASSUME NEW t \in Tasks, Write(t) \/ Refused(t) PROVE \A k : InTurn(k) => InTurn(k)'
  <2>1. UNCHANGED << msgs, client, frames, msgQ, pc >>
    BY <1>4 DEF receiving, Write, Refused
  <2> QED
    BY <1>1, <2>1
<1>5. ASSUME NEW t \in TxTasks, AnswerSent(t) \/ AnswerCut(t)
      PROVE  \A k : InTurn(k) => InTurn(k)'
  <2>1. UNCHANGED << msgs, client, frames, msgQ >>
    BY <1>5 DEF receiving, AnswerSent, AnswerCut, Returns
  <2>2. pc'[1] # "deleted" => pc[1] # "deleted"
    BY <1>0, <1>5 DEF AnswerSent, AnswerCut, Returns
  <2> QED
    BY <1>1, <2>1, <2>2
<1>6. CASE SendSettings \/ SendHeader
  <2>1. PICK type \in {SERVER_SETTINGS, CODEC_HEADER} : Adds(Handler, type)
    BY <1>6, WelcomeAdds
  <2>2. UNCHANGED receiving /\ OutTypes' /\ client # 0
    BY <1>6, WelcomeAdds
  <2>3. pc'[1] = pc[1]
    BY <1>0, <1>6 DEF SendSettings, SendHeader
  <2> QED
    BY <2>1, <2>2, <2>3, TurnAdds
<1>7. ASSUME NEW t \in TxTasks, SendChunk(t) PROVE \A k : InTurn(k) => InTurn(k)'
  <2> DEFINE m == WireChunkMessage(idCounter[t], ServerTime, ServerTime, Payload)
  <2>1. idCounter[t] \in Nat /\ t \in Tasks /\ OutTypes /\ UNCHANGED receiving
    BY <1>7 DEF TypeInv, OutTypes, SendChunk
  <2>2. WellBuilt(m, WIRE_CHUNK)
    <3>1. PICK b : b \in BaseMessageSet
      BY DEF TypeInv, InTypes
    <3> QED
      BY <2>1, <3>1, AnswersBuilt, Zenon
  <2>3. Begin(t, t, m) /\ WIRE_CHUNK \in Answers
    BY <1>7 DEF SendChunk, Answers
  <2> HIDE DEF m
  <2>4. OutTypes' /\ Adds(t, WIRE_CHUNK)
    BY <2>1, <2>2, <2>3, BeginTypes
  <2>5. pc[t] = "wait" /\ pc' = [pc EXCEPT ![t] = "sending"]
    BY <1>7 DEF SendChunk
  <2>6. client # 0 /\ (pc'[1] # "deleted" => pc[1] # "deleted")
    BY <1>0, <2>5 DEF TypeInv, TaskInv
  <2> QED
    BY <2>1, <2>4, <2>6, TurnAdds
<1>8. ASSUME NEW t \in TxTasks, AnswerTime(t) PROVE \A k : InTurn(k) => InTurn(k)'
  BY <1>8, TurnAnswers
<1>9. ASSUME NEW t \in TxTasks, AnswerNoMemory(t) PROVE \A k : InTurn(k) => InTurn(k)'
  <2>1. /\ pc[t] = "wait" /\ pc' = [pc EXCEPT ![t] = "deleted"] /\ UNCHANGED << msgs, client >>
    BY <1>9 DEF AnswerNoMemory
  <2>2. client # 0 /\ (client = 1 => t = 1)
    BY <1>0, <2>1 DEF TypeInv, TaskInv
  <2>3. client = 1 => pc'[1] = "deleted"
    BY <1>0, <2>1, <2>2
  <2> QED
    BY <2>1, <2>2, <2>3, TurnSame, Zenon
<1> QED
  BY <1>2, <1>3, <1>4, <1>5, <1>6, <1>7, <1>8, <1>9 DEF SocketNext, Socket

\* A HELLO and a TIME have a body, so that the handler does not drop them as empty.
Bodied == \A type \in Messages \cap {HELLO, TIME} : BodySize[type] > 0

\* A base message arrived; one with an empty body is passed over.
LEMMA TurnBase ==
  ASSUME TypeInv, TurnInv, Bodied, BaseReceived, inStep', \A k : InTurn(k) => InTurn(k)'
  PROVE  TurnInv'
<1> USE TaskNumbers
<1>1. PICK b \in BaseMessages, allocated \in BOOLEAN :
        /\ base' = b
        /\ need' = IF allocated THEN b.size ELSE BaseUnits
        /\ pc' = [pc EXCEPT ![Handler] = IF allocated THEN "typed" ELSE "base"]
        /\ inStep' = (inStep /\ Arrived = Readable /\ (allocated \/ b.size = 0))
  BY DEF BaseReceived
<1>2. inStep /\ Arrived = Readable /\ (allocated \/ b.size = 0)
  BY <1>1
<1>3. pc[Handler] = "base" /\ need = 0 /\ UNCHANGED << msgs, pos, client >>
  BY DEF BaseReceived
<1>4. pos \in Nat /\ BaseUnits \in Nat \ {0} /\ MaxMessages \in Nat /\ msgs \in Streams
  <2>1. msgs \in Streams /\ MaxMessages \in Nat /\ BaseUnits \in Nat \ {0}
    BY ConstantTypes DEF TypeInv, InTypes
  <2>2. End(MaxMessages) \in Nat
    BY <2>1, EndsGrow DEF End
  <2> QED
    BY <2>1, <2>2 DEF TypeInv, InTypes
<1>5. PICK k \in 0 .. MaxMessages : pos + need = End(k) + BaseUnits /\ InTurn(k)
  BY <1>2, <1>3 DEF TurnInv
<1>6. /\ k + 1 \in 1 .. MaxMessages /\ Arrived = {k + 1}
      /\ End(k + 1) = pos + BodySize[msgs[k + 1]]
  <2>1. pos = End(k) + BaseUnits
    BY <1>3, <1>4, <1>5
  <2> QED
    BY <2>1, ArrivedOne
<1>7. b = DeserializeBaseMsg(BaseBytes(k + 1), ServerTime)
  BY <1>2, <1>6 DEF BaseMessages
<1>8. BaseOf(b, k + 1) /\ b.size = BodySize[msgs[k + 1]] /\ b.size \in Nat
  <2>1. b \in BaseMessageSet
    BY BaseTypes DEF TypeInv
  <2>2. BaseOf(b, k + 1)
    BY <1>4, <1>6, <1>7, BaseIsRead
  <2> QED
    BY <2>1, <2>2 DEF BaseOf, BaseMessageSet
<1>9. \A i : End(i)' = End(i)
  BY <1>3 DEF End
<1>10. BaseOf(base, k + 1)'
  BY <1>1, <1>3, <1>8 DEF BaseOf
<1>11. pc'[Handler] = IF allocated THEN "typed" ELSE "base"
  BY <1>1 DEF TypeInv, TaskInv
<1>12. CASE allocated
  <2>1. pos' + need' = End(k + 1)'
    BY <1>1, <1>3, <1>6, <1>8, <1>9, <1>12
  <2>2. pc'[Handler] = "typed"
    BY <1>11, <1>12
  <2>3. InTurn((k + 1) - 1)'
    <3>1. (k + 1) - 1 = k
      BY <1>4
    <3> QED
      BY <1>5, <3>1
  <2> QED
    BY <1>6, <1>10, <2>1, <2>2, <2>3 DEF TurnInv, Welcoming
<1>13. CASE ~allocated
  <2>1. b.size = 0
    BY <1>2, <1>13
  <2>2. need' = BaseUnits /\ pc'[Handler] = "base"
    BY <1>1, <1>11, <1>13
  <2>3. pos' + need' = End(k + 1)' + BaseUnits
    BY <1>3, <1>4, <1>6, <1>8, <1>9, <2>1, <2>2
  <2>4. msgs[k + 1] \in Messages
    BY <1>4, <1>6 DEF Streams
  <2>5. msgs[k + 1] \notin {HELLO, TIME}
    <3>1. PICK type \in Messages : type = msgs[k + 1]
      BY <2>4
    <3>2. BodySize[type] = 0
      BY <1>8, <2>1, <3>1
    <3>3. type \notin Messages \cap {HELLO, TIME}
      BY <3>2 DEF Bodied
    <3> QED
      BY <3>1, <3>3
  <2>6. InTurn(k + 1)
    <3>1. InTurn((k + 1) - 1)
      <4>1. (k + 1) - 1 = k
        BY <1>4
      <4> QED
        BY <1>5, <4>1
    <3>2. PICK i \in 1 .. MaxMessages : i = k + 1
      BY <1>6
    <3>3. InTurn(i - 1) /\ msgs[i] # HELLO /\ msgs[i] # TIME
      BY <2>5, <3>1, <3>2
    <3> QED
      BY <3>2, <3>3, TurnPasses
  <2>7. InTurn(k + 1)' /\ k + 1 \in 0 .. MaxMessages
    BY <1>6, <2>6
  <2> QED
    BY <2>2, <2>3, <2>7 DEF TurnInv, Welcoming
<1> QED
  BY <1>12, <1>13

\* A body was received.
LEMMA TurnTyped ==
  ASSUME TypeInv, TurnInv, TypedReceived, inStep
  PROVE  TurnInv'
<1> USE TaskNumbers
<1>1. /\ pc[Handler] = "typed" /\ need = 0 /\ need' = BaseUnits
      /\ client' = client + (IF base.type = HELLO THEN 1 ELSE 0)
      /\ UNCHANGED << msgs, pos, base, inStep, frames, msgQ >>
      /\ pc' = [pc EXCEPT ![Handler] = CASE base.type = HELLO -> "settings"
                                         [] base.type = TIME /\ client # 0 -> "queue"
                                         [] OTHER -> "base"]
  BY DEF TypedReceived, sending
<1>2. PICK k \in 1 .. MaxMessages : pos + need = End(k) /\ BaseOf(base, k) /\ InTurn(k - 1)
  BY <1>1 DEF TurnInv
<1>3. /\ pc \in [Tasks -> HandlerPlaces \cup TxPlaces] /\ client \in Nat
      /\ MaxMessages \in Nat /\ BaseUnits \in Nat \ {0} /\ pos \in Nat
  <2>1. msgs \in Streams /\ MaxMessages \in Nat /\ BaseUnits \in Nat \ {0}
    BY ConstantTypes DEF TypeInv, InTypes
  <2>2. End(MaxMessages) \in Nat
    BY <2>1, EndsGrow DEF End
  <2> QED
    BY <2>1, <2>2 DEF TypeInv, InTypes, TaskInv
<1>4. pos' = End(k)'
  BY <1>1, <1>2, <1>3 DEF End
<1>5. base.type = msgs[k] /\ BaseOf(base, k)'
  BY <1>1, <1>2 DEF BaseOf
<1>6. CASE base.type = HELLO
  <2>1. pc'[Handler] = "settings" /\ client' = client + 1
    <3>1. pc' = [pc EXCEPT ![Handler] = "settings"]
      BY <1>1, <1>6 DEF HELLO, TIME
    <3> QED
      BY <1>1, <1>3, <1>6, <3>1
  <2>2. InTurn(k)'
    BY <1>1, <1>2, <1>5, <1>6, <2>1, TurnBegins
  <2> QED
    BY <1>1, <1>4, <2>1, <2>2 DEF TurnInv, Welcoming
<1>7. CASE base.type = TIME /\ client # 0
  <2>1. pc'[Handler] = "queue" /\ client' = client
    BY <1>1, <1>3, <1>7 DEF TIME, HELLO
  <2>2. pc'[1] = pc[1]
    BY <1>1, <1>3
  <2>3. AnswersOf(1)' = AnswersOf(1)
    BY <1>1, Zenon DEF AnswersOf
  <2>4. InTurn(k - 1)'
    BY <1>1, <1>2, <2>1, <2>2, <2>3, TurnSame, Zenon
  <2> QED
    BY <1>1, <1>4, <1>5, <1>7, <2>1, <2>4 DEF TurnInv, Welcoming
<1>8. CASE base.type # HELLO /\ ~(base.type = TIME /\ client # 0)
  <2>1. pc'[Handler] = "base" /\ client' = client
    BY <1>1, <1>3, <1>8
  <2>2. InTurn(k)
    BY <1>2, <1>5, <1>8, TurnPasses
  <2>3. pc'[1] = pc[1]
    BY <1>1, <1>3
  <2>4. AnswersOf(1)' = AnswersOf(1)
    BY <1>1, Zenon DEF AnswersOf
  <2>5. InTurn(k)'
    BY <1>1, <2>1, <2>2, <2>3, <2>4, TurnSame, Zenon
  <2>6. pos' + need' = End(k)' + BaseUnits /\ k \in 0 .. MaxMessages
    BY <1>1, <1>3, <1>4
  <2> QED
    BY <2>1, <2>5, <2>6 DEF TurnInv, Welcoming
<1> QED
  BY <1>6, <1>7, <1>8

\* A TIME is put in the queue: there is room.
LEMMA TurnQueues ==
  ASSUME TypeInv, TurnInv, QueueTime, inStep, MaxMessages < Byte * Byte
  PROVE  TurnInv'
<1> USE TaskNumbers
<1>1. /\ pc[Handler] = "queue" /\ msgQ' = [msgQ EXCEPT ![client] = Append(msgQ[client], base)]
      /\ pc' = [pc EXCEPT ![Handler] = "base"]
      /\ UNCHANGED << msgs, pos, need, base, client, inStep, frames >>
  BY DEF QueueTime, sending
<1>2. need = BaseUnits /\ base.type = TIME
  BY <1>1 DEF TurnInv
<1>3. PICK k \in 1 .. MaxMessages : pos = End(k) /\ BaseOf(base, k) /\ InTurn(k - 1)
  BY <1>1 DEF TurnInv
<1>4. k \in Nat \ {0} /\ k \in 0 .. MaxMessages
  BY ConstantTypes
<1>5. client # 0 /\ client \in TxTasks /\ base \in BaseMessageSet /\ base.type = msgs[k]
  <2>1. client # 0 /\ client \in 0 .. MaxHello /\ base \in BaseMessageSet
    BY <1>1 DEF TypeInv, InTypes, TaskInv
  <2> QED
    BY <1>3, <2>1 DEF TxTasks, BaseOf
<1>6. base.id = k
  <2>1. PICK s \in Nat : s = Byte * Byte /\ s >= 49
    BY Ranges
  <2>2. k < s /\ k \in Nat
    BY <1>4, <2>1, ConstantTypes
  <2>3. k % s = k
    BY <2>1, <2>2
  <2> QED
    BY <1>3, <2>1, <2>3 DEF BaseOf
<1>7. pc'[Handler] = "base" /\ pc'[1] = pc[1]
  BY <1>1 DEF TypeInv, TaskInv
<1>8. ASSUME client = 1 PROVE Greeted(k) /\ (pc[1] # "deleted" => AnswersOf(1)' = TimesOf(k))
  <2>1. Greeted(k)
    <3>1. Greeted(k - 1)
      BY <1>3, <1>8 DEF InTurn
    <3>2. 1 .. k - 1 \subseteq 1 .. k
      BY <1>4
    <3> QED
      BY <3>1, <3>2 DEF Greeted
  <2>2. ASSUME pc[1] # "deleted" PROVE AnswersOf(1)' = TimesOf(k)
    <3>1. AnswersOf(1) = TimesOf(k - 1)
      BY <1>3, <1>8, <2>2 DEF InTurn
    <3>2. TimesOf(k) = TimesOf(k - 1) \o << k >>
      BY <1>2, <1>4, <1>5, <2>1, TimesGrow, Zenon
    <3>3. PICK q \in Seq(BaseMessageSet) : q = msgQ[1] /\ msgQ'[1] = Append(q, base)
      BY <1>1, <1>5, <1>8 DEF TypeInv, InTypes
    <3>4. IdsOf(q) \in Seq(Int) /\ IdsOf(Append(q, base)) = IdsOf(q) \o << base.id >>
      BY <1>5, IdsChange, Zenon
    <3>5. AnswersOf(1)' = AnswersIn(frames) \o (IdsOf(q) \o << k >>)
      BY <1>1, <1>6, <3>3, <3>4, Zenon DEF AnswersOf
    <3>6. AnswersIn(frames) \in Seq(References)
      <4>1. PICK sent \in Seq(Seq(Bytes)) : sent = frames
        BY DEF TypeInv, OutTypes
      <4>2. PICK more \in Seq(Seq(Bytes)) : /\ Len(more) = Len(sent) + 1
                                            /\ \A f \in 1 .. Len(sent) : more[f] = sent[f]
        <5>1. << >> \in Seq(Bytes)
          OBVIOUS
        <5>2. Append(sent, << >>) \in Seq(Seq(Bytes))
          BY <5>1
        <5>3. /\ Len(Append(sent, << >>)) = Len(sent) + 1
              /\ \A f \in 1 .. Len(sent) : Append(sent, << >>)[f] = sent[f]
          OBVIOUS
        <5> QED
          BY <5>2, <5>3
      <4> QED
        BY <4>1, <4>2, AnswersGrow, Zenon
    <3>7. IdsOf(q) \in Seq(References) /\ << k >> \in Seq(References)
      <4>1. Int \subseteq References
        BY DEF References
      <4>2. \A s \in Seq(Int) : s \in Seq(References)
        BY <4>1
      <4>3. k \in References
        BY <1>4, <4>1
      <4> QED
        BY <3>4, <4>2, <4>3
    <3>8. \A x \in Seq(References), y, z \in Seq(References) : x \o (y \o z) = (x \o y) \o z
      OBVIOUS
    <3>9. AnswersOf(1) = AnswersIn(frames) \o IdsOf(q)
      BY <3>3, Zenon DEF AnswersOf
    <3>10. AnswersIn(frames) \o (IdsOf(q) \o << k >>) = (AnswersIn(frames) \o IdsOf(q)) \o << k >>
      BY <3>6, <3>7, <3>8, Zenon
    <3> QED
      BY <3>1, <3>2, <3>5, <3>9, <3>10, Zenon
  <2> QED
    BY <2>1, <2>2
<1>9. InTurn(k)'
  <2>1. TimesOf(k)' = TimesOf(k) /\ Greeted(k)' = Greeted(k)
    BY <1>1 DEF TimesOf, Asked, Greeted
  <2>2. client' = client
    BY <1>1
  <2> QED
    BY <1>5, <1>7, <1>8, <2>1, <2>2, Zenon DEF InTurn
<1>10. pos' + need' = End(k)' + BaseUnits
  BY <1>1, <1>2, <1>3 DEF End
<1> QED
  BY <1>4, <1>7, <1>9, <1>10 DEF TurnInv, Welcoming

\* Every step keeps the turn.
LEMMA TurnNext ==
  ASSUME TypeInv, QueueInv, TurnInv, Bodied, MaxMessages < Byte * Byte, [SocketNext]_socketVars
  PROVE  TurnInv'
<1> USE TaskNumbers
<1> SUFFICES ASSUME inStep' PROVE TurnInv'
  BY DEF TurnInv
<1>1. inStep
  BY DEF SocketNext, Socket, socketVars, receiving, PeerTakes, PeerCloses, Receive, ReceiveFails,
     BaseReceived, TypedReceived, QueueTime, Close, Write, Refused, SendSettings, SendHeader,
     NoHeader, StartTx, SendChunk, AnswerTime, AnswerNoMemory, AnswerSent, AnswerCut
<1>2. CASE TypedReceived
  BY <1>1, <1>2, TurnTyped
<1>3. CASE QueueTime
  BY <1>1, <1>3, TurnQueues
<1>4. ASSUME ~TypedReceived, ~QueueTime PROVE \A k : InTurn(k) => InTurn(k)'
  BY <1>1, <1>4, TurnOut
<1>5. CASE BaseReceived
  <2>1. ~TypedReceived /\ ~QueueTime
    BY <1>5 DEF BaseReceived, TypedReceived, QueueTime
  <2> QED
    BY <1>4, <1>5, <2>1, TurnBase
<1>0. /\ pc \in [Tasks -> HandlerPlaces \cup TxPlaces] /\ need \in Nat
      /\ MaxMessages \in Nat /\ BaseUnits \in Nat \ {0} /\ pos \in Nat
  <2>1. msgs \in Streams /\ MaxMessages \in Nat /\ BaseUnits \in Nat \ {0}
    BY ConstantTypes DEF TypeInv, InTypes
  <2>2. End(MaxMessages) \in Nat
    BY <2>1, EndsGrow DEF End
  <2> QED
    BY <2>1, <2>2 DEF TypeInv, InTypes, TaskInv
<1>6. ASSUME \A k : InTurn(k) => InTurn(k)', UNCHANGED << msgs, base, inStep >>,
             pos' + need' = pos + need, Welcoming \/ pc[Handler] = "queue" => UNCHANGED << pos, need >>,
             \/ pc'[Handler] = pc[Handler] \/ (Welcoming /\ Welcoming')
             \/ pc'[Handler] \in {"closing", "closed"}
      PROVE  TurnInv'
  <2>1. \A k : End(k)' = End(k) /\ (BaseOf(base, k)' <=> BaseOf(base, k))
    BY <1>6 DEF End, BaseOf
  <2>2. CASE pc'[Handler] = pc[Handler]
    BY <1>6, <2>1, <2>2 DEF TurnInv, Welcoming
  <2>3. CASE Welcoming /\ Welcoming'
    BY <1>6, <2>1, <2>3 DEF TurnInv, Welcoming
  <2>4. CASE pc'[Handler] \in {"closing", "closed"}
    BY <2>4 DEF TurnInv, Welcoming
  <2> QED
    BY <1>6, <2>2, <2>3, <2>4
<1>7. CASE \/ UNCHANGED socketVars \/ PeerTakes \/ PeerCloses \/ Close \/ ReceiveFails
           \/ SendSettings \/ SendHeader
  <2>1. UNCHANGED receiving
    BY <1>7 DEF socketVars, PeerTakes, PeerCloses, Close, ReceiveFails, SendSettings, SendHeader
  <2>2. \/ pc'[Handler] = pc[Handler] \/ (Welcoming /\ Welcoming')
        \/ pc'[Handler] \in {"closing", "closed"}
    BY <1>0, <1>7 DEF socketVars, PeerTakes, PeerCloses, Close, ReceiveFails, SendSettings,
                      SendHeader, Welcoming
  <2>3. UNCHANGED << msgs, base, inStep, pos, need >>
    BY <2>1 DEF receiving
  <2>4. \A k : InTurn(k) => InTurn(k)'
    <3>1. CASE TypedReceived \/ QueueTime
      BY <1>7, <2>3, <3>1 DEF socketVars, PeerTakes, PeerCloses, Close, ReceiveFails, SendSettings,
            SendHeader, TypedReceived, QueueTime, receiving, TypeInv, TaskInv, Welcoming
    <3> QED
      BY <1>4, <3>1
  <2> QED
    BY <1>6, <2>2, <2>3, <2>4
<1>8. CASE Receive
  <2>1. /\ ~TypedReceived /\ ~QueueTime /\ UNCHANGED << msgs, base, inStep, pc >>
        /\ ~Welcoming /\ pc[Handler] # "queue"
    BY <1>0, <1>8 DEF Receive, Receiving, Welcoming, TypedReceived, QueueTime
  <2>2. pos' + need' = pos + need
    <3>1. PICK n \in 1 .. need : pos' = pos + n /\ need' = need - n
      BY <1>8 DEF Receive
    <3> QED
      BY <1>0, <3>1
  <2>3. \A k : InTurn(k) => InTurn(k)'
    BY <1>4, <2>1
  <2> QED
    BY <1>6, <2>1, <2>2, <2>3
<1>9. ASSUME NEW t \in Tasks, Write(t) \/ Refused(t) PROVE TurnInv'
  <2>1. UNCHANGED << receiving, pc >>
    BY <1>9 DEF Write, Refused
  <2>2. UNCHANGED << msgs, base, inStep, pos, need, client, msgQ, pc >>
    BY <2>1 DEF receiving
  <2>3. ~TypedReceived /\ ~QueueTime
    BY <1>0, <2>2 DEF TypedReceived, QueueTime
  <2>4. \A k : InTurn(k) => InTurn(k)'
    BY <1>4, <2>3
  <2> QED
    BY <1>6, <2>2, <2>4
<1>10. ASSUME NEW t \in TxTasks, \/ SendChunk(t) \/ AnswerTime(t) \/ AnswerNoMemory(t)
                                 \/ AnswerSent(t) \/ AnswerCut(t)
       PROVE  TurnInv'
  <2>1. UNCHANGED << msgs, base, inStep, pos, need, client >> /\ pc'[Handler] = pc[Handler]
    BY <1>0, <1>10 DEF SendChunk, AnswerTime, AnswerNoMemory, AnswerSent, AnswerCut, Returns, receiving
  <2>2. ~TypedReceived /\ ~QueueTime
    BY <1>0, <2>1 DEF TypedReceived, QueueTime
  <2>3. \A k : InTurn(k) => InTurn(k)'
    BY <1>4, <2>2
  <2> QED
    BY <1>6, <2>1, <2>3
<1>11. CASE NoHeader \/ StartTx
  <2>1. UNCHANGED << msgs, base, inStep, pos, need, client, msgQ >> /\ Welcoming
    BY <1>11 DEF NoHeader, StartTx, receiving, Welcoming
  <2>2. pc' = [pc EXCEPT ![Handler] = "base", ![client] = "wait"] /\ client # Handler
    BY <1>11, <2>1 DEF NoHeader, StartTx, Returns, TypeInv, TaskInv
  <2>3. pc'[Handler] = "base" /\ pc[Handler] # "base"
    BY <1>0, <2>1, <2>2 DEF Welcoming
  <2>4. ~TypedReceived /\ ~QueueTime
    BY <1>0, <2>1 DEF TypedReceived, QueueTime, Welcoming
  <2>5. PICK k \in 1 .. MaxMessages : pos = End(k) /\ InTurn(k) /\ need = BaseUnits
    BY <1>1, <2>1 DEF TurnInv
  <2>6. InTurn(k)' /\ End(k)' = End(k) /\ k \in 0 .. MaxMessages
    BY <1>0, <1>4, <2>1, <2>4, <2>5 DEF End
  <2>7. pos' + need' = End(k)' + BaseUnits
    BY <1>0, <2>1, <2>5, <2>6
  <2> QED
    BY <2>3, <2>6, <2>7 DEF TurnInv, Welcoming
<1> QED
  BY <1>2, <1>3, <1>5, <1>7, <1>8, <1>9, <1>10, <1>11 DEF SocketNext, Socket

LEMMA TurnInit == SocketInit => TurnInv
<1> SUFFICES ASSUME SocketInit PROVE TurnInv
  OBVIOUS
<1> USE TaskNumbers
<1>1. /\ pos = 0 /\ need = BaseUnits /\ client = 0 /\ pc[Handler] = "base"
      /\ msgs \in Streams
  BY DEF SocketInit, Conversations, Streams
<1>2. BaseUnits \in Nat /\ 0 \in 0 .. MaxMessages
  BY ConstantTypes
<1>3. pos + need = End(0) + BaseUnits
  BY <1>1, <1>2, EndStep DEF End
<1>4. ~Greeted(0)
  BY DEF Greeted
<1>5. frames = << >> /\ msgQ[1] = << >>
  BY DEF SocketInit
<1>6. InTurn(0)
  BY <1>1, <1>4, <1>5, TimesOfNone DEF InTurn
<1> QED
  BY <1>1, <1>2, <1>3, <1>6 DEF TurnInv, Welcoming

\* Every TIME that came is answered once and in its turn.  An id of a message is its
\* number only if ids do not wrap.
THEOREM TimesAreAnswered ==
  ASSUME Bodied, MaxMessages < Byte * Byte
  PROVE  SocketSpec => []TimesAnswered
<1>1. SocketInit => QueueInv /\ FramesRead
  BY EmptySeq DEF SocketInit, QueueInv, FramesRead
<1>2. TypeInv /\ StepInv /\ QueueInv /\ FramesRead /\ [SocketNext]_socketVars
        => QueueInv' /\ FramesRead'
  BY ReadNext
<1>3. TypeInv /\ QueueInv /\ TurnInv /\ [SocketNext]_socketVars => TurnInv'
  BY TurnNext
<1>4. SocketSpec => [](TypeInv /\ TurnInv)
  BY <1>1, <1>2, <1>3, TurnInit, StepInit, StepNext, TypeInit, TypeNext, PTL DEF SocketSpec
<1>5. TypeInv /\ TurnInv => TimesAnswered
  <2> SUFFICES ASSUME TypeInv, TurnInv, NEW k \in 0 .. Len(msgs),
                      inStep, client = 1, pc[1] \in {"wait", "sending"},
                      pc[Handler] = "base", need = BaseUnits, pos = End(k)
               PROVE  AnswersOf(1) = TimesOf(k)
    BY DEF TimesAnswered
  <2>1. /\ msgs \in Streams /\ MaxMessages \in Nat /\ BaseUnits \in Nat \ {0}
        /\ Len(msgs) = MaxMessages
    BY ConstantTypes, FunctionIsSeq DEF TypeInv, InTypes, Streams
  <2>2. \A i \in 0 .. MaxMessages : End(i) \in Nat /\ \A j \in 0 .. i - 1 : End(j) + BaseUnits <= End(i)
    BY <2>1, EndsGrow DEF End
  <2>3. PICK i \in 0 .. MaxMessages : pos + need = End(i) + BaseUnits /\ InTurn(i)
    BY DEF TurnInv
  <2>4. End(i) = End(k)
    BY <2>1, <2>2, <2>3
  <2>5. i = k
    BY <2>1, <2>2, <2>4
  <2> QED
    BY <2>3, <2>5 DEF InTurn
<1> QED
  BY <1>4, <1>5, PTL
=============================================================================
