------------------------------ MODULE SocketIO ------------------------------
(***************************************************************************)
(* One connection (snapserver.c): how the handler's task takes the         *)
(* client's messages from the stream, and how the answers get onto it.     *)
(*                                                                         *)
(* try_receive returns when it has all it wants: first a base message,     *)
(* then as many bytes as that announces.  A HELLO is answered with a       *)
(* settings and a header message and starts a tx task, whether or not they *)
(* were sent; a TIME goes to the tx task through msgQ.  socket_send writes *)
(* what the send buffer takes, and gives up on a message when the buffer   *)
(* was full too often.  The tx task sends until one message fails.         *)
(***************************************************************************)
EXTENDS WireFormat, FiniteSets

Seqs == INSTANCE SequencesExt

CONSTANTS
  BodySize,     \* the body that a client sends with each type of message
  BaseUnits,    \* pieces that the network may cut a base message into
  Length,       \* the length of each type of answer, in units of the send buffer
  Room,         \* the send buffer's capacity
  MaxRefused,   \* how often a message may meet a full buffer, 100
  QLen,         \* capacity of msgQ, 5
  Undefined,    \* types and sizes an uninitialised or misplaced base message may show
  MaxMessages,  \* bound: what the client sends
  MaxHello,     \* bound: tx tasks
  MaxFrames     \* bound: the tx tasks begin no message after so many

Answers == { SERVER_SETTINGS, CODEC_HEADER, WIRE_CHUNK, TIME }
Messages == DOMAIN BodySize

ASSUME SocketAssumption ==
  /\ Messages \subseteq 0 .. Byte * Byte - 1                 \* uint16_t type
  /\ BodySize \in [Messages -> 0 .. Word32 - 1]             \* uint32_t size
  /\ BaseUnits \in Nat \ {0}
  /\ Length \in [Answers -> Nat \ {0}] /\ Room \in Nat \ {0}
  /\ MaxRefused \in Nat /\ QLen \in Nat \ {0} /\ MaxMessages \in Nat
  /\ MaxHello \in Nat \ {0} /\ MaxFrames \in Nat
  /\ Undefined \subseteq [type : Nat, size : Nat]

VARIABLES
  msgs,         \* the types of the messages the client sends; some may never come
  pos,          \* units of them that the handler has received
  need,         \* what try_receive still waits for: max_len - rxLen
  base,         \* baseMessage
  client,       \* the client record in use, numbered; 0 is NULL
  msgQ,         \* of each record: the base messages of the TIMEs in its queue
  inStep,       \* history: no base message was refused, no body without memory so far
  open,         \* the peer has not closed the connection
  buffered,     \* units that the peer has not taken yet
  wire,         \* the frame that each unit sent belongs to, in the order sent
  frames,       \* the messages begun, as bytes; a frame is an index of this sequence
  idCounter,    \* of each record
  pc,           \* what each task does
  frame,        \* the frame each task sends
  toWrite,      \* to_write
  count         \* count, the refusals of this frame

receiving == << msgs, pos, need, base, client, msgQ, inStep >>
sending == << buffered, wire, frames, idCounter, frame, toWrite, count >>
socketVars == << receiving, sending, open, pc >>

TxTasks == 1 .. MaxHello
Tasks == TxTasks \cup {0}
Handler == 0

\* The clocks: the client's is behind and its messages are told apart by it.
ServerTime == [sec |-> 1, usec |-> 0]
ClientTime(k) == [sec |-> -k, usec |-> k]

\* What the client sends as its k-th message.
BaseBytes(k) ==
  BaseMessageSerialize([type |-> msgs[k], id |-> k, refersTo |-> 0, sent |-> ClientTime(k),
                        received |-> [sec |-> 0, usec |-> 0], size |-> BodySize[msgs[k]]],
                       BaseMessageSize)

\* Where the k-th message of a stream m ends.
Ends(m) ==
  LET end[k \in 0 .. MaxMessages] ==
        IF k = 0 THEN 0 ELSE end[k - 1] + BaseUnits + BodySize[m[k]]
  IN  end

End(k) == Ends(msgs)[k]

NoMessage ==
  LET zero == [sec |-> 0, usec |-> 0]
  IN  [type |-> 0, id |-> 0, refersTo |-> 0, sent |-> zero, received |-> zero, size |-> 0]

\* A snapclient says HELLO once, and TIME again and again.
Conversations ==
  { m \in [1 .. MaxMessages -> Messages] :
      \A j, k \in DOMAIN m : m[j] = m[k] /\ m[j] # TIME => j = k }

SocketInit ==
  /\ msgs \in Conversations /\ pos = 0 /\ need = BaseUnits
  /\ base = NoMessage /\ client = 0
  /\ msgQ = [r \in TxTasks |-> << >>]
  /\ inStep = TRUE
  /\ open = TRUE /\ buffered = 0 /\ wire = << >> /\ frames = << >>
  /\ idCounter = [r \in TxTasks |-> 0]
  /\ pc = [t \in Tasks |-> IF t = Handler THEN "base" ELSE "none"]
  /\ frame = [t \in Tasks |-> 0]
  /\ toWrite = [t \in Tasks |-> 0]
  /\ count = [t \in Tasks |-> 0]

-----------------------------------------------------------------------------
(* The peer.                                                               *)

PeerTakes ==
  /\ open
  /\ \E n \in 1 .. buffered : buffered' = buffered - n
  /\ UNCHANGED << receiving, wire, frames, idCounter, frame, toWrite, count, open, pc >>

PeerCloses ==
  /\ open
  /\ open' = FALSE
  /\ UNCHANGED << receiving, sending, pc >>

-----------------------------------------------------------------------------
(* try_receive, called by the handler.                                     *)

Receiving == pc[Handler] \in {"base", "typed"}

\* Variant: returns with what the first recv gave.
ReceiveOnce ==
  /\ Receiving
  /\ \E n \in 1 .. need :
       /\ pos + n <= End(Len(msgs))
       /\ pos' = pos + n
       /\ need' = 0
  /\ UNCHANGED << msgs, base, client, msgQ, inStep, sending, open, pc >>

\* recv gives any part of what has come.
Receive ==
  /\ Receiving
  /\ \E n \in 1 .. need :
       /\ pos + n <= End(Len(msgs))
       /\ pos' = pos + n
       /\ need' = need - n
  /\ UNCHANGED << msgs, base, client, msgQ, inStep, sending, open, pc >>

\* -1 or -2.  An orderly end first gives 0, which try_receive adds and asks again.
ReceiveFails ==
  /\ Receiving /\ need > 0 /\ ~open
  /\ pc' = [pc EXCEPT ![Handler] = "closing"]
  /\ UNCHANGED << receiving, sending, open >>

\* The message whose base message has just been received, if it is one.
Arrived == { k \in DOMAIN msgs : pos = End(k - 1) + BaseUnits }
Readable == { k \in Arrived : ~Refuses(BaseBytes(k)) }

\* What is then in baseMessage.  One that deserialize_base_msg refuses is used all
\* the same, uninitialised; one put together of pieces may show anything, too.
BaseMessages ==
  IF Readable # {}
  THEN { DeserializeBaseMsg(BaseBytes(k), ServerTime) : k \in Readable }
  ELSE { base } \cup { [base EXCEPT !.type = u.type, !.size = u.size] : u \in Undefined }

\* The body is received if it can be allocated, and an empty one cannot; else
\* whatever comes next is taken for a base message.
BaseReceived ==
  /\ pc[Handler] = "base" /\ need = 0
  /\ \E b \in BaseMessages, allocated \in BOOLEAN :
       /\ allocated => b.size > 0
       /\ base' = b
       /\ need' = IF allocated THEN b.size ELSE BaseUnits
       /\ pc' = [pc EXCEPT ![Handler] = IF allocated THEN "typed" ELSE "base"]
       /\ inStep' = (inStep /\ Arrived = Readable /\ (allocated \/ b.size = 0))
  /\ UNCHANGED << msgs, pos, client, msgQ, sending, open >>

\* A HELLO gets a new record, a TIME is passed on if there is one, others are dropped.
TypedReceived ==
  /\ pc[Handler] = "typed" /\ need = 0
  /\ base.type = HELLO => client < MaxHello
  /\ need' = BaseUnits
  /\ client' = client + (IF base.type = HELLO THEN 1 ELSE 0)
  /\ pc' = [pc EXCEPT ![Handler] = CASE base.type = HELLO -> "settings"
                                     [] base.type = TIME /\ client # 0 -> "queue"
                                     [] OTHER -> "base"]
  /\ UNCHANGED << msgs, pos, base, msgQ, inStep, sending, open >>

\* xQueueSend waits for room.
QueueTime ==
  /\ pc[Handler] = "queue"
  /\ Len(msgQ[client]) < QLen
  /\ msgQ' = [msgQ EXCEPT ![client] = Append(@, base)]
  /\ pc' = [pc EXCEPT ![Handler] = "base"]
  /\ UNCHANGED << msgs, pos, need, base, client, inStep, sending, open >>

\* The loop ends.
Close ==
  /\ pc[Handler] = "closing"
  /\ open' = FALSE
  /\ pc' = [pc EXCEPT ![Handler] = "closed"]
  /\ UNCHANGED << receiving, sending >>

-----------------------------------------------------------------------------
(* socket_send, called by task t for a message built of record r.          *)

Kind(f) == Number(2, frames[f], 1)

\* Id and time stamp go in when the message is put together.
Begin(t, r, message) ==
  /\ t # Handler => Len(frames) < MaxFrames
  /\ frames' = Append(frames, message)
  /\ idCounter' = [idCounter EXCEPT ![r] = @ + 1]
  /\ frame' = [frame EXCEPT ![t] = Len(frames) + 1]
  /\ toWrite' = [toWrite EXCEPT ![t] = Length[Number(2, message, 1)]]
  /\ count' = [count EXCEPT ![t] = 0]
  /\ UNCHANGED << open, buffered, wire >>

\* send takes what fits, for a while even after the peer has closed.
Write(t) ==
  /\ toWrite[t] > 0 /\ buffered < Room
  /\ LET free == Room - buffered
         written == IF toWrite[t] < free THEN toWrite[t] ELSE free
     IN  /\ buffered' = buffered + written
         /\ wire' = wire \o [i \in 1 .. written |-> frame[t]]
         /\ toWrite' = [toWrite EXCEPT ![t] = @ - written]
  /\ UNCHANGED << receiving, frames, idCounter, frame, count, open, pc >>

\* Variant: never gives up.
KeepsTrying(t) == TRUE

\* A refusal is counted for the message, however much of it went out in between.
KeepsOn(t) == count[t] < MaxRefused

\* errno is EAGAIN: 1 ms later it is tried again.
Refused(t) ==
  /\ toWrite[t] > 0 /\ buffered = Room
  /\ KeepsOn(t)
  /\ count' = [count EXCEPT ![t] = @ + 1]
  /\ UNCHANGED << receiving, buffered, wire, frames, idCounter, frame, toWrite, open, pc >>

\* Variant: only a closed connection ends it.
FailsWhenClosed(t) == toWrite[t] > 0 /\ ~open

\* It returns -1, leaving the message cut.
Fails(t) == toWrite[t] > 0 /\ (~open \/ (buffered = Room /\ ~KeepsOn(t)))

Sent(t) == toWrite[t] = 0

Socket(t) == Write(t) \/ Refused(t)

\* The caller goes on to its next step.
Returns(t, next) ==
  /\ pc' = next
  /\ toWrite' = [toWrite EXCEPT ![t] = 0]
  /\ UNCHANGED << buffered, wire, frames, idCounter, frame, count, open >>

-----------------------------------------------------------------------------
(* The callers.                                                            *)

Json == << 1 >>
Codec == << 1, 2 >>
Payload == << 3, 1 >>

\* handle_client_task: the results are not looked at.
SendSettings ==
  /\ pc[Handler] = "settings"
  /\ Begin(Handler, client, SettingsMessage(idCounter[client], base.id, ServerTime, Json))
  /\ pc' = [pc EXCEPT ![Handler] = "sendingSettings"]
  /\ UNCHANGED receiving

\* Variant: the tx task is started too soon.
SendHeaderWithTx ==
  /\ pc[Handler] = "sendingSettings"
  /\ Sent(Handler) \/ Fails(Handler)
  /\ Begin(Handler, client,
           CodecHeaderMessage(idCounter[client], base.id, ServerTime, Codec, Payload))
  /\ pc' = [pc EXCEPT ![Handler] = "sendingHeader", ![client] = "wait"]
  /\ UNCHANGED receiving

SendHeader ==
  /\ pc[Handler] = "sendingSettings"
  /\ Sent(Handler) \/ Fails(Handler)
  /\ Begin(Handler, client,
           CodecHeaderMessage(idCounter[client], base.id, ServerTime, Codec, Payload))
  /\ pc' = [pc EXCEPT ![Handler] = "sendingHeader"]
  /\ UNCHANGED receiving

\* There is no header yet, but it has its id.
NoHeader ==
  /\ pc[Handler] = "sendingSettings"
  /\ Sent(Handler) \/ Fails(Handler)
  /\ idCounter' = [idCounter EXCEPT ![client] = @ + 1]
  /\ pc' = [pc EXCEPT ![Handler] = "base", ![client] = "wait"]
  /\ toWrite' = [toWrite EXCEPT ![Handler] = 0]
  /\ UNCHANGED << receiving, buffered, wire, frames, frame, count, open >>

StartTx ==
  /\ pc[Handler] = "sendingHeader"
  /\ Sent(Handler) \/ Fails(Handler)
  /\ Returns(Handler, [pc EXCEPT ![Handler] = "base", ![client] = "wait"])
  /\ UNCHANGED receiving

\* send_new_wire_chunk_task: a chunk was announced, which the fifo still has ...
SendChunk(t) ==
  /\ pc[t] = "wait"
  /\ Begin(t, t, WireChunkMessage(idCounter[t], ServerTime, ServerTime, Payload))
  /\ pc' = [pc EXCEPT ![t] = "sending"]
  /\ UNCHANGED receiving

\* Variant: the answer refers to the base message received last.
AnswerLatest(t) ==
  /\ pc[t] = "wait" /\ msgQ[t] # << >>
  /\ Begin(t, t, TimeMessage(idCounter[t], base, ServerTime))
  /\ pc' = [pc EXCEPT ![t] = "sending"]
  /\ msgQ' = [msgQ EXCEPT ![t] = Tail(@)]
  /\ UNCHANGED << msgs, pos, need, base, client, inStep >>

\* ... or a TIME came; the answer tells how long it took ...
AnswerTime(t) ==
  /\ pc[t] = "wait" /\ msgQ[t] # << >>
  /\ Begin(t, t, TimeMessage(idCounter[t], Head(msgQ[t]), ServerTime))
  /\ pc' = [pc EXCEPT ![t] = "sending"]
  /\ msgQ' = [msgQ EXCEPT ![t] = Tail(@)]
  /\ UNCHANGED << msgs, pos, need, base, client, inStep >>

\* ... unless there is no memory for it, which ends the task, too.
AnswerNoMemory(t) ==
  /\ pc[t] = "wait" /\ msgQ[t] # << >>
  /\ idCounter' = [idCounter EXCEPT ![t] = @ + 1]
  /\ pc' = [pc EXCEPT ![t] = "deleted"]
  /\ msgQ' = [msgQ EXCEPT ![t] = Tail(@)]
  /\ UNCHANGED << msgs, pos, need, base, client, inStep, open >>
  /\ UNCHANGED << buffered, wire, frames, frame, toWrite, count >>

AnswerSent(t) ==
  /\ pc[t] = "sending" /\ Sent(t)
  /\ Returns(t, [pc EXCEPT ![t] = "wait"])
  /\ UNCHANGED receiving

\* Variant: err is not looked at.
AnswerCutGoesOn(t) ==
  /\ pc[t] = "sending" /\ Fails(t)
  /\ Returns(t, [pc EXCEPT ![t] = "wait"])
  /\ UNCHANGED receiving

\* ... and the first failure ends the task.
AnswerCut(t) ==
  /\ pc[t] = "sending" /\ Fails(t)
  /\ Returns(t, [pc EXCEPT ![t] = "deleted"])
  /\ UNCHANGED receiving

Sending(t) == pc[t] \in {"sendingSettings", "sendingHeader", "sending"}

SocketNext ==
  \/ PeerTakes \/ PeerCloses
  \/ Receive \/ ReceiveFails \/ BaseReceived \/ TypedReceived \/ QueueTime \/ Close
  \/ \E t \in Tasks : Socket(t)
  \/ SendSettings \/ SendHeader \/ NoHeader \/ StartTx
  \/ \E t \in TxTasks : \/ SendChunk(t) \/ AnswerTime(t) \/ AnswerNoMemory(t)
                        \/ AnswerSent(t) \/ AnswerCut(t)

SocketSpec == SocketInit /\ [][SocketNext]_socketVars

\* A task that sends runs when it can (NoHeader can happen whenever SendHeader can).  The
\* peer owes nothing.
SocketFairSpec ==
  /\ SocketSpec
  /\ WF_socketVars(Socket(Handler) \/ NoHeader \/ StartTx)
  /\ \A t \in TxTasks : WF_socketVars(Socket(t) \/ AnswerSent(t) \/ AnswerCut(t))

-----------------------------------------------------------------------------
(* Properties.                                                             *)

Units(f) == Cardinality({ i \in DOMAIN wire : wire[i] = f })
Cut(f) == Units(f) < Length[Kind(f)]

SocketTypeOk ==
  /\ open \in BOOLEAN /\ inStep \in BOOLEAN
  /\ pos \in 0 .. End(Len(msgs)) /\ need \in Nat
  /\ client \in 0 .. MaxHello
  /\ \A r \in TxTasks : Len(msgQ[r]) <= QLen
  /\ buffered \in 0 .. Room
  /\ Len(frames) <= MaxFrames + 2 * MaxHello /\ wire \in Seq(DOMAIN frames)
  /\ pc[Handler] \in {"base", "typed", "settings", "sendingSettings", "sendingHeader",
                      "queue", "closing", "closed"}
  /\ \A t \in TxTasks : pc[t] \in {"none", "wait", "sending", "deleted"}
  /\ frame \in [Tasks -> 0 .. Len(frames)]
  /\ toWrite \in [Tasks -> Nat]
  /\ count \in [Tasks -> 0 .. MaxRefused]

\* The handler never takes the middle of a message for a base message, unless it could
\* not read an earlier one or had no memory for a body.
KeepsStep ==
  inStep /\ pc[Handler] = "base" /\ need = BaseUnits => \E k \in 0 .. Len(msgs) : pos = End(k)

\* The TIMEs that came after the HELLO, of the first k messages.
Asked(i) == IF msgs[i] = TIME /\ \E j \in 1 .. i : msgs[j] = HELLO THEN << i >> ELSE << >>
TimesOf(k) == Seqs!FlattenSeq([i \in 1 .. k |-> Asked(i)])

\* As the client reads the answers, and would read those to come.
Answer(m) ==
  IF Number(2, m, 1) = TIME THEN << DeserializeBaseMsg(m, ServerTime).refersTo >> ELSE << >>
AnswersIn(sent) == Seqs!FlattenSeq([f \in 1 .. Len(sent) |-> Answer(sent[f])])
IdsOf(requests) == [i \in 1 .. Len(requests) |-> requests[i].id]
AnswersOf(r) == AnswersIn(frames) \o IdsOf(msgQ[r])

\* While the tx task lives and the handler is in step, every TIME is answered once, in
\* its turn, by a message that names it.
TimesAnswered ==
  \A k \in 0 .. Len(msgs) :
    /\ inStep /\ client = 1 /\ pc[1] \in {"wait", "sending"}
    /\ pc[Handler] = "base" /\ need = BaseUnits /\ pos = End(k)
    => AnswersOf(1) = TimesOf(k)

\* The client can read whatever it is sent: the announced size leads from each base
\* message to the next, and a TIME's answer holds the time from the client's clock to
\* the server's.
AnswersReadable ==
  \A f \in DOMAIN frames :
    LET head == DeserializeBaseMsg(frames[f], ServerTime)
        body == SubSeq(frames[f], BaseMessageSize + 1, Len(frames[f]))
        answer == TimeMessageDeserialize(body, head.size)
    IN  /\ ~Refuses(SubSeq(frames[f], 1, BaseMessageSize))
        /\ head.size = Len(body)
        /\ head.type = TIME =>
             /\ answer.result = 0
             /\ inStep => answer.latency =
                             [sec |-> ServerTime.sec - ClientTime(head.refersTo).sec,
                              usec |-> ServerTime.usec - ClientTime(head.refersTo).usec]

\* Two tasks send on the connection, but the messages do not mix as long as one HELLO
\* was handled.
FramesInOrder ==
  client <= 1 => \A i \in DOMAIN wire : \A j \in i .. Len(wire) : wire[i] <= wire[j]

\* The client loses its place in the stream only while it is being welcomed: a chunk or
\* a time that was cut is the last thing that it gets.
OnlyWelcomeCut ==
  client <= 1 => \A i \in DOMAIN wire :
    wire[i] < wire[Len(wire)] /\ Cut(wire[i]) => Kind(wire[i]) \in {SERVER_SETTINGS, CODEC_HEADER}

\* socket_send returns, whatever the peer does.
SendEnds == \A t \in Tasks : []<>~Sending(t)

\* "This function blocks until all bytes got sent": while the connection is open,
\* whatever socket_send has done with is whole.
BlocksUntilSent ==
  open => \A f \in DOMAIN frames : Cut(f) => \E t \in Tasks : Sending(t) /\ frame[t] = f
=============================================================================
