# esp_snapserver: specifications and proofs

`esp_snapserver` turns an ESP32 into a Snapcast server whose audio source is a
DLNA renderer: the phone hands the renderer a URL, the audio pipeline decodes
it, a FLAC encoder cuts it into blocks of 1152 samples, each block becomes a
time-stamped *wire chunk* in a bounded fifo, and one task per connected
snapclient sends chunks over TCP.  Everything runs as FreeRTOS tasks on two
cores.  This directory holds TLA+ models of the parts where the tasks meet, the
configurations that model-check them, and TLAPS proofs.

    tlc -config fifo_safety.cfg MCWireChunkFifo.tla     model-check a run of PROJECT.json
    tlapm WireChunkFifoProofs.tla                       check the proofs

## 1. The system

| part | source | state | operations | meets |
|---|---|---|---|---|
| wire chunk fifo | `wire_chunk_fifo.c` 50-230, 344-377 | tail queue of chunks, `countSemaphore` (free slots), `mux` | insert, empty, full, clear, remove oldest, newest/oldest | everybody below |
| remove-oldest task and its timer | `wire_chunk_fifo.c` 234-293 | `oldestRemoved` token, one-shot esp_timer | drop the oldest chunk when the fifo is full, at once or through the timer | fifo |
| subscribers | `wire_chunk_fifo.c` 298-339 | `subscribers[16]` | register, unregister, announce a new chunk | encoder, client tx tasks |
| FLAC encoder task, `write_callback` | `main.c` 173-348 | the chunk being stamped, `codecHeaderCounter` | header accumulation, stamping, insertion | audio pipeline, fifo, subscribers |
| codec header | `main.c` 153-201 | `flac_codecHeader` | grow, hand out, free | encoder, client handlers, renderer |
| encoder life cycle | `main.c` 857-965 | encoder task handle, FLAC encoder | init, de-init (deletes the task, flushes, clears the fifo) | renderer, fifo |
| renderer requests | `main.c` 544-838 | `trans_state`, `track_uri`, pipeline state | play, stop, pause, set URI, volume | pipeline, encoder life cycle |
| accept loop | `snapserver.c` 774-943 | listening socket, the `sock` variable | accept, start a handler | handlers |
| client handler task | `snapserver.c` 609-750 | socket, `client`, tx task handle | decode messages, hello, time, tear down | tx task, encoder |
| client tx task | `snapserver.c` 526-604 | `msgQ` | register, send newest chunk, answer time, unregister | fifo, subscribers, handler |
| socket I/O | `snapserver.c` 208-291 | - | receive exactly n bytes, send all bytes | lwIP |
| messages | `snapserver.c` 46-191, 296-473, `libbuffer` | - | (de)serialise base, hello, time, settings, chunk | handlers, tx tasks |
| WiFi station | `main.c` 967-1052 | `s_retry_num`, event bits | connect, retry, give up | app_main |
| start-up | `main.c` 1057-1123 | - | starts the parts in order | all |
| UPnP service, tables | `components/esp_dlna`, `components/flac` (configuration) | - | - | renderer requests |

**Who runs where.** encoder task (priority 9), remove-oldest task (7), esp_timer
task (22), one handler and one tx task (10) per client, the HTTP server's task
for renderer requests, the accept loop.  The fifo's list is guarded by `mux`;
its capacity by `countSemaphore`, which is taken *before* `mux` and given
*after* it.  `subscribers`, `flac_codecHeader`, `track_uri` and the client
records are shared without any lock.

### What is hard, and what correctness means

* *Fifo.* Two tasks remove (remover, timer callback), each having decided at an
  earlier moment; the encoder reads the newest chunk's time stamp after it gave
  the mutex back; the remover reads the oldest chunk without a null test because
  it saw a full fifo earlier.  Correct: no slot lost, no freed chunk read, no
  drain of a full fifo, no lost wakeup, time stamps without gaps, bounded lag of
  the clients.
* *Encoder life cycle.* `flac_encoder_deinit` deletes the encoder task wherever
  it is.  Correct would be: no slot and no mutex goes with it.
* *Clients.* Announcements to clients that come and go, a bounded queue per
  client, tear-down in two tasks.  Correct: nothing is sent through a client
  that was freed; a dead client never stops the encoder.
* *Sockets.* Half-closed connections, short sends.  Correct: a call returns;
  frames are not cut.
* *Codec header.* Grown in four writes while handlers may read it.

PROJECT.json lists these hazards at their lines.

## 2. The modules and the plan

| order | modules | part of the code | state |
|---|---|---|---|
| 1 | `AudioWindow`, `WireChunkFifo` (`MCWireChunkFifo`, `WireChunkFifoProofs`) | fifo, remove-oldest task and timer, `write_callback`, tx loop, while a stream plays | checked, safety and refinement proved |
| 2 | `StreamControl` (`MCStreamControl`, `StreamControlProofs`) | `renderer_request` play and stop, `flac_encoder_deinit` / `_init`, `wire_chunk_fifo_clear`, on top of 1 | checked, safety proved |
| 3 | `ClientSessions` (`ClientSessionsProofs`) | accept loop, client handler, tx task, `subscribers` | checked, safety proved |
| 4 | `CodecHeader` (`MCCodecHeader`, `CodecHeaderProofs`) | header branch of `write_callback`, `get_codec_header`, `send_codec_header` | checked, safety proved |
| 5 | `WireFormat` (`WireFormatProofs`), `SocketIO` (`MCSocketIO`, `SocketIOProofs`) | base message, settings, header, chunk and time messages, the cursor of `libbuffer`; `try_receive` with the handler's loop, `socket_send` with its callers | checked, safety proved |
| 6 | `WifiStation` | `event_handler`, the wait in `wifi_init_sta` | checked, proved |
| 7 | `Renderer` | `renderer_request`, notifications, the pointers of `flac_encoder_deinit` / `_init` | checked, proved |
| 8 | `StartUp` (`StartUpProofs`) | `app_main`: 6 and 7 composed | checked, proved |

`StreamControl` EXTENDS `WireChunkFifo`: it reuses its variables and its tasks
and adds the task that deletes one of them.  `WireChunkFifo` instantiates
`AudioWindow` with a refinement mapping.  `SocketIO` EXTENDS `WireFormat`, so that
what the two sides put on the connection and take from it are the messages'
bytes.  `StartUp` EXTENDS `WifiStation` and `Renderer`: it adds the task that
starts both and meets the second one's requests.  What the modules share beyond
that is listed under "The seams" below.

Each `...Proofs` module EXTENDS the module it is about; `StreamControlProofs` builds
on `WireChunkFifoProofs`, `SocketIOProofs` on `WireFormatProofs`.  `LeastNumber` is one
lemma that several of the proofs use: a set of naturals that is not empty has a least
element.

### How to read a module

One action is one step that another task can see: a blocking take, the work
done while a mutex is held (whose end, the unlock, is in the same action), a
give after the unlock, a read of an unlocked variable.  `...Pc` variables say
where a task is; their values are named after the step to come.  Definitions
whose comment begins with "Variant:" are not part of a specification: each is
the action above or below it with a plausible mistake, and PROJECT.json names
the property that finds the mistake out.

### Module by module

**`WireChunkFifo`.**  `queue` is `wire_chunk_tail_queue`, a chunk being its number
and its time stamp; `count` is `countSemaphore`; `mux` is the holder of the
mutex; `oldestRemoved` the binary semaphore; `alarm` the one-shot timer.

| task | actions | code |
|---|---|---|
| encoder | `EncFrame` (block arrives), `EncEmptyLock`, `EncEmptyRead`, `EncStampSec`, `EncStampUsec`, `EncNewestLock`, `EncNewestRead`, `EncStampNext` | `write_callback`, `main.c` 203-250 |
| | `EncTake`, `EncInsertLock`, `EncInsert`, `EncNotify`, `EncReturn` | `wire_chunk_fifo_insert`, `wire_chunk_fifo.c` 50-75, 331-339 |
| remove-oldest | `RemCheck`, `RemClock`, `RemLock`, `RemReadOldest`, `RemReadNull`, `RemRemoveLock`, `RemRemove`, `RemGiveCount`, `RemArm`, `RemAwait` | `wire_chunk_fifo.c` 245-293 |
| timer | `TmrFire`, `TmrLock`, `TmrRemove`, `TmrGiveCount`, `TmrSignal` | `wire_chunk_fifo.c` 234-240 |
| client | `TxReceive`, `TxLock`, `TxSend` | `snapserver.c` 562-590 |

Two details of the code that look like slips are kept: the first time stamp is
put together from two readings of the clock (`EncStampSec`, `EncStampUsec`),
and the predecessor is dereferenced after the unlock (`EncStampNext`).  When a
freed chunk would be read the model yields any of `GarbageStamps`.

**`AudioWindow`** is what the fifo promises: a sliding window over the stream,
bounded, without gaps, never empty again, nothing dropped more than one block
before its life is over.  The mapping is direct: the list is the window, `now`
the clock.  Only `EncInsert` and the two removals change the window.

**`StreamControl`.**  `CtlRequest` is the beginning of a play or stop request,
`CtlDelete` the `vTaskDelete` of the encoder wherever it is, `CtlFlush` the last
block that `FLAC__stream_encoder_finish` hands to `write_callback` in the HTTP
server's task, `CtlClearLock` and `CtlClear` are `wire_chunk_fifo_clear`,
`CtlRestart` is `flac_encoder_init`.  `stale` is a history variable: a clear met
a removal that had been decided on.

**`ClientSessions`.**  Per connection (numbered in the order of acceptance): the peer,
the handler's place, the socket number.  Per client record: the tx task's place and how
many messages its `msgQ` holds.  Handler: `HandleHello` (which may fail to create the tx
task), `HandleTime`, `QueueTime`, `HandleClose`, `HandleFree`, `HandleFreeNothing` (no tx
task was ever made, so the task handle is uninitialised).  Tx task: `TxScan` looks at one
slot at a time, and the search and the store are apart both ways: `TxScan` and
`TxRegister`, `TxUnregister` and `TxClear`; `TxReceive`, `TxSend`, `TxEnd`.  Encoder:
`EncTest` and `EncRead` (the slot is read twice), `EncSend`.  A HELLO is one step because
nothing else can observe the handler between its parts.

**`CodecHeader`.**  `heap` maps the blocks that are allocated to their length and
the number of leading bytes that are right.  `WriteHeader`, `MallocFirst`, `Grow`,
`FreeOld`, `Publish`, `Fill`, `SetSize` are the lines of the header branch
(`main.c` 153-201) in their order; `GetHeader`, `GetPayload`, `GetSize`, `Copy` the reads of
a handler, unlocked.  Malloc may return any free address, so a pointer can
become valid again for another block.

**`WireFormat`.**  Pure operators: a number is the list of its digits to the base
`Byte`, a buffer the list of what was written with the size it was given, and a
message what `base_message_serialize` and the `memcpy`s after it leave in `tmp`.
`DeserializeBaseMsg` and `TimeMessageDeserialize` are the two readers; the second
is in the server's source but only a client needs it, and it appears in
`AnswersReadable` in that role.

**`SocketIO`.**  `msgs` is what the client sends, `pos` how much of it the handler
has received, `need` what the current `try_receive` still waits for; `wire` is the
sequence of units sent, each labelled with its frame, and `frames` the bytes of
each frame.

| task | actions | code |
|---|---|---|
| handler, receiving | `Receive`, `ReceiveFails` | `try_receive`, `snapserver.c` 222-250 |
| | `BaseReceived` (deserialises, allocates the body), `TypedReceived` (the switch), `QueueTime`, `Close` | `handle_client_task`, `snapserver.c` 621-733 |
| handler, answering | `SendSettings`, `SendHeader`, `NoHeader`, `StartTx` | `snapserver.c` 296-423, 674-690 |
| tx task | `SendChunk`, `AnswerTime`, `AnswerNoMemory`, `AnswerSent`, `AnswerCut` | `snapserver.c` 428-521, 560-604 |
| both | `Write`, `Refused`, `Fails`: the loop of `socket_send` | `snapserver.c` 263-291 |

The callers differ in what they do about a failure: the handler nothing, the tx
task ends.  A base message that is refused leaves `baseMessage` as it was on the
stack: any of `Undefined`, or what an earlier turn of the loop left there.

**`WifiStation`.**  `event_handler`'s three cases; `failures` is a history variable
that counts disconnections on its own, so that `GivesUpAfterRetries` does not
restate the counter.

**`Renderer`.**  `handle`, `encoder` are the pointers, `tasks`, `flacs` what really
exists; an action that follows a pointer to what is gone sets `panic`.
`TestTask` ... `CreateTask` are `flac_encoder_deinit` and `flac_encoder_init`, indexed
by the caller, `App` (app_main) or `Http` (a request), and cut where the two callers
meet: every test of the shared pointers is apart from the use that relies on it, and
the new encoder, the calls on it, `init` and the new task are steps of their own.  Two
places stay coarser than the machine, both of interest to overlapping calls only:
`Configure` is all the calls on the global `encoder` between its creation and the start
of the task, each of which reads the pointer anew, and `DeleteTask` reads the handle
where it uses it, not from a register that still holds an older one.  Either way the
outcome left out is the use of something deleted, which the model has elsewhere as
`panic`.  `attrs` is what the renderer's state is,
`told` what the UPnP library was last told of it: it reads the attributes back
through `renderer_request` when it is told to notify.  `Request`, `Restart`, `Run`,
`Playing`, `Stopped`, `Pause`, `SetRendering`, `SetTrackUri` are the cases of
`renderer_request` that change state; of a new URI only the notification is modelled,
not the text.  `TrackEnds` is the end of the external pipeline, which the code learns of
but does not record.

**`StartUp`.**  `StartWifi`, `WifiDone`, `RegisterServices`, `AssignHandle`,
`LifeCycle(App)`, `StartSnapserver` are `app_main` in its order.  Requests are
served from `RegisterServices` on, before `dlna_handle` is assigned and before the
encoder exists.

**The seams.**  `WireChunkFifo` keeps the set of clients fixed and lets a send
take any time; `ClientSessions` lets clients come and go and forgets which chunk
is sent; `SocketIO` shows that a send always ends, which is what both assume.
`ClientSessions` leaves `mux` out: it is held only during a send.  `CodecHeader`
needs of the life cycle only that `write_callback` never runs twice at a time,
which `StreamControl` shows in its control flow: the encoder task exists only
outside `flac_encoder_deinit` and `flac_encoder_init`.  Those three modules take
requests one at a time; that holds once start-up is over, and `StartUp` is about
what happens before: `OverlapBounded` and the exception in `EncoderSound` say how
far their assumption can be missed by a request that comes too soon.

## 3. What the runs check

| run | module | distinct states | shows |
|---|---|---|---|
| `fifo_safety` | `MCWireChunkFifo` | 2.2 M | `TypeOk`; `SlotAccounting`: no slot is lost or invented; `RemovalsBounded`: remover and timer never drain a full fifo; `HeldElementLive`: the predecessor read after the unlock is not freed; `OldestExists`: no null oldest chunk; `WakeupPending`: no lost wakeup; `LagBounded`: a client is at most `QLen + 2` chunks behind; `ImplementsWindow` |
| `fifo_live` | `MCWireChunkFifo` | 94 k | `InsertReturns`: an insertion returns; `Fresh`: every client is sent every chunk or a later one |
| `fifo_obsolete` | `MCWireChunkFifo` | counterexample | `DropsOnlyObsolete` fails, see section 5 |
| `stream_safety` | `MCStreamControl` | 467 k | `StreamTypeOk`; `SlotsBounded`: the capacity grows by at most two; `SafeUnlessStale`: what the fifo relies on survives requests unless a clear overtook a removal or slots were lost; `RequestReturns`: a request returns, or the encoder was deleted inside the mutex |
| `stream_count` | `MCStreamControl` | counterexample | `CountIsSize` fails |
| `sessions_safety` | `ClientSessions` | 1.8 M | `SessionTypeOk`; `SubscribersServed`: no registered record is about to be freed; `TxRecordLive`: no tx task works on a freed record; `WrongSocketOnlyInTeardown`: a socket number that has a new owner is used only while the old owner is torn down |
| `sessions_live` | `ClientSessions` | 393 k | `Disconnects`: a dead peer's connection is torn down, or one of five mishaps keeps it; `AnnouncementsEnd`: an announcement gets through the table whatever the clients do, unless it had reached the queue of a task that then ended |
| `sessions_wait` | `ClientSessions` | counterexample | `WaitsForTasks` fails |
| `header_safety` | `MCCodecHeader` | 571 k | `HeaderTypeOk`; `HeaderHeap`: no leak, no double free in `write_callback`; `HeaderIsNoAudio`; `HeaderWhole`; `OnlyPlayTears`: a client's header is spoilt only by an overlapping play request |
| `socket_send` | `MCSocketIO` | 518 k | `SocketTypeOk`; `KeepsStep`: the handler never takes the middle of a message for its beginning; `TimesAnswered`: every TIME gets one answer, its own, in order; `AnswersReadable`: sizes lead from message to message and latencies survive the signs; `FramesInOrder`: the frames of two tasks do not mix; `OnlyWelcomeCut`: a cut answer is the last thing a client gets; `SendEnds` |
| `socket_cut` | `MCSocketIO` | counterexample | `BlocksUntilSent` fails |
| `start_up` | `StartUp` | 462 k | `StartUpTypeOk`; `EncoderSound`: while the life cycle runs in one task at a time, no deleted encoder or task is used and none is lost; `OverlapBounded`: an overlap leaves at most one task of each kind too many; `ToldIsSo`: control points know the state, and PLAYING means that the pipeline and the encoder run; `GivesUpAfterRetries`; `WaitEnds`: start-up gets past the station |

### Bounds, and why they are enough

* *Fifo.*  Four slots: the smallest fifo for which the arguments hold: two
  removals under way, one slot in the encoder's hands and one chunk that stays.  The durations keep the real
  proportions: 500 ms of buffer is about 19 blocks of 26 ms in 20 slots, here
  four ticks in four slots of one tick.  Six chunks fill the fifo and turn it over;
  `MaxTime` bounds the free running of the clock, which still goes on while a timer
  is armed, so no deadline is out of reach.  `fifo_live` has `Buf = 1` and no
  free clock so that chunks become obsolete by the timer alone.
* *Requests.*  Two requests: the second meets what the first left behind (a slot
  lost, a stale removal, a locked mutex).  A third adds states, no new meeting.
* *Sessions.*  Two connections and two sockets let one connection's tear-down
  meet the other's start, in the table and in the socket numbers;
  `sessions_live` has one slot so that a full table is reached.  One TIME per
  connection together with the announcements fills a queue of length one or two.
  Connections are numbered in the order in which they are accepted, so that no run
  explores the same history under two numberings.
* *Header.*  The lengths of the four pieces are those of the FLAC library
  (4, 38, 81, 1238 bytes).  Three addresses suffice: at most two blocks are
  allocated and one more may be remembered by a handler.
* *Socket.*  `Room = 2` with frames of 1 and 2 units makes a frame meet a full
  buffer at each of its units; one refusal instead of 100 changes only how long a
  frame keeps trying.  Base 8 instead of 256 keeps every digit, sign and carry of
  the formats and is the least base that holds every type.  Three messages are a
  HELLO, a TIME and another before, between or after; a base message that comes
  in two pieces is enough to be cut.  Four frames in all and one HELLO:
  the second HELLO's effects are `ClientSessions`'.
* *Start-up.*  Two requests and app_main run the life cycle three times: two can
  overlap and a third finds what they left.  The safety properties also hold with
  four requests (checked once; not a run because of its length).  One retry has
  all cases: try again, give up, begin anew after an address.

Deadlock is not checked: each system may stop for good, because the source may
fall silent, the clients may be gone, and the bounds end every behaviour.

### Fairness, and why the code justifies it

Weak fairness per task (`WriteCallback`, `Remover`, `Timer`, `Tx(c)`, `Control`,
`Encoder`, a handler's queueing, closing and freeing, `Socket(t)`): every task of the
server blocks between bounded pieces of work, so on two cores none keeps a
lower priority from running for ever, and a FreeRTOS mutex or semaphore is
handed to a waiting task.  The clock ticks.  Nothing is promised by anybody
outside: no block of audio (`EncFrame`), no request (`CtlRequest`), no HELLO or TIME,
no reading peer, no address for the station (`StartFairSpec` asks only that an attempt to
connect ends one way or the other, and `WaitEnds` excepts the access point that
keeps the station without an address).  `SessionFairSpec` does assume that the encoder goes on
announcing chunks, that is, that a stream plays: `Disconnects` is claimed only
for that case, because a tx task notices a dead peer only when it sends.  TIME
messages are bounded; real clients send one a second, never without end
between two steps.

## 4. What is proved

The proofs hold for every value of the constants.

**`WireChunkFifoProofs`** (from `FifoAssumption`: four slots or more, the durations
naturals, a second of at least one tick).  `FifoInvariant` is `Spec => []FifoInv`,
one lemma for each part of the invariant; the parts are

* `SlotAccounting`, `RemovalsBounded`: themselves inductive only together with
* `SignalsBounded`: tokens of `oldestRemoved`, present or to come, are at most one
  while the remover works and one or two while it waits, so the timer that the
  remover armed and a second removal meet at most once;
* `MutualExclusion`: ties `mux` to the places of the tasks;
* `StreamPosition`: the newest chunk is the last one produced, so the
  predecessor that `write_callback` holds is the newest chunk, which no removal
  reaches while two chunks are left (`RemovalsBounded` says they are);
* `Contiguous`, `StampRight`: numbers and stamps follow without gap;
* `DeadlinesRight`: the alarm and the remover's decision are at most one block too
  early for the chunk that is the oldest by then;
* `Lag`: a chunk a client was not sent is in its queue, in its hands, or about
  to be announced.

From it follow `TypeCorrect`, `SlotsAccounted`, `RemovalsAreBounded`, `HeldElementIsLive`,
`OldestAlwaysExists`, `NoLostWakeup`, `LagIsBounded`, and `FifoImplementsWindow`: every step of
the fifo is a step of `AudioWindow` or leaves it alone.

**`CodecHeaderProofs`** (from `HeaderAssumption`: the pieces grow and the last one
ends at `PayloadLen`, the question that the comment at `main.c` 133 asks).
`HeaderInvariant` is `HeaderSpec => []HeaderInv`, one lemma per action.  `CallPlaces` says
what holds at each place of `write_callback`, in particular that while a header
is made again over an old one the published block is already right as far as it
is read; `Whole` says that outside `flac_encoder_init` the published block is the
whole header; `HandlerPlaces` what a handler knows as long as no play request
has come.  From it follow `HeaderTypes`, `HeaderHeapKept`, `HeaderAndAudioApart`, `HeaderIsWhole` and
`HelloDisturbedOnlyByPlay`.

**`StreamControlProofs`** (from `FifoAssumption`, and `StreamAssumption`: the requests are a
natural).  A request can delete the encoder at any of its steps and clear the list
under a removal, so most of `FifoInv` is lost: a slot or `mux` may be gone with the
task.  `StreamInv` is what is left.

* `SignalsAtMost` is the half of `SignalsBounded` that no request touches: tokens of
  `oldestRemoved` bound the removals under way, of remover and timer together;
* `Surplus` bounds free slots, slots about to be given and removals under way by
  `MaxSize + 2`: it counts a removal as if it found nothing to remove, which is what
  happens after a clear.  Without it `SlotsBounded` is not inductive;
* `RemovalsUnlessStale`, `HeldUnlessStale`, `PanicUnlessStale` are the arguments of the
  fifo (two removals, so three slots leave a chunk) under the exceptions of
  `SafeUnlessStale`;
* `CriticalSections` and `OneWriter` say who is inside `mux`, and that the flush writes
  only when the encoder task is gone.

From it follow `StreamTypeCorrect`, `SlotsAreBounded`, `SafeWithThreeSlots` and, of the
mutex itself, `MuxIsExclusive`.

**`ClientSessionsProofs`** (from `SessionAssumption`).  `SessionInv` relates three
things: the handler's place and the number it holds for its socket (`SocketsOwned`),
each record and its tx task (`TxStarted`), and the table and the tx tasks
(`TableSound`).  The last says that a record is in one slot at most, and, between the
search and the store of `wire_chunk_fifo_unregister_client`, that the slot it found is the
one that holds the record, if any does; that is why it is enough to empty the first one.  From
it follow `SessionTypes`, `TableIsServed` and `TxKeepsItsRecord`, for any number of HELLOs.
`WrongSocketIsTeardown` and `WaitsForItsTask` have the hypothesis `Hellos = 1`, that is,
that a client says HELLO once on a connection: with two the run `sessions_wait` refutes
the second, and the tx task of the first HELLO outlives its connection.

**`StartUpProofs`** (from `WifiAssumption` and `RendererAssumption`: the retries and
requests are naturals, the volumes are naturals with 0 among them).  `WifiInv` says
that the retries used and the disconnections since the last address are the same
number, or one more when the station is down: `GivesUpExactly`.  `LifeInv` says,
as long as the life cycle has run in one task at a time, what each of its steps knows of the two pointers: before
the deletion of the task the handle is that of the only task, between deletion
and assignment nothing may use it, and so on; it needs no bound on requests, and
it gives `EncoderIsSound`.  `ToldInv` follows a request through its steps and says
which of state, pipeline and notification are already new; it rests on `LifeInv`
for the conjunct that PLAYING means an encoder task, and gives `ToldIsTrue`.
`RaceInv` is about the opposite case, the life cycle in both tasks at once.
`app_main` runs it once: until it is through, every task that exists is the one in the
handle (`NoneLostBefore`), after that at most one is out of reach (`OneLostAfter`),
and that is `OverlapIsBounded`.  `TasksMade` and `FlacsMade` count the rounds of the life
cycle, which bounds the numbers in use: `StartUpTypeCorrect`.

**`WireFormatProofs`** (from `ByteAssumption`: a byte tells the message types apart).
`DigitsAddUp` and `ReadsBack` say that a number that fits its width is read back from its
digits, `SignedReadsBack` the same of a number in two's complement.
`BaseMessageReadsBack` puts the nine fields of a base message together, `LatencyReadsBack`
the two of an answer to a TIME.

**`SocketIOProofs`** (from `SocketAssumption`: types are 16 bits and sizes 32, the
capacities positive).  Six invariants, which build on one another:

* `TypeInv` has, beside the types, where each task can be (`TaskInv`) and how many frames
  the handler and the tx tasks can have begun: `SocketTypeCorrect`;
* `OrderInv`: with one HELLO whoever sends is at the newest frame, because the tx task
  starts after the welcome: `FramesStayInOrder`;
* `StepInv`: while nothing was refused, what the handler has received and what it
  waits for end together at the end of a base message or of a body, and the message in its
  hands is the one that ends there: `HandlerKeepsStep`.  It needs that the ends of messages
  grow (`EndsGrow`);
* `QueueInv` and `FramesRead`: every request in a queue is one of the client's, so its
  answer names it: `ClientReadsAnswers`.  Its hypothesis `MaxMessages < Byte * Byte`
  says that ids do not wrap; a connection that lives for longer than 65535 messages
  meets an id again, and the client with it;
* `WholeInv`: a frame of the tx task is whole unless the task is sending it or has ended
  over it: `OnlyAWelcomeIsCut`;
* `TurnInv`: after the messages that the handler has dealt with, the answers sent and the
  requests queued are together the TIMEs among them, in their order, whether the handler
  waits for a message, welcomes the client or waits for room in the queue; every TIME
  moves from what is still to come to the queue and from there to the answers:
  `TimesAreAnswered`.  Its hypotheses are that ids do not wrap and that a HELLO and a
  TIME have a body (`Bodied`), as a snapclient's have; the handler asks for memory of size
  0 for an empty one, gets none and passes over the message.

`Ends` is a recursive function, and a recursive function is whatever satisfies its
equation, if anything does.  `EndsExist` shows that something does, from the least number
for which nothing would; `FlatExist` does the same for the `FlattenSeq` of the community
modules, of which `FlattenAppend` says what one more sequence adds.

**Only model-checked:** all liveness (`InsertReturns`, `Fresh`, `RequestReturns`, `Disconnects`,
`AnnouncementsEnd`, `SendEnds`, `WaitEnds`), which is out of the prover's reach.

## 5. Where the code and its comments disagree

* `fifo_obsolete`.  `oldestRemoved` is given when it is created, so the first wait of
  the remove-oldest task returns at once, with the timer still armed.  If the
  oldest chunk expires before the task looks again, the task removes it and the
  timer the next one, up to one block before it is obsolete.  The window's
  promise is stated with that slack (`Life - Step`), and the proof shows that it
  never gets worse.
* `stream_count`.  A request that deletes the encoder between `countSemaphore` and the
  list loses a slot for good; deleted inside the mutex it locks the fifo for ever
  (`MuxOrphaned`, the exception of `RequestReturns`).
* `sessions_wait`.  A second HELLO on a connection replaces record and task handle; at
  the end only the second task is waited for.
* `socket_cut`.  `socket_send` counts refusals per frame, not per stretch without
  progress, and leaves a frame cut on an open connection at the 101st.

The repository's own README warns that "Client disconnects also make the server
unstable".  `Disconnects` says how: the handler waits for room in the queue of its
tx task that has ended; the encoder does; a tx task that is in no slot never
learns of the end; a tx task sends on a socket number that has a new owner; a
null or wild pointer restarts the chip.  Without any one of the five disjuncts
of `KeptOpen` the property fails.  The second of them is also the only way, short of the
restart, in which a client can stop the stream for good: `EncoderStuck`, the exception of `AnnouncementsEnd`, in which the
encoder has taken a record from the table and waits for its queue while the tx task
leaves.

Several properties hold but for a case that the code does have; the exception is
written into the property, and PROJECT.json lists the case as a hazard without a
property: the five of `KeptOpen`, a peer that falls silent before its HELLO, `inStep` in
`KeepsStep` and `TimesAnswered` (a base message that was refused, a body without memory),
the welcome frames in `OnlyWelcomeCut`, play requests in `OnlyPlayTears`, `MuxOrphaned` in
`RequestReturns`, overlapping life cycles in `EncoderSound` and `ToldIsSo`.

Observations that no comment contradicts, but that the models show:

* A PLAY or STOP that arrives between the registration of the services and the
  end of start-up runs the encoder's life cycle in two tasks: an encoder task can
  be deleted twice, a caller can delete itself (`vTaskDelete` of a handle that has
  become NULL), two encoder tasks can remain, and a FLAC encoder can leak with
  each further request.  `EncoderSound` holds exactly when that does not happen.
* PLAY goes on after `flac_encoder_init` failed and tells PLAYING; when a track
  ends nobody changes `trans_state`; PAUSE while stopped tells PAUSED_PLAYBACK.
  These are the exceptions and the weak conjuncts of `ToldIsSo`.
* A client may be sent the newest chunk twice and others not at all, because a tx task
  looks the chunk up when it comes to it: `Fresh` and `LagBounded` allow both.
* A socket number is used after it was closed, by the tx task that is being torn down:
  `WrongSocketOnlyInTeardown` confines it to that.
* After the last retry the station stays down until a restart; nothing clears
  the event bits.
* `try_receive` is said to return "immediately if no data", but waits for all of
  `max_len`; that is what `KeepsStep` needs.

## 6. What is not modelled, and why

* The audio pipeline (http and raw stream of the audio framework), the FLAC
  library, lwIP and FreeRTOS are outside the repository; they appear as blocks that
  may come, as calls of `write_callback`, as a send buffer and as semaphores.
* FreeRTOS priorities: every interleaving is allowed.  One place needs them, the
  `&sock` that a handler reads before the accept loop goes on (`Accept`).
* Failure of `malloc` where the code does not look at the result (settings, header and chunk
  messages, client records): the chip then writes through NULL and restarts.
  Where it looks, the failure is a disjunct (`BaseReceived`, `AnswerNoMemory`,
  `HandleHello`, `NewEncoder`, `Configure`,
  `CreateTask`).  `SocketIO`'s `StartTx` always gets its task.
* What the idle task leaves in a deleted task's control block: `eTaskStateGet` is
  assumed to tell the end of the task.
* The other modules begin after `app_main`'s first `flac_encoder_deinit(true)`;
  only `StartUp` goes through start-up.  What two overlapping life cycles do to the
  fifo and the codec header themselves is left out: `StartUp` follows the pointers.
* `track_uri` and its text.  A new URI frees the old one (`main.c` 647), whose pointer
  `http_stream_reader` was given by the last PLAY and keeps until the next; whether it
  still follows the pointer is up to the audio framework.
* For the fifo a pause is only a source that is silent.
* The texts of hello and settings (cJSON), the queries of `renderer_request`, which
  answer with a variable or a constant, next, previous and seek, which do nothing,
  and the 8 bit and raw accesses of `libbuffer`, which nobody calls.
* Creating and binding the listening socket: straight-line; its failure ends the
  task.
* The UPnP tables and the build configuration of the FLAC library have no
  behaviour of their own.
