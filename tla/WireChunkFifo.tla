--------------------------- MODULE WireChunkFifo ---------------------------
(***************************************************************************)
(* The wire chunk fifo (wire_chunk_fifo.c) and the tasks that share it     *)
(* while a stream plays to a fixed set of connected clients:               *)
(*                                                                         *)
(*   encoder   write_callback of main.c, running in the FLAC encoder task: *)
(*             stamps every encoded block and inserts it;                  *)
(*   remover   wire_chunk_fifo_remove_oldest_task: while the fifo is full  *)
(*             drops the oldest chunk, at once when it is obsolete, else   *)
(*             through a one-shot timer;                                   *)
(*   timer     remove_oldest_timer_callback, running in the esp_timer task;*)
(*   client c  send_new_wire_chunk_task: sends the newest chunk each time  *)
(*             its message queue holds a notification.                     *)
(*                                                                         *)
(* Every step that another task can observe is an action of its own: the   *)
(* blocking take of a semaphore, the work done under the mutex, the give   *)
(* that follows the unlock.  Time is counted in ticks and may pass between *)
(* any two steps.                                                          *)
(***************************************************************************)
EXTENDS Integers, Sequences

CONSTANTS
  MaxSize,       \* mSize of wire_chunk_fifo_init: the slots of the fifo
  Lead,          \* the 100 ms by which the first chunk is stamped ahead
  Offset,        \* the duration of one encoded block
  Buf,           \* buffer_us: how long a chunk lives after its timestamp
  Second,        \* ticks in a second, the unit of timestamp.sec
  NClients,      \* subscribed clients, in the slots 1 .. NClients
  QLen,          \* capacity of a client's msgQ
  GarbageStamps, \* what a read of a freed chunk may return
  MaxChunks,     \* bound: the blocks the encoder is fed
  MaxTime        \* bound: the clock goes on after it only while the timer waits

\* flac_encoder_init asks for 20 slots; the arguments below need four of them.
ASSUME FifoAssumption ==
  /\ MaxSize \in Nat /\ MaxSize >= 4
  /\ Lead \in Nat /\ Offset \in Nat /\ Buf \in Nat
  /\ Second \in Nat \ {0}
  /\ NClients \in Nat
  /\ QLen \in Nat \ {0}
  /\ GarbageStamps \subseteq Nat
  /\ MaxChunks \in Nat /\ MaxTime \in Nat

VARIABLES
  now,           \* esp_timer_get_time()
  queue,         \* wire_chunk_tail_queue: chunks [id, ts], oldest first
  count,         \* countSemaphore: free slots
  mux,           \* the task that holds mux, or Free
  oldestRemoved, \* the binary semaphore: 0 or 1
  encPc,         \* where the encoder task is in write_callback
  encElem,       \* id of the chunk that the encoder's element points to
  encStamp,      \* timestamp of the encoder's newElement
  encSlot,       \* the subscriber slot it notifies next
  produced,      \* blocks encoded so far; also the id of the current one
  remPc,         \* where the remove-oldest task is
  remNow,        \* its currentTime_us
  remStamp,      \* its timestamp_us
  alarm,         \* when the one-shot timer is due, or Off
  tmrPc,         \* where the timer callback is
  txPc,          \* where each client's send task is
  pend,          \* notifications waiting in each client's msgQ
  sent,          \* id of the chunk last sent to each client
  panic          \* a null pointer was dereferenced: the chip restarts

vars == << now, queue, count, mux, oldestRemoved, encPc, encElem, encStamp,
           encSlot, produced, remPc, remNow, remStamp, alarm, tmrPc, txPc,
           pend, sent, panic >>

encVars == << encPc, encElem, encStamp, encSlot, produced >>
remVars == << remPc, remNow, remStamp >>
tmrVars == << alarm, tmrPc >>
txVars  == << txPc, pend, sent >>

Clients == 1 .. NClients
Null == 0       \* no chunk: ids count from 1
Off == -1       \* the timer is not armed

\* The tasks that take mux; client c's send task is c itself.
Free == 0
EncoderTask == -1
RemoverTask == -2
TimerTask == -3
Holders == {EncoderTask, RemoverTask, TimerTask} \cup Clients

Ids(q) == { q[i].id : i \in DOMAIN q }

\* wire_chunk_fifo_get_newest and wire_chunk_fifo_get_oldest
NewestId == IF queue = <<>> THEN Null ELSE queue[Len(queue)].id

Lock(t) == mux = Free /\ mux' = t
Unlock(t) == mux = t /\ mux' = Free

\* xSemaphoreGive(countSemaphore): a counting semaphore created with maximum MaxSize
GiveCount == count' = IF count < MaxSize THEN count + 1 ELSE count

\* wire_chunk_fifo_remove_oldest, under the mutex
DeleteOldest == queue' = IF queue = <<>> THEN queue ELSE Tail(queue)

Init ==
  /\ now = 0
  /\ queue = <<>>
  /\ count = MaxSize
  /\ mux = Free
  /\ oldestRemoved = 1
  /\ encPc = "idle" /\ encElem = Null /\ encStamp = 0 /\ encSlot = 1
  /\ produced = 0
  /\ remPc = "check" /\ remNow = 0 /\ remStamp = 0
  /\ alarm = Off /\ tmrPc = "idle"
  /\ txPc = [c \in Clients |-> "receive"]
  /\ pend = [c \in Clients |-> 0]
  /\ sent = [c \in Clients |-> Null]
  /\ panic = FALSE

-----------------------------------------------------------------------------
(* The encoder task: write_callback and wire_chunk_fifo_insert.            *)

\* The FLAC library hands an encoded block to write_callback.
EncFrame ==
  /\ encPc = "idle"
  /\ produced < MaxChunks
  /\ produced' = produced + 1
  /\ encPc' = "emptyLock"
  /\ UNCHANGED << now, queue, count, mux, oldestRemoved, encElem, encStamp, encSlot,
                  remVars, tmrVars, txVars, panic >>

EncEmptyLock ==
  /\ encPc = "emptyLock"
  /\ Lock(EncoderTask)
  /\ encPc' = "emptyRead"
  /\ UNCHANGED << now, queue, count, oldestRemoved, encElem, encStamp, encSlot,
                  produced, remVars, tmrVars, txVars, panic >>

EncEmptyRead ==
  /\ encPc = "emptyRead"
  /\ Unlock(EncoderTask)
  /\ encPc' = IF queue = <<>> THEN "stampSec" ELSE "newestLock"
  /\ UNCHANGED << now, queue, count, oldestRemoved, encElem, encStamp, encSlot,
                  produced, remVars, tmrVars, txVars, panic >>

\* timestamp.sec and timestamp.usec come from two readings of the clock.
EncStampSec ==
  /\ encPc = "stampSec"
  /\ encStamp' = Second * ((now + Lead) \div Second)
  /\ encPc' = "stampUsec"
  /\ UNCHANGED << now, queue, count, mux, oldestRemoved, encElem, encSlot,
                  produced, remVars, tmrVars, txVars, panic >>

EncStampUsec ==
  /\ encPc = "stampUsec"
  /\ encStamp' = encStamp + ((now + Lead) % Second)
  /\ encPc' = "take"
  /\ UNCHANGED << now, queue, count, mux, oldestRemoved, encElem, encSlot,
                  produced, remVars, tmrVars, txVars, panic >>

EncNewestLock ==
  /\ encPc = "newestLock"
  /\ Lock(EncoderTask)
  /\ encPc' = "newestRead"
  /\ UNCHANGED << now, queue, count, oldestRemoved, encElem, encStamp, encSlot,
                  produced, remVars, tmrVars, txVars, panic >>

\* Variant: stamps from the oldest chunk instead of the newest.
EncNewestReadsOldest ==
  /\ encPc = "newestRead"
  /\ Unlock(EncoderTask)
  /\ encElem' = IF queue = <<>> THEN Null ELSE Head(queue).id
  /\ encPc' = "stampNext"
  /\ UNCHANGED << now, queue, count, oldestRemoved, encStamp, encSlot,
                  produced, remVars, tmrVars, txVars, panic >>

EncNewestRead ==
  /\ encPc = "newestRead"
  /\ Unlock(EncoderTask)
  /\ encElem' = NewestId
  /\ encPc' = "stampNext"
  /\ UNCHANGED << now, queue, count, oldestRemoved, encStamp, encSlot,
                  produced, remVars, tmrVars, txVars, panic >>

\* The predecessor is dereferenced after the unlock.  Without one the new
\* chunk is forgotten; one that was freed meanwhile yields any stamp.
EncStampNext ==
  /\ encPc = "stampNext"
  /\ \/ /\ encElem = Null
        /\ encPc' = "idle"
        /\ UNCHANGED encStamp
     \/ /\ \E i \in DOMAIN queue : /\ queue[i].id = encElem
                                   /\ encStamp' = queue[i].ts + Offset
        /\ encPc' = "take"
     \/ /\ encElem # Null /\ encElem \notin Ids(queue)
        /\ encStamp' \in GarbageStamps
        /\ encPc' = "take"
  /\ encElem' = Null
  /\ UNCHANGED << now, queue, count, mux, oldestRemoved, encSlot,
                  produced, remVars, tmrVars, txVars, panic >>

\* Variant: takes a slot without waiting for one.
EncTakeNoWait ==
  /\ encPc = "take"
  /\ count' = count - 1
  /\ encPc' = "insertLock"
  /\ UNCHANGED << now, queue, mux, oldestRemoved, encElem, encStamp, encSlot,
                  produced, remVars, tmrVars, txVars, panic >>

\* wire_chunk_fifo_insert waits for a free slot ...
EncTake ==
  /\ encPc = "take"
  /\ count > 0
  /\ count' = count - 1
  /\ encPc' = "insertLock"
  /\ UNCHANGED << now, queue, mux, oldestRemoved, encElem, encStamp, encSlot,
                  produced, remVars, tmrVars, txVars, panic >>

EncInsertLock ==
  /\ encPc = "insertLock"
  /\ Lock(EncoderTask)
  /\ encPc' = "insert"
  /\ UNCHANGED << now, queue, count, oldestRemoved, encElem, encStamp, encSlot,
                  produced, remVars, tmrVars, txVars, panic >>

\* Variant: inserts at the head of the list.
EncInsertHead ==
  /\ encPc = "insert"
  /\ Unlock(EncoderTask)
  /\ queue' = << [id |-> produced, ts |-> encStamp] >> \o queue
  /\ encStamp' = 0
  /\ encPc' = "notify" /\ encSlot' = 1
  /\ UNCHANGED << now, count, oldestRemoved, encElem,
                  produced, remVars, tmrVars, txVars, panic >>

EncInsert ==
  /\ encPc = "insert"
  /\ Unlock(EncoderTask)
  /\ queue' = Append(queue, [id |-> produced, ts |-> encStamp])
  /\ encStamp' = 0
  /\ encPc' = "notify" /\ encSlot' = 1
  /\ UNCHANGED << now, count, oldestRemoved, encElem,
                  produced, remVars, tmrVars, txVars, panic >>

\* ... and tells the subscribers in slot order, waiting for room in each queue.
EncNotify ==
  /\ encPc = "notify" /\ encSlot \in Clients
  /\ pend[encSlot] < QLen
  /\ pend' = [pend EXCEPT ![encSlot] = @ + 1]
  /\ encSlot' = encSlot + 1
  /\ UNCHANGED << now, queue, count, mux, oldestRemoved, encPc, encElem, encStamp,
                  produced, remVars, tmrVars, txPc, sent, panic >>

\* Variant: the loop over the subscribers may end one slot early.
EncReturnEarly ==
  /\ encPc = "notify" /\ encSlot >= NClients
  /\ encPc' = "idle" /\ encSlot' = 1
  /\ UNCHANGED << now, queue, count, mux, oldestRemoved, encElem, encStamp,
                  produced, remVars, tmrVars, txVars, panic >>

EncReturn ==
  /\ encPc = "notify" /\ encSlot \notin Clients
  /\ encPc' = "idle" /\ encSlot' = 1
  /\ UNCHANGED << now, queue, count, mux, oldestRemoved, encElem, encStamp,
                  produced, remVars, tmrVars, txVars, panic >>

WriteCallback ==
  \/ EncEmptyLock \/ EncEmptyRead \/ EncStampSec \/ EncStampUsec
  \/ EncNewestLock \/ EncNewestRead \/ EncStampNext
  \/ EncTake \/ EncInsertLock \/ EncInsert \/ EncNotify \/ EncReturn

-----------------------------------------------------------------------------
(* wire_chunk_fifo_remove_oldest_task.  While the fifo is not full the     *)
(* task only sleeps.                                                       *)

\* Variant: does not look whether the fifo is full.
RemCheckAlways ==
  /\ remPc = "check"
  /\ remPc' = "clock"
  /\ UNCHANGED << now, queue, count, mux, oldestRemoved, encVars, remNow, remStamp,
                  tmrVars, txVars, panic >>

RemCheck ==
  /\ remPc = "check"
  /\ count = 0
  /\ remPc' = "clock"
  /\ UNCHANGED << now, queue, count, mux, oldestRemoved, encVars, remNow, remStamp,
                  tmrVars, txVars, panic >>

RemClock ==
  /\ remPc = "clock"
  /\ remNow' = now
  /\ remPc' = "lock"
  /\ UNCHANGED << now, queue, count, mux, oldestRemoved, encVars, remStamp,
                  tmrVars, txVars, panic >>

RemLock ==
  /\ remPc = "lock"
  /\ Lock(RemoverTask)
  /\ remPc' = "read"
  /\ UNCHANGED << now, queue, count, oldestRemoved, encVars, remNow, remStamp,
                  tmrVars, txVars, panic >>

\* The oldest chunk is read without a test for null.
RemReadOldest ==
  /\ remPc = "read" /\ queue # <<>>
  /\ Unlock(RemoverTask)
  /\ remStamp' = Head(queue).ts
  /\ remPc' = IF remNow > remStamp' + Buf THEN "removeLock" ELSE "arm"
  /\ UNCHANGED << now, queue, count, oldestRemoved, encVars, remNow,
                  tmrVars, txVars, panic >>

RemReadNull ==
  /\ remPc = "read" /\ queue = <<>>
  /\ panic' = TRUE
  /\ UNCHANGED << now, queue, count, mux, oldestRemoved, encVars, remVars,
                  tmrVars, txVars >>

RemRemoveLock ==
  /\ remPc = "removeLock"
  /\ Lock(RemoverTask)
  /\ remPc' = "remove"
  /\ UNCHANGED << now, queue, count, oldestRemoved, encVars, remNow, remStamp,
                  tmrVars, txVars, panic >>

RemRemove ==
  /\ remPc = "remove"
  /\ Unlock(RemoverTask)
  /\ DeleteOldest
  /\ remPc' = "giveCount"
  /\ UNCHANGED << now, count, oldestRemoved, encVars, remNow, remStamp,
                  tmrVars, txVars, panic >>

RemGiveCount ==
  /\ remPc = "giveCount"
  /\ GiveCount
  /\ remPc' = "check" /\ remNow' = 0 /\ remStamp' = 0
  /\ UNCHANGED << now, queue, mux, oldestRemoved, encVars,
                  tmrVars, txVars, panic >>

\* Starting a timer that is already armed fails, and the failure is ignored.
RemArm ==
  /\ remPc = "arm"
  /\ alarm' = IF alarm = Off THEN now + (remStamp + Buf - remNow) ELSE alarm
  /\ remPc' = "await" /\ remNow' = 0 /\ remStamp' = 0
  /\ UNCHANGED << now, queue, count, mux, oldestRemoved, encVars,
                  tmrPc, txVars, panic >>

RemAwait ==
  /\ remPc = "await"
  /\ oldestRemoved = 1
  /\ oldestRemoved' = 0
  /\ remPc' = "check"
  /\ UNCHANGED << now, queue, count, mux, encVars, remNow, remStamp,
                  tmrVars, txVars, panic >>

Remover ==
  \/ RemCheck \/ RemClock \/ RemLock \/ RemReadOldest \/ RemReadNull
  \/ RemRemoveLock \/ RemRemove \/ RemGiveCount \/ RemArm \/ RemAwait

-----------------------------------------------------------------------------
(* The esp_timer task: one callback at a time, the alarm cleared before    *)
(* the callback is called.                                                 *)

\* Variant: gives the token before the removal as well as after it.
TmrFireSignals ==
  /\ tmrPc = "idle"
  /\ alarm # Off /\ now >= alarm
  /\ alarm' = Off
  /\ oldestRemoved' = 1
  /\ tmrPc' = "lock"
  /\ UNCHANGED << now, queue, count, mux, encVars, remVars, txVars, panic >>

TmrFire ==
  /\ tmrPc = "idle"
  /\ alarm # Off /\ now >= alarm
  /\ alarm' = Off
  /\ tmrPc' = "lock"
  /\ UNCHANGED << now, queue, count, mux, oldestRemoved, encVars, remVars,
                  txVars, panic >>

TmrLock ==
  /\ tmrPc = "lock"
  /\ Lock(TimerTask)
  /\ tmrPc' = "remove"
  /\ UNCHANGED << now, queue, count, oldestRemoved, encVars, remVars, alarm,
                  txVars, panic >>

TmrRemove ==
  /\ tmrPc = "remove"
  /\ Unlock(TimerTask)
  /\ DeleteOldest
  /\ tmrPc' = "giveCount"
  /\ UNCHANGED << now, count, oldestRemoved, encVars, remVars, alarm,
                  txVars, panic >>

\* Variant: forgets to give the slot back.
TmrForgetsCount ==
  /\ tmrPc = "giveCount"
  /\ tmrPc' = "signal"
  /\ UNCHANGED << now, queue, count, mux, oldestRemoved, encVars, remVars, alarm,
                  txVars, panic >>

TmrGiveCount ==
  /\ tmrPc = "giveCount"
  /\ GiveCount
  /\ tmrPc' = "signal"
  /\ UNCHANGED << now, queue, mux, oldestRemoved, encVars, remVars, alarm,
                  txVars, panic >>

\* Variant: wakes nobody.
TmrNoSignal ==
  /\ tmrPc = "signal"
  /\ tmrPc' = "idle"
  /\ UNCHANGED << now, queue, count, mux, oldestRemoved, encVars, remVars, alarm,
                  txVars, panic >>

TmrSignal ==
  /\ tmrPc = "signal"
  /\ oldestRemoved' = 1
  /\ tmrPc' = "idle"
  /\ UNCHANGED << now, queue, count, mux, encVars, remVars, alarm,
                  txVars, panic >>

Timer == TmrFire \/ TmrLock \/ TmrRemove \/ TmrGiveCount \/ TmrSignal

-----------------------------------------------------------------------------
(* send_new_wire_chunk_task of client c, once it is registered.            *)

TxReceive(c) ==
  /\ txPc[c] = "receive"
  /\ pend[c] > 0
  /\ pend' = [pend EXCEPT ![c] = @ - 1]
  /\ txPc' = [txPc EXCEPT ![c] = "lock"]
  /\ UNCHANGED << now, queue, count, mux, oldestRemoved, encVars, remVars,
                  tmrVars, sent, panic >>

TxLock(c) ==
  /\ txPc[c] = "lock"
  /\ Lock(c)
  /\ txPc' = [txPc EXCEPT ![c] = "send"]
  /\ UNCHANGED << now, queue, count, oldestRemoved, encVars, remVars,
                  tmrVars, pend, sent, panic >>

\* Variant: sends the oldest chunk.
TxSendOldest(c) ==
  /\ txPc[c] = "send"
  /\ Unlock(c)
  /\ sent' = [sent EXCEPT ![c] = IF queue = <<>> THEN @ ELSE Head(queue).id]
  /\ txPc' = [txPc EXCEPT ![c] = "receive"]
  /\ UNCHANGED << now, queue, count, oldestRemoved, encVars, remVars,
                  tmrVars, pend, panic >>

\* The newest chunk is sent, whichever chunk the notification was about, and
\* the mutex is held for as long as the socket takes.
TxSend(c) ==
  /\ txPc[c] = "send"
  /\ Unlock(c)
  /\ sent' = [sent EXCEPT ![c] = IF queue = <<>> THEN @ ELSE NewestId]
  /\ txPc' = [txPc EXCEPT ![c] = "receive"]
  /\ UNCHANGED << now, queue, count, oldestRemoved, encVars, remVars,
                  tmrVars, pend, panic >>

Tx(c) == TxReceive(c) \/ TxLock(c) \/ TxSend(c)

-----------------------------------------------------------------------------

Tick ==
  /\ now < MaxTime \/ now < alarm
  /\ now' = now + 1
  /\ UNCHANGED << queue, count, mux, oldestRemoved, encVars, remVars,
                  tmrVars, txVars, panic >>

Tasks == EncFrame \/ WriteCallback \/ Remover \/ Timer \/ (\E c \in Clients : Tx(c)) \/ Tick

Next == ~panic /\ Tasks

Spec == Init /\ [][Next]_vars

\* Every task runs when it can: each blocks between bounded pieces of work, so
\* none of them keeps a task of a lower priority from the two cores for ever.
\* Nothing says that the source delivers another block.
Fairness ==
  /\ WF_vars(~panic /\ WriteCallback)
  /\ WF_vars(~panic /\ Remover)
  /\ WF_vars(~panic /\ Timer)
  /\ \A c \in Clients : WF_vars(~panic /\ Tx(c))
  /\ WF_vars(~panic /\ Tick)

FairSpec == Spec /\ Fairness

-----------------------------------------------------------------------------
(* Properties.                                                             *)

\* Every variable keeps its type; in particular countSemaphore stays within
\* 0 .. MaxSize and a msgQ within its capacity.
TypeOk ==
  /\ now \in Nat
  /\ queue \in Seq([id : Nat \ {0}, ts : Nat])
  /\ count \in 0 .. MaxSize
  /\ mux \in Holders \cup {Free}
  /\ oldestRemoved \in {0, 1}
  /\ encPc \in {"idle", "emptyLock", "emptyRead", "stampSec", "stampUsec", "newestLock",
                "newestRead", "stampNext", "take", "insertLock", "insert", "notify"}
  /\ encElem \in Nat /\ encStamp \in Nat /\ encSlot \in 1 .. NClients + 1
  /\ produced \in Nat
  /\ remPc \in {"check", "clock", "lock", "read", "removeLock", "remove", "giveCount",
                "arm", "await"}
  /\ remNow \in Nat /\ remStamp \in Nat
  /\ alarm \in Nat \cup {Off}
  /\ tmrPc \in {"idle", "lock", "remove", "giveCount", "signal"}
  /\ txPc \in [Clients -> {"receive", "lock", "send"}]
  /\ pend \in [Clients -> 0 .. QLen]
  /\ sent \in [Clients -> Nat]
  /\ panic \in BOOLEAN

One(b) == IF b THEN 1 ELSE 0

\* Slots taken by the encoder whose chunk is not in the list yet, and slots of
\* chunks that left it and are not given back yet.
Inserting == One(encPc \in {"insertLock", "insert"})
Giving == One(remPc = "giveCount") + One(tmrPc = "giveCount")

\* No slot is lost or invented: every slot is free, held by a chunk in the list,
\* or in the hands of a task between its semaphore and its list operation.
SlotAccounting == count + Len(queue) + Inserting + Giving = MaxSize

\* Removals under way: by the timer (armed, or its callback not at the list yet)
\* and by the remover (from its look at the semaphore to its decision's effect).
TimerRemovals == One(alarm # Off) + One(tmrPc \in {"lock", "remove"})
RemoverRemovals == One(remPc \in {"clock", "lock", "read", "removeLock", "remove", "arm"})

\* Remover and timer never overshoot: while removals are under way, they and the
\* slots that are free already or about to be are two at most, so a full fifo is
\* never drained by tasks that both believe it is full.
RemovalsBounded ==
  TimerRemovals + RemoverRemovals > 0
    => count + Giving + TimerRemovals + RemoverRemovals <= 2

\* The chunk that write_callback dereferences after wire_chunk_fifo_unlock has
\* not been freed by the remover or the timer meanwhile.
HeldElementLive ==
  encPc = "stampNext" => encElem # Null /\ encElem \in Ids(queue)

\* The remove-oldest task never finds the list empty behind a full semaphore.
OldestExists == ~panic /\ (remPc = "read" => queue # <<>>)

\* While the remove-oldest task waits, a token or a timer that will give one is
\* outstanding: the fifo does not stay full for ever.
WakeupPending ==
  remPc = "await" => oldestRemoved = 1 \/ alarm # Off \/ tmrPc # "idle"

\* Back pressure bounds a client's lag: the chunk last sent to it is at most
\* QLen + 2 chunks behind the newest one.
LagBounded ==
  queue # <<>> => \A c \in Clients : NewestId - sent[c] <= QLen + 2

\* The list is the sliding window of AudioWindow: bounded, without gaps, never
\* empty again, and no chunk dropped more than one block before its time.
Window == INSTANCE AudioWindow
            WITH Size <- MaxSize, Step <- Offset, Life <- Buf, Ahead <- Lead,
                 window <- queue, clock <- now
ImplementsWindow == Window!Spec

\* "wait for oldest to become obsolete": a chunk leaves the list only once it is
\* Buf old.  The initial token of oldestRemoved defeats the first wait, after
\* which the remover and the timer it armed can remove a chunk each.
DropsOnlyObsolete ==
  [][Len(queue') < Len(queue) => now >= Head(queue).ts + Buf]_<<queue, now>>

\* wire_chunk_fifo_insert always returns: neither the slots nor the message
\* queues keep the encoder waiting for ever.
InsertReturns == (encPc # "idle") ~> (encPc = "idle")

\* Every client is eventually sent the newest chunk, or a later one.
Fresh == \A c \in Clients, n \in 1 .. MaxChunks :
           (queue # <<>> /\ NewestId = n) ~> (sent[c] >= n)

-----------------------------------------------------------------------------
(* What makes the invariants above inductive (see WireChunkFifoProofs).    *)

\* A task is inside its critical section exactly while it holds mux.
MutualExclusion ==
  /\ (mux = EncoderTask) <=> encPc \in {"emptyRead", "newestRead", "insert"}
  /\ (mux = RemoverTask) <=> remPc \in {"read", "remove"}
  /\ (mux = TimerTask) <=> tmrPc = "remove"
  /\ \A c \in Clients : (mux = c) <=> txPc[c] = "send"

\* Tokens of oldestRemoved, present or still to come.
Signals == oldestRemoved + One(alarm # Off) + One(tmrPc # "idle")
SignalsBounded ==
  IF remPc = "await" THEN Signals \in 1 .. 2 ELSE Signals \in 0 .. 1

\* Where the stream is: the newest chunk is the last one produced, or the one
\* before it while the encoder still works on that.
Working == One(encPc \notin {"idle", "notify"})
StreamPosition ==
  /\ queue = <<>> => /\ produced = Working
                     /\ encPc \in {"idle", "emptyLock", "emptyRead", "stampSec",
                                  "stampUsec", "take", "insertLock", "insert"}
  /\ queue # <<>> => /\ NewestId = produced - Working
                     /\ encPc \notin {"stampSec", "stampUsec"}
  /\ encPc = "stampNext" => encElem = NewestId

Contiguous ==
  /\ \A i \in 1 .. Len(queue) : queue[i].id = NewestId - (Len(queue) - i)
  /\ \A i \in 1 .. Len(queue) - 1 : queue[i + 1].ts = queue[i].ts + Offset

\* The stamp the encoder is about to insert.
StampRight ==
  /\ encPc = "stampUsec" => encStamp <= Second * ((now + Lead) \div Second)
  /\ encPc \in {"take", "insertLock", "insert"} =>
       IF queue = <<>> THEN encStamp <= now + Lead
                       ELSE encStamp = queue[Len(queue)].ts + Offset

\* Nothing under way removes the oldest chunk more than one block too early.
Expiry == Head(queue).ts + Buf
DeadlinesRight ==
  /\ alarm # Off => alarm >= Expiry - Offset \/ now >= Expiry - Offset
  /\ alarm # Off /\ tmrPc \in {"lock", "remove"} => alarm >= Expiry
  /\ tmrPc \in {"lock", "remove"} => now >= Expiry - Offset
  /\ remPc \in {"lock", "read", "removeLock", "remove", "arm"} => remNow <= now
  /\ remPc \in {"removeLock", "remove", "arm"} =>
       /\ Expiry <= remStamp + Buf + Offset
       /\ TimerRemovals > 0 => Expiry <= remStamp + Buf
  /\ remPc \in {"removeLock", "remove"} => remNow > remStamp + Buf
  /\ remPc = "arm" => remNow <= remStamp + Buf

\* A chunk that a client has not been sent is announced in its queue, about to
\* be sent, or about to be announced.
Lag ==
  queue # <<>> => \A c \in Clients :
    NewestId - sent[c] <= pend[c] + One(txPc[c] # "receive")
                                  + One(encPc = "notify" /\ encSlot <= c)

FifoInv ==
  /\ TypeOk
  /\ MutualExclusion
  /\ SlotAccounting
  /\ SignalsBounded
  /\ RemovalsBounded
  /\ StreamPosition
  /\ Contiguous
  /\ StampRight
  /\ DeadlinesRight
  /\ Lag
  /\ ~panic
=============================================================================
