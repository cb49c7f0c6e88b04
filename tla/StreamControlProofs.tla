------------------------ MODULE StreamControlProofs ------------------------
(***************************************************************************)
(* Proofs about StreamControl, for every number of slots from four up and  *)
(* every number of requests, clients, queue entries and blocks.            *)
(*                                                                         *)
(* A deleted encoder task can take a slot, or mux, with it, and a clear    *)
(* can overtake removals, so that little of WireChunkFifo's invariant      *)
(* survives.  What does is StreamInv.  The number of removals under way is *)
(* bounded by the tokens of oldestRemoved, which no request touches, and   *)
(* that bounds what the removals can do to the slots.                      *)
(***************************************************************************)
EXTENDS StreamControl, WireChunkFifoProofs

-----------------------------------------------------------------------------
(* The inductive invariant.                                                *)

Underway == TimerRemovals + RemoverRemovals

\* What the encoder writes into the list is a chunk.
StreamTypes ==
  /\ StreamTypeOk
  /\ now \in Nat /\ produced \in Nat /\ encStamp \in Nat
  /\ queue \in Seq([id : Nat \ {0}, ts : Nat])
  /\ oldestRemoved \in {0, 1} /\ panic \in BOOLEAN
  /\ txPc \in [Clients -> {"receive", "lock", "send"}]

\* A task is in its critical section only while it holds mux.
CriticalSections ==
  /\ encPc \in {"emptyRead", "newestRead", "insert"} => mux = EncoderTask
  /\ remPc \in {"read", "remove"} => mux = RemoverTask
  /\ tmrPc = "remove" => mux = TimerTask
  /\ ctlPc = "clear" => mux = ControlTask
  /\ \A c \in Clients : txPc[c] = "send" => mux = c

\* Nobody else writes chunks while flac_encoder_deinit flushes, and nobody at all while
\* it clears.
OneWriter ==
  /\ ctlPc \in {"finish", "flush", "clearLock", "clear", "restart"} => ~encAlive
  /\ ~encAlive /\ ctlPc # "flush" => encPc = "idle"
  /\ encPc # "idle" => produced > 0

\* Half of SignalsBounded: the remover arms the timer only for a token it has taken.
SignalsAtMost ==
  oldestRemoved + One(alarm # Off) + One(tmrPc # "idle") <= 1 + One(remPc = "await")

\* RemovalsBounded, until a clear makes room behind a removal's back.
RemovalsUnlessStale == ~stale /\ Underway > 0 => count + Giving + Underway <= 2

\* Slots that are free, about to be, or in the encoder's hands, are too many by two at
\* most, even if every removal under way finds the list empty.
Surplus == count + Inserting + Giving + Underway <= MaxSize + 2

\* The predecessor that write_callback stamps from, or is about to.
HeldUnlessStale ==
  ~stale /\ Slots >= 3 /\ encPc \in {"newestLock", "newestRead", "stampNext"} =>
    queue # <<>> /\ (encPc = "stampNext" => encElem = NewestId)

PanicUnlessStale == panic => stale \/ Slots < 3

StreamInv ==
  /\ StreamTypes /\ CriticalSections /\ OneWriter /\ SignalsAtMost
  /\ RemovalsUnlessStale /\ Surplus /\ SlotsBounded /\ HeldUnlessStale /\ PanicUnlessStale

-----------------------------------------------------------------------------
(* Lemmas: what the steps do to slots and removals.                        *)

\* The counts are numbers.
LEMMA CountTypes ==
  /\ Inserting \in 0 .. 1 /\ Giving \in 0 .. 2
  /\ TimerRemovals \in 0 .. 2 /\ RemoverRemovals \in 0 .. 1 /\ Underway \in 0 .. 3
BY DEF Inserting, Giving, TimerRemovals, RemoverRemovals, Underway, One

\* There are two tasks that remove, and the timer is armed only while one of them waits.
LEMMA TwoRemovals ==
  /\ StreamTypes /\ SignalsAtMost => Giving + Underway <= 2
  /\ StreamTypes' /\ SignalsAtMost' => Giving' + Underway' <= 2
BY DEF StreamTypes, SignalsAtMost, Giving, Underway, TimerRemovals, RemoverRemovals, One

\* A step of remover or timer: nothing but a removal's course, the beginning of a removal
\* from a full fifo, its effect, and the slot it gives.
RemovalCourse ==
  \/ UNCHANGED << queue, count >> /\ Giving' = Giving /\ Underway' <= Underway
  \/ /\ UNCHANGED << queue, count >> /\ count = 0
     /\ Giving' = Giving /\ Underway' = Underway + 1
  \/ /\ DeleteOldest /\ UNCHANGED count
     /\ Giving' = Giving + 1 /\ Underway' = Underway - 1
  \/ GiveCount /\ UNCHANGED queue /\ Giving' = Giving - 1 /\ Underway' = Underway

\* The remove-oldest task moves slots by a removal's course only, and panics only on an empty
\* list.
LEMMA RemoverCourse ==
  ASSUME Remover
  PROVE  /\ RemovalCourse /\ UNCHANGED << now, encVars, txVars >>
         /\ panic' = panic \/ (remPc = "read" /\ queue = <<>> /\ UNCHANGED << queue, count, remVars, tmrVars >>)
<1> USE DEF RemovalCourse, Underway, TimerRemovals, RemoverRemovals, Giving, One, tmrVars
<1>1. CASE RemCheck
  BY <1>1 DEF RemCheck
<1>2. CASE RemClock \/ RemLock \/ RemRemoveLock \/ RemAwait
  BY <1>2 DEF RemClock, RemLock, RemRemoveLock, RemAwait
<1>3. CASE RemReadOldest
  BY <1>3 DEF RemReadOldest
<1>4. CASE RemReadNull
  BY <1>4 DEF RemReadNull, remVars
<1>5. CASE RemRemove
  BY <1>5 DEF RemRemove
<1>6. CASE RemGiveCount
  BY <1>6 DEF RemGiveCount
<1>7. CASE RemArm
  BY <1>7 DEF RemArm
<1> QED
  BY <1>1, <1>2, <1>3, <1>4, <1>5, <1>6, <1>7 DEF Remover

\* So does the timer, which never panics.
LEMMA TimerCourse ==
  ASSUME Timer
  PROVE  RemovalCourse /\ UNCHANGED << now, encVars, txVars, panic, remPc >>
<1> USE DEF RemovalCourse, Underway, TimerRemovals, RemoverRemovals, Giving, One, remVars
<1>1. CASE TmrFire \/ TmrLock \/ TmrSignal
  BY <1>1 DEF TmrFire, TmrLock, TmrSignal
<1>2. CASE TmrRemove
  BY <1>2 DEF TmrRemove
<1>3. CASE TmrGiveCount
  BY <1>3 DEF TmrGiveCount
<1> QED
  BY <1>1, <1>2, <1>3 DEF Timer

\* A step of write_callback moves no slot, takes one, or puts its chunk into the list.
LEMMA WriteCourse ==
  ASSUME StreamTypes, encPc # "idle" => produced > 0, WriteCallback
  PROVE  /\ UNCHANGED << now, oldestRemoved, produced, remVars, tmrVars, panic >>
         /\ \/ UNCHANGED << queue, count >> /\ Inserting' = Inserting
            \/ /\ UNCHANGED queue /\ count > 0 /\ count' = count - 1
               /\ Inserting = 0 /\ Inserting' = 1
            \/ /\ UNCHANGED count /\ Inserting = 1 /\ Inserting' = 0
               /\ queue' \in Seq([id : Nat \ {0}, ts : Nat]) /\ Len(queue') = Len(queue) + 1
<1> USE DEF Inserting, One, encVars, txVars
<1>1. CASE EncEmptyLock \/ EncEmptyRead \/ EncStampSec \/ EncStampUsec
  BY <1>1 DEF EncEmptyLock, EncEmptyRead, EncStampSec, EncStampUsec
<1>2. CASE EncNewestLock \/ EncNewestRead \/ EncStampNext
  BY <1>2 DEF EncNewestLock, EncNewestRead, EncStampNext
<1>3. CASE EncTake
  BY <1>3 DEF EncTake
<1>4. CASE EncInsertLock \/ EncNotify \/ EncReturn
  BY <1>4 DEF EncInsertLock, EncNotify, EncReturn
<1>5. CASE EncInsert
  <2>1. [id |-> produced, ts |-> encStamp] \in [id : Nat \ {0}, ts : Nat]
    BY <1>5 DEF EncInsert, StreamTypes
  <2>2. queue \in Seq([id : Nat \ {0}, ts : Nat])
    BY DEF StreamTypes
  <2> QED
    BY <1>5, <2>1, <2>2, AppendEnds DEF EncInsert
<1> QED
  BY <1>1, <1>2, <1>3, <1>4, <1>5 DEF WriteCallback

\* Removing the oldest chunk leaves a list with the newest one, or an empty one.
LEMMA DeleteFacts ==
  ASSUME StreamTypes, DeleteOldest
  PROVE  /\ queue' \in Seq([id : Nat \ {0}, ts : Nat])
         /\ queue = <<>> => queue' = <<>>
         /\ queue # <<>> => Len(queue') = Len(queue) - 1
         /\ Len(queue) > 1 => queue' # <<>> /\ NewestId' = NewestId
<1>1. queue \in Seq([id : Nat \ {0}, ts : Nat])
  BY DEF StreamTypes
<1>2. CASE queue = <<>>
  BY <1>1, <1>2 DEF DeleteOldest
<1>3. CASE Len(queue) > 1
  BY <1>1, <1>3, TailEnds DEF DeleteOldest, NewestId
<1>4. CASE Len(queue) = 1
  BY <1>1, <1>4, HeadTailProperties, LenProperties DEF DeleteOldest
<1>5. Len(queue) \in Nat /\ (queue = <<>> <=> Len(queue) = 0)
  BY <1>1, LenProperties, EmptySeq
<1>6. CASE Len(queue) = 0
  BY <1>2, <1>5, <1>6, EmptySeq
<1>7. PICK n \in Nat : Len(queue) = n
  BY <1>5
<1> QED
  BY <1>3, <1>4, <1>6, <1>7

\* What remover and timer do to the slots keeps their bounds.  A removal that finds the
\* list empty has been overtaken, or slots were lost.
LEMMA CourseKeeps ==
  ASSUME StreamInv, StreamTypes', SignalsAtMost', RemovalCourse, UNCHANGED << encVars, stale >>
  PROVE  RemovalsUnlessStale' /\ Surplus' /\ SlotsBounded' /\ HeldUnlessStale'
<1>1. /\ MaxSize \in Nat /\ MaxSize >= 4 /\ count \in 0 .. MaxSize /\ count' \in 0 .. MaxSize
      /\ Len(queue) \in Nat /\ Len(queue') \in Nat
      /\ queue = <<>> <=> Len(queue) = 0
      /\ queue' = <<>> <=> Len(queue') = 0
  BY FifoAssumption, LenProperties, EmptySeq DEF StreamInv, StreamTypes, StreamTypeOk
<1>2. Giving + Underway <= 2 /\ Giving' + Underway' <= 2
  BY TwoRemovals DEF StreamInv
<1>3. /\ RemovalsUnlessStale /\ Surplus /\ SlotsBounded /\ HeldUnlessStale
      /\ Inserting' = Inserting /\ stale' = stale /\ stale \in BOOLEAN
      /\ Slots \in Nat /\ Slots = count + Len(queue) + Inserting + Giving
      /\ Slots' = count' + Len(queue') + Inserting' + Giving'
  BY <1>1, CountTypes DEF StreamInv, StreamTypes, StreamTypeOk, encVars, Inserting, Slots
<1>4. PICK g \in 0 .. 2, u \in 0 .. 3 : Giving' = g /\ Underway' = u
  BY DEF Giving, Underway, TimerRemovals, RemoverRemovals, One
<1>5. CASE UNCHANGED << queue, count >> /\ Giving' = Giving /\ Underway' <= Underway
  <2>1. RemovalsUnlessStale' /\ Surplus' /\ SlotsBounded'
    <3>1. RemovalsUnlessStale'
      BY <1>1, <1>3, <1>4, <1>5, CountTypes DEF RemovalsUnlessStale
    <3>2. Surplus'
      BY <1>1, <1>3, <1>4, <1>5, CountTypes DEF Surplus
    <3>3. SlotsBounded'
      BY <1>1, <1>3, <1>4, <1>5, CountTypes DEF SlotsBounded
    <3> QED
      BY <3>1, <3>2, <3>3
  <2>2. HeldUnlessStale'
    BY <1>3, <1>5 DEF HeldUnlessStale, encVars, NewestId
  <2> QED
    BY <2>1, <2>2
<1>6. CASE /\ UNCHANGED << queue, count >> /\ count = 0
           /\ Giving' = Giving /\ Underway' = Underway + 1
  <2>1. RemovalsUnlessStale' /\ Surplus' /\ SlotsBounded'
    BY <1>1, <1>2, <1>3, <1>4, <1>6, CountTypes DEF RemovalsUnlessStale, Surplus, SlotsBounded
  <2>2. HeldUnlessStale'
    BY <1>3, <1>6 DEF HeldUnlessStale, encVars, NewestId
  <2> QED
    BY <2>1, <2>2
<1>7. CASE /\ DeleteOldest /\ UNCHANGED count
           /\ Giving' = Giving + 1 /\ Underway' = Underway - 1
  <2>1. /\ Len(queue) = 0 => Len(queue') = 0
        /\ Len(queue) > 0 => Len(queue') = Len(queue) - 1
        /\ Len(queue) > 1 => queue' # <<>> /\ NewestId' = NewestId
    BY <1>1, <1>7, DeleteFacts DEF StreamInv
  <2>2. RemovalsUnlessStale' /\ Surplus' /\ SlotsBounded'
    BY <1>1, <1>2, <1>3, <1>4, <1>7, <2>1, CountTypes
       DEF RemovalsUnlessStale, Surplus, SlotsBounded
  <2>3. HeldUnlessStale'
    <3> SUFFICES ASSUME ~stale, Slots' >= 3, encPc \in {"newestLock", "newestRead", "stampNext"}
                 PROVE  queue' # <<>> /\ (encPc = "stampNext" => encElem = NewestId')
      BY <1>3 DEF HeldUnlessStale, encVars
    <3>1. Inserting = 0 /\ count + Giving <= 1
      BY <1>1, <1>3, <1>4, <1>7, CountTypes DEF RemovalsUnlessStale, Inserting, One
    <3>2. Len(queue) > 1
      BY <1>1, <1>3, <1>7, <2>1, <3>1, CountTypes
    <3>3. Slots >= 3
      BY <1>1, <1>3, <1>7, <2>1, <3>1, <3>2, CountTypes
    <3> QED
      BY <1>3, <2>1, <3>2, <3>3 DEF HeldUnlessStale
  <2> QED
    BY <2>2, <2>3
<1>8. CASE GiveCount /\ UNCHANGED queue /\ Giving' = Giving - 1 /\ Underway' = Underway
  <2>1. PICK k \in 0 .. MaxSize : count' = k /\ k <= count + 1
    BY <1>1, <1>8 DEF GiveCount
  <2>2. RemovalsUnlessStale' /\ Surplus' /\ SlotsBounded'
    <3>1. RemovalsUnlessStale'
      BY <1>1, <1>3, <1>4, <1>8, <2>1, CountTypes DEF RemovalsUnlessStale
    <3>2. Surplus'
      BY <1>1, <1>3, <1>4, <1>8, <2>1, CountTypes DEF Surplus
    <3>3. SlotsBounded'
      BY <1>1, <1>3, <1>4, <1>8, <2>1, CountTypes DEF SlotsBounded
    <3> QED
      BY <3>1, <3>2, <3>3
  <2>3. Slots' <= Slots
    BY <1>1, <1>3, <1>4, <1>8, <2>1, CountTypes
  <2>4. HeldUnlessStale'
    BY <1>1, <1>3, <1>4, <1>8, <2>3, CountTypes DEF HeldUnlessStale, encVars, NewestId
  <2> QED
    BY <2>2, <2>4
<1> QED
  BY <1>5, <1>6, <1>7, <1>8 DEF RemovalCourse

\* What write_callback does to the slots, too: it takes those that are free.
LEMMA WriteKeeps ==
  ASSUME StreamInv, WriteCallback, UNCHANGED stale
  PROVE  RemovalsUnlessStale' /\ Surplus' /\ SlotsBounded' /\ HeldUnlessStale'
<1>1. /\ MaxSize \in Nat /\ MaxSize >= 4 /\ count \in 0 .. MaxSize
      /\ Len(queue) \in Nat /\ queue \in Seq([id : Nat \ {0}, ts : Nat])
  BY FifoAssumption, LenProperties DEF StreamInv, StreamTypes, StreamTypeOk
<1>2. /\ RemovalsUnlessStale /\ Surplus /\ SlotsBounded /\ HeldUnlessStale
      /\ Slots \in Nat /\ Slots = count + Len(queue) + Inserting + Giving
      /\ Slots' = count' + Len(queue') + Inserting' + Giving'
      /\ Giving' = Giving /\ Underway' = Underway
  BY <1>1, CountTypes, WriteCourse
     DEF StreamInv, OneWriter, Slots, Giving, Underway, TimerRemovals, RemoverRemovals, remVars, tmrVars
<1>3. /\ UNCHANGED << stale, remVars, tmrVars >>
      /\ \/ UNCHANGED << queue, count >> /\ Inserting' = Inserting
         \/ /\ UNCHANGED queue /\ count > 0 /\ count' = count - 1
            /\ Inserting = 0 /\ Inserting' = 1
         \/ /\ UNCHANGED count /\ Inserting = 1 /\ Inserting' = 0
            /\ queue' \in Seq([id : Nat \ {0}, ts : Nat]) /\ Len(queue') = Len(queue) + 1
  BY WriteCourse DEF StreamInv, OneWriter
<1>4. RemovalsUnlessStale' /\ Surplus' /\ SlotsBounded' /\ Slots' = Slots
  <2>1. PICK i \in 0 .. 1, k \in Int, n \in Int :
          /\ Inserting' = i /\ count' = k /\ Len(queue') = n
          /\ k <= count /\ k + i <= count + Inserting /\ k + n + i = count + Len(queue) + Inserting
    <3>1. CASE UNCHANGED << queue, count >> /\ Inserting' = Inserting
      BY <1>1, <3>1, CountTypes
    <3>2. CASE /\ UNCHANGED queue /\ count > 0 /\ count' = count - 1
               /\ Inserting = 0 /\ Inserting' = 1
      BY <1>1, <3>2
    <3>3. CASE /\ UNCHANGED count /\ Inserting = 1 /\ Inserting' = 0
               /\ Len(queue') = Len(queue) + 1
      BY <1>1, <3>3
    <3> QED
      BY <1>3, <3>1, <3>2, <3>3
  <2>2. RemovalsUnlessStale'
    BY <1>1, <1>2, <1>3, <2>1, CountTypes DEF RemovalsUnlessStale
  <2>3. Surplus'
    BY <1>1, <1>2, <1>3, <2>1, CountTypes DEF Surplus
  <2>4. Slots' = Slots
    BY <1>1, <1>2, <2>1, CountTypes
  <2>5. SlotsBounded'
    BY <1>2, <1>3, <2>4 DEF SlotsBounded
  <2> QED
    BY <2>2, <2>3, <2>4, <2>5
<1>5. HeldUnlessStale'
  <2>1. CASE EncEmptyRead \/ EncNewestLock
    BY <1>2, <1>4, <2>1 DEF EncEmptyRead, EncNewestLock, HeldUnlessStale, NewestId
  <2>2. CASE EncNewestRead
    BY <1>2, <1>4, <2>2 DEF EncNewestRead, HeldUnlessStale, NewestId
  <2>3. CASE ~(EncEmptyRead \/ EncNewestLock \/ EncNewestRead)
    <3>1. encPc' \notin {"newestLock", "newestRead", "stampNext"}
      BY <2>3 DEF WriteCallback, EncEmptyLock, EncStampSec, EncStampUsec, EncStampNext, EncTake,
                  EncInsertLock, EncInsert, EncNotify, EncReturn
    <3> QED
      BY <3>1 DEF HeldUnlessStale
  <2> QED
    BY <2>1, <2>2, <2>3
<1> QED
  BY <1>4, <1>5

-----------------------------------------------------------------------------
(* Each group of actions keeps the invariant.                              *)

\* Fifo steps leave the control alone.
LEMMA ControlUntouched ==
  ASSUME StreamTypes, UNCHANGED << ctlVars, stale >>,
         count' \in 0 .. MaxSize, mux' \in Holders \cup {Free, ControlTask}
  PROVE  StreamTypeOk'
BY DEF StreamTypes, StreamTypeOk, ctlVars

\* The remover's steps keep the invariant: its removals start with a full fifo, so that even
\* overtaken ones bring in no third slot.
LEMMA RemoverKeeps ==
  ASSUME StreamInv, ~panic, StreamRemover
  PROVE  StreamInv'
<1> USE DEF StreamInv, StreamRemover
<1>1. StreamTypes'
  <2> USE FifoAssumption
      DEF Lock, Unlock, Holders, Free, encVars, remVars, tmrVars, txVars
  <2>1. CASE RemCheck \/ RemClock \/ RemLock \/ RemReadOldest \/ RemReadNull \/ RemRemoveLock
    <3>1. /\ UNCHANGED << now, queue, count, oldestRemoved, encVars >> /\ panic' \in BOOLEAN
          /\ mux' \in {mux, Free, RemoverTask} /\ UNCHANGED txPc
      BY <2>1 DEF RemCheck, RemClock, RemLock, RemReadOldest, RemReadNull, RemRemoveLock,
                  StreamTypes
    <3> QED
      BY <3>1, ControlUntouched DEF StreamTypes, StreamTypeOk
  <2>2. CASE RemRemove
    BY <2>2, DeleteFacts, ControlUntouched DEF RemRemove, StreamTypes, StreamTypeOk
  <2>3. CASE RemGiveCount
    BY <2>3, ControlUntouched DEF RemGiveCount, GiveCount, StreamTypes, StreamTypeOk
  <2>4. CASE RemArm \/ RemAwait
    BY <2>4, ControlUntouched DEF RemArm, RemAwait, StreamTypes, StreamTypeOk
  <2> QED
    BY <2>1, <2>2, <2>3, <2>4 DEF Remover
<1>6. CriticalSections'
  <2> USE DEF CriticalSections, Lock, Unlock, Free, encVars, tmrVars, txVars, ctlVars,
              EncoderTask, RemoverTask, TimerTask, ControlTask, Clients
  <2>1. CASE RemLock \/ RemRemoveLock
    BY <2>1 DEF RemLock, RemRemoveLock
  <2>2. CASE RemReadOldest \/ RemRemove
    BY <2>2 DEF RemReadOldest, RemRemove
  <2>3. CASE RemReadNull
    BY <2>3 DEF RemReadNull, remVars
  <2>4. CASE RemCheck \/ RemClock \/ RemGiveCount \/ RemArm \/ RemAwait
    BY <2>4 DEF RemCheck, RemClock, RemGiveCount, RemArm, RemAwait
  <2> QED
    BY <2>1, <2>2, <2>3, <2>4 DEF Remover
<1>2. OneWriter'
  BY RemoverCourse DEF OneWriter, encVars, ctlVars
<1>3. SignalsAtMost'
  <2> USE DEF SignalsAtMost, StreamTypes, One, remVars, tmrVars
  <2>1. CASE RemArm
    BY <2>1 DEF RemArm
  <2>2. CASE RemAwait
    BY <2>2 DEF RemAwait
  <2>3. CASE ~(RemArm \/ RemAwait)
    BY <2>3 DEF Remover, RemCheck, RemClock, RemLock, RemRemoveLock, RemReadOldest, RemReadNull,
                RemRemove, RemGiveCount
  <2> QED
    BY <2>1, <2>2, <2>3
<1>4. RemovalsUnlessStale' /\ Surplus' /\ SlotsBounded' /\ HeldUnlessStale'
  BY <1>1, <1>3, RemoverCourse, CourseKeeps
<1>5. PanicUnlessStale'
  <2>1. CASE panic' = panic
    BY <2>1 DEF PanicUnlessStale
  <2>2. CASE remPc = "read" /\ queue = <<>> /\ UNCHANGED << queue, count, remVars, tmrVars >>
    <3>1. Slots' = Slots /\ Slots = count + Inserting + Giving
      BY <2>2, RemoverCourse DEF Slots, Inserting, Giving, encVars, remVars, tmrVars, StreamTypes,
                                 StreamTypeOk, One
    <3>2. Underway > 0
      BY <2>2 DEF Underway, RemoverRemovals, TimerRemovals, One
    <3> QED
      BY <3>1, <3>2, CountTypes
         DEF PanicUnlessStale, RemovalsUnlessStale, StreamTypes, StreamTypeOk
  <2> QED
    BY <2>1, <2>2, RemoverCourse
<1> QED
  BY <1>1, <1>2, <1>3, <1>4, <1>5, <1>6

\* The timer's steps keep it: what it removes, a token has paid for.
LEMMA TimerKeeps ==
  ASSUME StreamInv, ~panic, StreamTimer
  PROVE  StreamInv'
<1> USE DEF StreamInv, StreamTimer
<1>1. StreamTypes'
  <2> USE FifoAssumption DEF Lock, Unlock, Holders, Free, encVars, remVars, tmrVars, txVars
  <2>1. CASE TmrFire \/ TmrLock \/ TmrSignal
    BY <2>1, ControlUntouched DEF TmrFire, TmrLock, TmrSignal, StreamTypes, StreamTypeOk
  <2>2. CASE TmrRemove
    BY <2>2, DeleteFacts, ControlUntouched DEF TmrRemove, StreamTypes, StreamTypeOk
  <2>3. CASE TmrGiveCount
    BY <2>3, ControlUntouched DEF TmrGiveCount, GiveCount, StreamTypes, StreamTypeOk
  <2> QED
    BY <2>1, <2>2, <2>3 DEF Timer
<1>2. CriticalSections'
  <2> USE DEF CriticalSections, Lock, Unlock, Free, encVars, remVars, txVars, ctlVars,
              EncoderTask, RemoverTask, TimerTask, ControlTask, Clients
  <2>1. CASE TmrLock \/ TmrRemove
    BY <2>1 DEF TmrLock, TmrRemove
  <2>2. CASE TmrFire \/ TmrGiveCount \/ TmrSignal
    BY <2>2 DEF TmrFire, TmrGiveCount, TmrSignal
  <2> QED
    BY <2>1, <2>2 DEF Timer
<1>3. OneWriter'
  BY TimerCourse DEF OneWriter, encVars, ctlVars
<1>4. SignalsAtMost'
  <2> USE DEF SignalsAtMost, StreamTypes, One, remVars
  <2>1. CASE TmrFire
    BY <2>1 DEF TmrFire
  <2>2. CASE TmrSignal
    BY <2>2 DEF TmrSignal
  <2>3. CASE TmrLock \/ TmrRemove \/ TmrGiveCount
    BY <2>3 DEF TmrLock, TmrRemove, TmrGiveCount
  <2> QED
    BY <2>1, <2>2, <2>3 DEF Timer
<1>5. RemovalsUnlessStale' /\ Surplus' /\ SlotsBounded' /\ HeldUnlessStale'
  BY <1>1, <1>4, TimerCourse, CourseKeeps
<1>6. PanicUnlessStale'
  BY TimerCourse DEF PanicUnlessStale
<1> QED
  BY <1>1, <1>2, <1>3, <1>4, <1>5, <1>6

\* write_callback keeps it, in the encoder task or in flac_encoder_deinit.
LEMMA WriterKeeps ==
  ASSUME StreamInv, ~panic, StreamWrite
  PROVE  StreamInv'
<1> USE DEF StreamInv, StreamWrite
<1>1. StreamTypes'
  <2>0. UNCHANGED txPc
    BY DEF WriteCallback, EncEmptyLock, EncEmptyRead, EncStampSec, EncStampUsec, EncNewestLock,
           EncNewestRead, EncStampNext, EncTake, EncInsertLock, EncInsert, EncNotify, EncReturn,
           txVars
  <2>1. /\ now' = now /\ oldestRemoved' = oldestRemoved /\ produced' = produced /\ panic' = panic
        /\ queue' \in Seq([id : Nat \ {0}, ts : Nat]) /\ count' \in 0 .. MaxSize
    <3> USE FifoAssumption DEF StreamTypes, StreamTypeOk
    <3>1. /\ UNCHANGED << now, oldestRemoved, produced, panic >>
          /\ \/ UNCHANGED << queue, count >>
             \/ UNCHANGED queue /\ count > 0 /\ count' = count - 1
             \/ UNCHANGED count /\ queue' \in Seq([id : Nat \ {0}, ts : Nat])
      BY WriteCourse DEF OneWriter
    <3>2. queue' \in Seq([id : Nat \ {0}, ts : Nat])
      BY <3>1
    <3>3. count' \in 0 .. MaxSize
      BY <3>1
    <3> QED
      BY <3>1, <3>2, <3>3
  <2>2. mux' \in {mux, Free, EncoderTask}
    BY DEF WriteCallback, EncEmptyLock, EncEmptyRead, EncStampSec, EncStampUsec, EncNewestLock,
           EncNewestRead, EncStampNext, EncTake, EncInsertLock, EncInsert, EncNotify, EncReturn,
           Lock, Unlock
  <2>3. encStamp' \in Nat
    <3>1. CASE EncStampSec \/ EncStampUsec
      <4>1. now + Lead \in Nat /\ Second \in Nat \ {0}
        BY FifoAssumption DEF StreamTypes
      <4>2. /\ Second * ((now + Lead) \div Second) \in Nat
            /\ (now + Lead) % Second \in Nat
        BY <4>1, WholeSeconds
      <4> QED
        BY <3>1, <4>2 DEF EncStampSec, EncStampUsec, StreamTypes
    <3>2. CASE EncStampNext
      <4>1. \A i \in DOMAIN queue : queue[i].ts + Offset \in Nat
        <5> DEFINE R == [id : Nat \ {0}, ts : Nat]
        <5>0. queue \in Seq(R)
          BY DEF StreamTypes
        <5> HIDE DEF R
        <5>1. \A i \in DOMAIN queue : queue[i] \in R
          BY <5>0, ElementOfSeq, LenProperties
        <5> USE DEF R
        <5> QED
          BY <5>1, FifoAssumption
      <4> QED
        BY <3>2, <4>1, FifoAssumption DEF EncStampNext, StreamTypes
    <3>3. CASE EncInsert
      BY <3>3 DEF EncInsert
    <3>4. CASE UNCHANGED encStamp
      BY <3>4 DEF StreamTypes
    <3> QED
      BY <3>1, <3>2, <3>3, <3>4
         DEF WriteCallback, EncEmptyLock, EncEmptyRead, EncNewestLock,
             EncNewestRead, EncTake, EncInsertLock, EncNotify, EncReturn
  <2> QED
    BY <2>0, <2>1, <2>2, <2>3, ControlUntouched DEF StreamTypes, StreamTypeOk, Holders
<1>2. CriticalSections'
  <2> USE DEF CriticalSections, Lock, Unlock, Free, remVars, tmrVars, txVars, ctlVars,
              EncoderTask, RemoverTask, TimerTask, ControlTask, Clients
  <2>1. CASE EncEmptyLock \/ EncNewestLock \/ EncInsertLock
    BY <2>1 DEF EncEmptyLock, EncNewestLock, EncInsertLock
  <2>2. CASE EncEmptyRead \/ EncNewestRead \/ EncInsert
    BY <2>2 DEF EncEmptyRead, EncNewestRead, EncInsert
  <2>3. CASE EncStampSec \/ EncStampUsec \/ EncStampNext \/ EncTake \/ EncNotify \/ EncReturn
    BY <2>3 DEF EncStampSec, EncStampUsec, EncStampNext, EncTake, EncNotify, EncReturn
  <2> QED
    BY <2>1, <2>2, <2>3 DEF WriteCallback
<1>3. OneWriter'
  <2>1. UNCHANGED << produced, encAlive, ctlPc >> /\ encPc # "idle"
    BY DEF ctlVars, WriteCallback, EncEmptyLock, EncEmptyRead, EncStampSec, EncStampUsec,
           EncNewestLock, EncNewestRead, EncStampNext, EncTake, EncInsertLock, EncInsert, EncNotify,
           EncReturn, encVars
  <2> QED
    BY <2>1 DEF OneWriter
<1>4. SignalsAtMost'
  BY WriteCourse DEF SignalsAtMost, OneWriter, remVars, tmrVars
<1>5. RemovalsUnlessStale' /\ Surplus' /\ SlotsBounded' /\ HeldUnlessStale'
  BY WriteKeeps
<1>6. PanicUnlessStale'
  BY WriteCourse DEF PanicUnlessStale, OneWriter
<1> QED
  BY <1>1, <1>2, <1>3, <1>4, <1>5, <1>6

\* A block, a client's step and the clock leave the slots alone.
LEMMA OthersKeep ==
  ASSUME StreamInv, ~panic,
         StreamFrame \/ (\E c \in Clients : StreamTx(c)) \/ StreamTick
  PROVE  StreamInv'
<1> USE DEF StreamInv
<1>1. /\ UNCHANGED << queue, count, oldestRemoved, encElem, encStamp, remPc, alarm, tmrPc, panic,
                      ctlVars, stale >>
      /\ \/ encAlive /\ encPc = "idle" /\ encPc' = "emptyLock" /\ produced' = produced + 1
         \/ UNCHANGED << encPc, produced >>
      /\ now' \in {now, now + 1}
  BY DEF StreamFrame, StreamTx, StreamTick, EncFrame, Tx, TxReceive, TxLock, TxSend, Tick,
         encVars, remVars, tmrVars, txVars
<1>2. /\ mux' \in {mux, Free} \cup Clients
      /\ CriticalSections'
  <2> USE DEF CriticalSections, Lock, Unlock, Free, encVars, remVars, tmrVars, txVars, ctlVars,
              EncoderTask, RemoverTask, TimerTask, ControlTask, Clients
  <2>1. CASE StreamFrame
    BY <2>1 DEF StreamFrame, EncFrame
  <2>2. CASE StreamTick
    BY <2>2 DEF StreamTick, Tick
  <2>3. ASSUME NEW c \in Clients, StreamTx(c)
        PROVE  mux' \in {mux, Free} \cup Clients /\ CriticalSections'
    <3>1. CASE TxReceive(c)
      BY <2>3, <3>1 DEF StreamTx, TxReceive
    <3>2. CASE TxLock(c)
      BY <2>3, <3>2 DEF StreamTx, TxLock
    <3>3. CASE TxSend(c)
      BY <2>3, <3>3 DEF StreamTx, TxSend, StreamTypes
    <3> QED
      BY <2>3, <3>1, <3>2, <3>3 DEF StreamTx, Tx
  <2> QED
    BY <2>1, <2>2, <2>3
<1>3. StreamTypes'
  <2>1. txPc' \in [Clients -> {"receive", "lock", "send"}]
    BY DEF StreamTypes, StreamFrame, StreamTx, StreamTick, EncFrame, Tx, TxReceive, TxLock, TxSend,
           Tick, txVars
  <2> QED
    BY <1>1, <1>2, <2>1, ControlUntouched DEF StreamTypes, StreamTypeOk, Holders
<1>4. OneWriter'
  BY <1>1 DEF OneWriter, StreamTypes, ctlVars
<1>5. UNCHANGED << Inserting, Giving, Underway, Slots, NewestId >>
  BY <1>1 DEF Inserting, Giving, Underway, TimerRemovals, RemoverRemovals, Slots, One, NewestId
<1>6. SignalsAtMost' /\ RemovalsUnlessStale' /\ Surplus' /\ SlotsBounded' /\ PanicUnlessStale'
  BY <1>1, <1>5 DEF SignalsAtMost, RemovalsUnlessStale, Surplus, SlotsBounded, PanicUnlessStale
<1>7. HeldUnlessStale'
  BY <1>1, <1>5 DEF HeldUnlessStale
<1> QED
  BY <1>2, <1>3, <1>4, <1>6, <1>7

\* A request changes where the control and the encoder are, until the clear: what the
\* encoder had taken is lost.
LEMMA RequestKeeps ==
  ASSUME StreamInv, ~panic,
         CtlRequest \/ CtlDelete \/ CtlFlush \/ CtlFinished \/ CtlClearLock \/ CtlRestart
  PROVE  StreamInv'
<1> USE DEF StreamInv
<1>1. /\ UNCHANGED << queue, count, oldestRemoved, remPc, alarm, tmrPc, txPc, panic, stale, now >>
      /\ \/ encPc' = encPc /\ encStamp' = encStamp /\ UNCHANGED produced
         \/ encPc' = "idle" /\ encStamp' = 0 /\ UNCHANGED produced
         \/ encPc' = "emptyLock" /\ encPc = "idle" /\ encStamp' = encStamp /\ produced' = produced + 1
      /\ encElem' = encElem \/ encPc' = "idle"
  <2> USE DEF vars, encVars, remVars, tmrVars, txVars
  <2>1. CASE CtlRequest \/ CtlFinished \/ CtlRestart \/ CtlClearLock
    BY <2>1 DEF CtlRequest, CtlFinished, CtlRestart, CtlClearLock
  <2>2. CASE CtlDelete \/ CtlFlush
    BY <2>2 DEF CtlDelete, CtlFlush, OneWriter
  <2> QED
    BY <2>1, <2>2
<1>2. StreamTypeOk'
  <2> USE StreamAssumption DEF StreamTypes, StreamTypeOk, vars
  <2>1. CASE CtlRequest
    BY <2>1 DEF CtlRequest
  <2>2. CASE CtlDelete \/ CtlFlush
    BY <2>2 DEF CtlDelete, CtlFlush
  <2>3. CASE CtlFinished \/ CtlRestart
    BY <2>3 DEF CtlFinished, CtlRestart
  <2>4. CASE CtlClearLock
    BY <2>4 DEF CtlClearLock, Lock
  <2> QED
    BY <2>1, <2>2, <2>3, <2>4
<1>3. StreamTypes'
  BY <1>1, <1>2 DEF StreamTypes
<1>4. CriticalSections'
  <2> USE DEF CriticalSections, Lock, Free, EncoderTask, RemoverTask, TimerTask, ControlTask, Clients
  <2>1. CASE CtlClearLock
    BY <1>1, <2>1 DEF CtlClearLock, encVars
  <2>2. CASE ~CtlClearLock
    <3>1. mux' = mux /\ ctlPc' # "clear"
      BY <2>2 DEF CtlRequest, CtlDelete, CtlFlush, CtlFinished, CtlRestart, vars
    <3> QED
      BY <1>1, <3>1
  <2> QED
    BY <2>1, <2>2
<1>5. OneWriter'
  BY DEF OneWriter, StreamTypes, StreamTypeOk, CtlRequest, CtlDelete, CtlFlush, CtlFinished,
         CtlClearLock, CtlRestart, vars, encVars
<1>6. /\ UNCHANGED << Giving, Underway, NewestId >>
      /\ Inserting' = Inserting \/ Inserting' = 0
  BY <1>1 DEF Inserting, Giving, Underway, TimerRemovals, RemoverRemovals, One, NewestId
<1>7. SignalsAtMost' /\ RemovalsUnlessStale'
  BY <1>1, <1>6 DEF SignalsAtMost, RemovalsUnlessStale
<1>8. /\ count \in Nat /\ MaxSize \in Nat /\ Len(queue) \in Nat
  BY FifoAssumption, LenProperties DEF StreamTypes, StreamTypeOk
<1>9. Surplus'
  BY <1>1, <1>6, <1>8, CountTypes DEF Surplus
<1>10. \E n \in Int : Slots' = n /\ n <= Slots
  BY <1>1, <1>6, <1>8, CountTypes DEF Slots
<1>11. SlotsBounded' /\ PanicUnlessStale'
  BY <1>1, <1>8, <1>10, CountTypes DEF SlotsBounded, PanicUnlessStale, Slots
<1>12. HeldUnlessStale'
  BY <1>1, <1>6, <1>8, <1>10, CountTypes DEF HeldUnlessStale, Slots
<1> QED
  BY <1>3, <1>4, <1>5, <1>7, <1>9, <1>11, <1>12

\* A clear makes the slots whole again, up to those that are about to be given.  Nothing is
\* being written meanwhile.
LEMMA ClearKeeps ==
  ASSUME StreamInv, ~panic, CtlClear
  PROVE  StreamInv'
<1> USE DEF StreamInv, CtlClear
<1>1. /\ UNCHANGED << now, oldestRemoved, encPc, encElem, encStamp, produced, remPc, alarm, tmrPc,
                      txPc, panic, encAlive >>
      /\ encPc = "idle" /\ ctlPc = "clear" /\ ctlPc' \in {"restart", "idle"}
      /\ mux = ControlTask /\ mux' = Free /\ queue' = <<>>
  BY DEF encVars, remVars, tmrVars, txVars, Unlock, OneWriter
<1>2. count \in Nat /\ MaxSize \in Nat /\ Len(queue) \in Nat
  BY FifoAssumption, LenProperties DEF StreamTypes, StreamTypeOk
<1>3. PICK k \in 0 .. MaxSize : count' = k
  BY <1>2 DEF StreamTypes, StreamTypeOk
<1>4. StreamTypes'
  <2>1. stale' \in BOOLEAN
    BY DEF StreamTypes, StreamTypeOk
  <2>2. queue' \in Seq([id : Nat \ {0}, ts : Nat])
    BY <1>1, EmptySeq
  <2> QED
    BY <1>1, <1>3, <2>1, <2>2 DEF StreamTypes, StreamTypeOk
<1>5. CriticalSections'
  BY <1>1 DEF CriticalSections, Free, EncoderTask, RemoverTask, TimerTask, ControlTask, Clients
<1>6. OneWriter' /\ SignalsAtMost'
  BY <1>1 DEF OneWriter, SignalsAtMost
<1>7. /\ UNCHANGED << Giving, Underway >> /\ Inserting' = 0
      /\ Giving + Underway <= 2
  BY <1>1, TwoRemovals DEF Inserting, Giving, Underway, TimerRemovals, RemoverRemovals, One
<1>8. Surplus'
  BY <1>2, <1>3, <1>7, CountTypes DEF Surplus
<1>9. RemovalsUnlessStale'
  BY <1>7, CountTypes DEF RemovalsUnlessStale, Underway
<1>10. SlotsBounded'
  <2>1. Len(queue') = 0
    BY <1>1
  <2>2. Slots' = count' + Giving
    BY <1>3, <1>7, <2>1, CountTypes DEF Slots
  <2>3. CASE stale'
    BY <1>2, <1>3, <1>7, <2>2, <2>3, CountTypes DEF SlotsBounded
  <2>4. CASE ~stale'
    <3>1. stale' = (stale \/ Underway > 0) /\ stale \in BOOLEAN
      BY DEF Underway, StreamTypes, StreamTypeOk
    <3>2. ~stale
      BY <2>4, <3>1
    <3>3. Slots <= MaxSize
      BY <1>2, <3>2 DEF SlotsBounded
    <3>4. Slots = count + Len(queue) + Inserting + Giving
      BY DEF Slots
    <3>5. k <= count + Len(queue)
      BY <1>2, <1>3
    <3> QED
      BY <1>2, <1>3, <2>2, <2>4, <3>3, <3>4, <3>5, CountTypes DEF SlotsBounded
  <2> QED
    BY <2>3, <2>4
<1>11. HeldUnlessStale' /\ PanicUnlessStale'
  BY <1>1 DEF HeldUnlessStale, PanicUnlessStale
<1> QED
  BY <1>4, <1>5, <1>6, <1>8, <1>9, <1>10, <1>11

-----------------------------------------------------------------------------

\* The invariant holds when the chip has started.
LEMMA StreamInvInit == StreamInit => StreamInv
<1> SUFFICES ASSUME StreamInit PROVE StreamInv
  OBVIOUS
<1> USE FifoAssumption, StreamAssumption DEF StreamInit, Init
<1>1. StreamTypes
  <2>1. queue \in Seq([id : Nat \ {0}, ts : Nat]) /\ txPc \in [Clients -> {"receive", "lock", "send"}]
    BY EmptySeq
  <2>2. count \in 0 .. MaxSize /\ requests \in 0 .. MaxRequests
    OBVIOUS
  <2> QED
    BY <2>1, <2>2 DEF StreamTypes, StreamTypeOk, Holders
<1>2. CriticalSections /\ OneWriter /\ HeldUnlessStale /\ PanicUnlessStale
  BY DEF CriticalSections, OneWriter, HeldUnlessStale, PanicUnlessStale
<1>3. Inserting = 0 /\ Giving = 0 /\ Underway = 0 /\ Len(queue) = 0
  BY EmptySeq DEF Inserting, Giving, Underway, TimerRemovals, RemoverRemovals, One
<1>4. SignalsAtMost /\ RemovalsUnlessStale /\ Surplus /\ SlotsBounded
  BY <1>3 DEF SignalsAtMost, RemovalsUnlessStale, Surplus, SlotsBounded, Slots, One
<1> QED
  BY <1>1, <1>2, <1>4 DEF StreamInv

\* Every step of StreamControl keeps it.
LEMMA StreamInvNext == StreamInv /\ [StreamNext]_streamVars => StreamInv'
<1>1. ASSUME StreamInv, StreamNext
      PROVE  StreamInv'
  BY <1>1, RequestKeeps, ClearKeeps, OthersKeep, WriterKeeps, RemoverKeeps, TimerKeeps
     DEF StreamNext, Control
<1>2. ASSUME StreamInv, UNCHANGED streamVars
      PROVE  StreamInv'
  BY <1>2 DEF streamVars, vars, ctlVars, StreamInv, StreamTypes, StreamTypeOk, CriticalSections,
              OneWriter, SignalsAtMost, RemovalsUnlessStale, Surplus, SlotsBounded,
              HeldUnlessStale, PanicUnlessStale, Slots, Underway, TimerRemovals, RemoverRemovals,
              Inserting, Giving, NewestId
<1> QED
  BY <1>1, <1>2

\* Deleting the encoder task wherever it is, and clearing the list under the removals, keeps
\* the slots bounded and the tasks out of one another's critical sections.
THEOREM StreamInvariant == StreamSpec => []StreamInv
BY StreamInvInit, StreamInvNext, PTL DEF StreamSpec

\* The control's variables keep their types and countSemaphore its range.
THEOREM StreamTypeCorrect == StreamSpec => []StreamTypeOk
BY StreamInvariant, PTL DEF StreamInv, StreamTypes

\* However often play and stop interrupt the encoder, the fifo gains two slots at most, and
\* none unless a clear overtook a removal.
THEOREM SlotsAreBounded == StreamSpec => []SlotsBounded
BY StreamInvariant, PTL DEF StreamInv

\* While no clear has overtaken a removal and three slots are left, write_callback's
\* predecessor is in the list and the remover finds an oldest chunk.
THEOREM SafeWithThreeSlots == StreamSpec => []SafeUnlessStale
<1>1. StreamInv => SafeUnlessStale
  <2> SUFFICES ASSUME StreamInv, ~stale, Slots >= 3
               PROVE  HeldElementLive /\ OldestExists
    BY DEF SafeUnlessStale
  <2> USE DEF StreamInv
  <2>1. count \in Nat /\ Len(queue) \in Nat /\ queue \in Seq([id : Nat \ {0}, ts : Nat])
    BY FifoAssumption, LenProperties DEF StreamTypes, StreamTypeOk
  <2>2. HeldElementLive
    <3> SUFFICES ASSUME encPc = "stampNext"
                 PROVE  encElem # Null /\ encElem \in Ids(queue)
      BY DEF HeldElementLive
    <3>1. queue # <<>> /\ encElem = queue[Len(queue)].id
      BY DEF HeldUnlessStale, NewestId
    <3> DEFINE R == [id : Nat \ {0}, ts : Nat]
    <3>2. queue \in Seq(R) /\ queue # <<>>
      BY <2>1, <3>1
    <3>3. \A r \in R : r.id \in Nat \ {0}
      OBVIOUS
    <3> HIDE DEF R
    <3>4. Len(queue) \in DOMAIN queue /\ queue[Len(queue)] \in R
      BY <3>2, LenProperties, EmptySeq, ElementOfSeq
    <3> QED
      BY <3>1, <3>3, <3>4 DEF Ids, Null
  <2>3. OldestExists
    <3>1. ~panic
      BY <2>1, CountTypes DEF PanicUnlessStale, Slots
    <3>2. ASSUME remPc = "read", queue = <<>> PROVE FALSE
      <4>1. Underway > 0 /\ Inserting <= 1 /\ Len(queue) = 0
        BY <3>2, CountTypes DEF Underway, RemoverRemovals, TimerRemovals, One
      <4> QED
        BY <2>1, <4>1, CountTypes DEF RemovalsUnlessStale, Slots
    <3> QED
      BY <3>1, <3>2 DEF OldestExists
  <2> QED
    BY <2>2, <2>3
<1> QED
  BY <1>1, StreamInvariant, PTL

\* The critical sections under mux.
Inside(t) ==
  CASE t = EncoderTask -> encPc \in {"emptyRead", "newestRead", "insert"}
    [] t = RemoverTask -> remPc \in {"read", "remove"}
    [] t = TimerTask -> tmrPc = "remove"
    [] t = ControlTask -> ctlPc = "clear"
    [] t \in Clients -> txPc[t] = "send"

MuxExcludes ==
  \A s, t \in Holders \cup {ControlTask} : Inside(s) /\ Inside(t) => s = t

\* No two tasks are ever in their critical sections at once, wherever a request deletes the
\* encoder task.
THEOREM MuxIsExclusive == StreamSpec => []MuxExcludes
<1>1. StreamInv => MuxExcludes
  <2> SUFFICES ASSUME StreamInv, NEW t \in Holders \cup {ControlTask}, Inside(t)
               PROVE  mux = t
    BY DEF MuxExcludes
  <2> QED
    BY DEF StreamInv, CriticalSections, Inside, Holders, EncoderTask, RemoverTask, TimerTask,
           ControlTask, Clients
<1> QED
  BY <1>1, StreamInvariant, PTL
=============================================================================
