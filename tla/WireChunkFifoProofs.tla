------------------------ MODULE WireChunkFifoProofs ------------------------
(***************************************************************************)
(* Proofs about WireChunkFifo, for every number of slots from four up, of  *)
(* clients and of message queue entries, and for every duration.           *)
(*                                                                         *)
(* The parts of the inductive invariant FifoInv are proved preserved one   *)
(* by one, each from the whole of FifoInv.                                 *)
(***************************************************************************)
EXTENDS WireChunkFifo, SequenceTheorems, TLAPS

(***************************************************************************)
(* Arithmetic of the clock and facts about sequences.                      *)
(***************************************************************************)

\* The clock reading that gives timestamp.sec, never later than the one that
\* gives timestamp.usec, rounds down to no later a second.
LEMMA WholeSeconds ==
  ASSUME NEW s \in Nat \ {0}, NEW x \in Nat, NEW y \in Nat, x <= y
  PROVE  /\ s * (x \div s) \in Nat
         /\ s * (x \div s) <= s * (y \div s)
         /\ s * (y \div s) + (y % s) = y
         /\ y % s \in Nat
<1>1. /\ x \div s \in Nat /\ y \div s \in Nat
      /\ x % s \in 0 .. s - 1 /\ y % s \in 0 .. s - 1
      /\ x = s * (x \div s) + (x % s)
      /\ y = s * (y \div s) + (y % s)
  BY Z3
<1>2. x \div s <= y \div s
  BY <1>1, Z3
<1>3. QED
  BY <1>1, <1>2, Z3

\* What Append does to a sequence and its ends.
LEMMA AppendEnds ==
  ASSUME NEW D, NEW q \in Seq(D), NEW e \in D
  PROVE  /\ Append(q, e) \in Seq(D)
         /\ Append(q, e) # <<>>
         /\ Len(Append(q, e)) = Len(q) + 1
         /\ \A i \in 1 .. Len(q) : Append(q, e)[i] = q[i]
         /\ Append(q, e)[Len(q) + 1] = e
         /\ q # <<>> => Head(Append(q, e)) = Head(q)
  BY AppendProperties, HeadTailAppend

\* What Tail does to a sequence of two elements or more.
LEMMA TailEnds ==
  ASSUME NEW D, NEW q \in Seq(D), Len(q) > 1
  PROVE  /\ q # <<>>
         /\ Tail(q) \in Seq(D)
         /\ Tail(q) # <<>>
         /\ Len(Tail(q)) = Len(q) - 1
         /\ \A i \in 1 .. Len(q) - 1 : Tail(q)[i] = q[i + 1]
         /\ Head(q) = q[1]
         /\ Head(Tail(q)) = q[2]
         /\ Tail(q)[Len(Tail(q))] = q[Len(q)]
  BY HeadTailProperties, LenProperties, EmptySeq

\* The invariant holds when flac_encoder_init has just created the fifo.
LEMMA InitFifoInv == Init => FifoInv
<1>. SUFFICES ASSUME Init PROVE FifoInv
  OBVIOUS
<1>. USE FifoAssumption DEF Init, One
<1>1. TypeOk
  <2>1. queue \in Seq([id : Nat \ {0}, ts : Nat])
    BY EmptySeq
  <2>2. /\ txPc \in [Clients -> {"receive", "lock", "send"}]
        /\ pend \in [Clients -> 0 .. QLen]
        /\ sent \in [Clients -> Nat]
    BY DEF Null
  <2>3. /\ now \in Nat /\ count \in 0 .. MaxSize /\ mux \in Holders \cup {Free}
        /\ encElem \in Nat /\ encStamp \in Nat /\ encSlot \in 1 .. NClients + 1
        /\ produced \in Nat /\ remNow \in Nat /\ remStamp \in Nat
        /\ alarm \in Nat \cup {Off}
    BY DEF Holders, Null
  <2>4. QED
    BY <2>1, <2>2, <2>3 DEF TypeOk
<1>2. MutualExclusion
  BY DEF MutualExclusion, Free, EncoderTask, RemoverTask, TimerTask, Clients
<1>3. SlotAccounting /\ SignalsBounded /\ RemovalsBounded
  BY EmptySeq DEF SlotAccounting, Inserting, Giving, SignalsBounded, Signals,
                 RemovalsBounded, TimerRemovals, RemoverRemovals
<1>4. StreamPosition /\ Contiguous /\ StampRight /\ DeadlinesRight /\ Lag /\ ~panic
  BY EmptySeq DEF StreamPosition, Working, Contiguous, StampRight, DeadlinesRight, Lag, Off
<1>5. QED
  BY <1>1, <1>2, <1>3, <1>4 DEF FifoInv


\* Whoever is about to remove a chunk, or to read the oldest, finds at least two.
LEMMA EnoughChunks ==
  ASSUME TypeOk, SlotAccounting, RemovalsBounded,
         TimerRemovals + RemoverRemovals > 0
  PROVE  Len(queue) > 1
  BY FifoAssumption, LenProperties
     DEF TypeOk, SlotAccounting, RemovalsBounded, TimerRemovals, RemoverRemovals,
         Inserting, Giving, One


\* Every element of the list is a chunk.
LEMMA Chunks ==
  ASSUME TypeOk
  PROVE  \A i \in DOMAIN queue : queue[i] \in [id : Nat \ {0}, ts : Nat]
<1>1. queue \in Seq([id : Nat \ {0}, ts : Nat])
  BY DEF TypeOk
<1>2. DOMAIN queue = 1 .. Len(queue)
  BY <1>1, LenProperties
<1>3. QED
  BY <1>1, <1>2, ElementOfSeq

\* Both ends of a list that is not empty are chunks.
LEMMA Newest ==
  ASSUME TypeOk, queue # <<>>
  PROVE  /\ Len(queue) \in Nat \ {0} /\ Len(queue) \in DOMAIN queue
         /\ queue[Len(queue)] \in [id : Nat \ {0}, ts : Nat]
         /\ NewestId = queue[Len(queue)].id
         /\ NewestId \in Nat \ {0}
         /\ Head(queue) = queue[1] /\ queue[1] \in [id : Nat \ {0}, ts : Nat]
<1>1. Len(queue) \in Nat \ {0} /\ DOMAIN queue = 1 .. Len(queue)
  BY EmptySeq, LenProperties DEF TypeOk
<1>2. /\ Len(queue) \in DOMAIN queue /\ 1 \in DOMAIN queue
  BY <1>1
<1>3. /\ queue[Len(queue)] \in [id : Nat \ {0}, ts : Nat]
      /\ queue[1] \in [id : Nat \ {0}, ts : Nat]
  BY <1>2, Chunks
<1>4. Head(queue) = queue[1]
  BY DEF TypeOk
<1>5. QED
  BY <1>1, <1>2, <1>3, <1>4 DEF NewestId

\* The two halves of a timestamp taken at one moment.
LEMMA StampParts ==
  ASSUME TypeOk
  PROVE  /\ Second * ((now + Lead) \div Second) \in Nat
         /\ (now + Lead) % Second \in Nat
         /\ Second * ((now + Lead) \div Second) + ((now + Lead) % Second) = now + Lead
<1>1. now + Lead \in Nat /\ now + Lead <= now + Lead /\ Second \in Nat \ {0}
  BY FifoAssumption DEF TypeOk
<1>2. QED
  BY ONLY <1>1, WholeSeconds, Zenon

\* What an insertion does to the list.
LEMMA Insertion ==
  ASSUME FifoInv, EncInsert
  PROVE  /\ queue' # <<>>
         /\ Len(queue) \in Nat /\ Len(queue') = Len(queue) + 1
         /\ queue' \in Seq([id : Nat \ {0}, ts : Nat])
         /\ \A i \in 1 .. Len(queue) : queue'[i] = queue[i]
         /\ queue'[Len(queue')] = [id |-> produced, ts |-> encStamp]
         /\ queue # <<>> => Head(queue') = Head(queue)
<1>1. queue \in Seq([id : Nat \ {0}, ts : Nat])
  BY DEF FifoInv, TypeOk
<1>2. produced \in Nat \ {0}
  <2>1. produced \in Nat /\ Working = 1
    BY DEF FifoInv, TypeOk, EncInsert, Working, One
  <2>2. CASE queue = <<>>
    BY <2>1, <2>2 DEF FifoInv, StreamPosition
  <2>3. CASE queue # <<>>
    BY <2>1, <2>3, Newest DEF FifoInv, StreamPosition
  <2>4. QED
    BY <2>2, <2>3
<1>3. [id |-> produced, ts |-> encStamp] \in [id : Nat \ {0}, ts : Nat]
  BY <1>2 DEF FifoInv, TypeOk
<1>4. queue' = Append(queue, [id |-> produced, ts |-> encStamp])
  BY DEF EncInsert
<1>5. QED
  BY <1>1, <1>3, <1>4, AppendEnds, LenProperties


\* What taking the oldest chunk out does to the list.
LEMMA Removal ==
  ASSUME FifoInv, RemRemove \/ TmrRemove
  PROVE  /\ queue # <<>> /\ queue' # <<>>
         /\ Len(queue) \in Nat /\ Len(queue) > 1 /\ Len(queue') = Len(queue) - 1
         /\ queue' \in Seq([id : Nat \ {0}, ts : Nat])
         /\ \A i \in 1 .. Len(queue') : queue'[i] = queue[i + 1]
         /\ Head(queue) = queue[1] /\ Head(queue') = queue[2]
         /\ queue'[Len(queue')] = queue[Len(queue)]
<1>1. TimerRemovals + RemoverRemovals > 0
  BY DEF RemRemove, TmrRemove, TimerRemovals, RemoverRemovals, One
<1>2. queue \in Seq([id : Nat \ {0}, ts : Nat]) /\ Len(queue) > 1
  BY <1>1, EnoughChunks DEF FifoInv, TypeOk
<1>3. queue' = Tail(queue)
  BY <1>2, TailEnds DEF RemRemove, TmrRemove, DeleteOldest
<1>4. QED
  BY <1>2, <1>3, TailEnds, LenProperties

\* A slot that is about to be given back fits into the semaphore.
LEMMA GiveHasRoom ==
  ASSUME FifoInv, RemGiveCount \/ TmrGiveCount
  PROVE  count' = count + 1 /\ count + 1 \in 0 .. MaxSize /\ Len(queue) \in Nat
<1>1. Len(queue) \in Nat
  BY LenProperties DEF FifoInv, TypeOk
<1>2. count < MaxSize
  BY <1>1, FifoAssumption
     DEF FifoInv, TypeOk, SlotAccounting, Inserting, Giving, One, RemGiveCount, TmrGiveCount
<1>3. QED
  BY <1>1, <1>2, FifoAssumption DEF FifoInv, TypeOk, RemGiveCount, TmrGiveCount, GiveCount


\* Taking mux, and giving it back, is what moves a task in and out of its
\* critical section.
LEMMA MutualExclusionStep == FifoInv /\ Next => MutualExclusion'
<1>. SUFFICES ASSUME FifoInv, Next PROVE MutualExclusion'
  OBVIOUS
<1>. USE FifoAssumption DEF MutualExclusion, TypeOk, Clients, Holders, Free,
                            EncoderTask, RemoverTask, TimerTask, Lock, Unlock
<1>1. CASE EncEmptyLock
  BY <1>1 DEF FifoInv, EncEmptyLock, encVars, remVars, tmrVars, txVars
<1>2. CASE EncNewestLock
  BY <1>2 DEF FifoInv, EncNewestLock, encVars, remVars, tmrVars, txVars
<1>3. CASE EncInsertLock
  BY <1>3 DEF FifoInv, EncInsertLock, encVars, remVars, tmrVars, txVars
<1>4. CASE EncEmptyRead
  BY <1>4 DEF FifoInv, EncEmptyRead, encVars, remVars, tmrVars, txVars
<1>5. CASE EncNewestRead
  BY <1>5 DEF FifoInv, EncNewestRead, encVars, remVars, tmrVars, txVars
<1>6. CASE EncInsert
  BY <1>6 DEF FifoInv, EncInsert, encVars, remVars, tmrVars, txVars
<1>7. CASE RemLock
  BY <1>7 DEF FifoInv, RemLock, encVars, remVars, tmrVars, txVars
<1>8. CASE RemRemoveLock
  BY <1>8 DEF FifoInv, RemRemoveLock, encVars, remVars, tmrVars, txVars
<1>9. CASE RemReadOldest
  BY <1>9 DEF FifoInv, RemReadOldest, encVars, remVars, tmrVars, txVars
<1>10. CASE RemRemove
  BY <1>10 DEF FifoInv, RemRemove, encVars, remVars, tmrVars, txVars
<1>11. CASE TmrLock
  BY <1>11 DEF FifoInv, TmrLock, encVars, remVars, tmrVars, txVars
<1>12. CASE TmrRemove
  BY <1>12 DEF FifoInv, TmrRemove, encVars, remVars, tmrVars, txVars
<1>13. ASSUME NEW c \in Clients, TxReceive(c) PROVE MutualExclusion'
  BY <1>13 DEF FifoInv, TxReceive, encVars, remVars, tmrVars, txVars
<1>14. ASSUME NEW c \in Clients, TxLock(c) PROVE MutualExclusion'
  <2>1. txPc'[c] = "send" /\ mux' = c /\ mux = Free
    BY <1>14 DEF FifoInv, TxLock
  <2>2. ASSUME NEW d \in Clients, d # c PROVE txPc'[d] = txPc[d] /\ txPc[d] # "send"
    BY <1>14, <2>2 DEF FifoInv, TxLock
  <2>3. QED
    BY <1>14, <2>1, <2>2 DEF FifoInv, TxLock, encVars, remVars, tmrVars
<1>15. ASSUME NEW c \in Clients, TxSend(c) PROVE MutualExclusion'
  <2>1. mux' = Free /\ mux = c /\ UNCHANGED <<encPc, remPc, tmrPc>>
    BY <1>15 DEF TxSend, encVars, remVars, tmrVars
  <2>2. ASSUME NEW d \in Clients PROVE mux' # d /\ txPc'[d] # "send"
    <3>1. d # c => txPc'[d] = txPc[d] /\ txPc[d] # "send"
      BY <1>15, <2>1 DEF FifoInv, TxSend
    <3>2. txPc'[c] = "receive"
      BY <1>15 DEF FifoInv, TxSend
    <3>3. QED
      BY <2>1, <3>1, <3>2
  <2>3. QED
    BY <2>1, <2>2 DEF FifoInv
<1>16. CASE EncFrame
  <2>1. /\ UNCHANGED << mux, txPc >>
        /\ encPc' \in {"emptyRead", "newestRead", "insert"}
             <=> encPc \in {"emptyRead", "newestRead", "insert"}
        /\ remPc' \in {"read", "remove"} <=> remPc \in {"read", "remove"}
        /\ tmrPc' = "remove" <=> tmrPc = "remove"
    BY <1>16 DEF EncFrame, encVars, remVars, tmrVars, txVars
  <2>2. QED
    BY <2>1 DEF FifoInv
<1>17. CASE EncStampSec \/ EncStampUsec \/ EncStampNext \/ EncTake \/ EncNotify \/ EncReturn
  <2>1. /\ UNCHANGED << mux, txPc >>
        /\ encPc' \in {"emptyRead", "newestRead", "insert"}
             <=> encPc \in {"emptyRead", "newestRead", "insert"}
        /\ remPc' \in {"read", "remove"} <=> remPc \in {"read", "remove"}
        /\ tmrPc' = "remove" <=> tmrPc = "remove"
    BY <1>17 DEF EncStampSec, EncStampUsec, EncStampNext, EncTake, EncNotify,
                 EncReturn, encVars, remVars, tmrVars, txVars
  <2>2. QED
    BY <2>1 DEF FifoInv
<1>18. CASE RemCheck \/ RemClock \/ RemReadNull \/ RemGiveCount \/ RemArm \/ RemAwait
  <2>1. /\ UNCHANGED << mux, txPc >>
        /\ encPc' \in {"emptyRead", "newestRead", "insert"}
             <=> encPc \in {"emptyRead", "newestRead", "insert"}
        /\ remPc' \in {"read", "remove"} <=> remPc \in {"read", "remove"}
        /\ tmrPc' = "remove" <=> tmrPc = "remove"
    BY <1>18 DEF RemCheck, RemClock, RemReadNull, RemGiveCount, RemArm, RemAwait,
                 encVars, remVars, tmrVars, txVars
  <2>2. QED
    BY <2>1 DEF FifoInv
<1>19. CASE TmrFire \/ TmrGiveCount \/ TmrSignal
  <2>1. /\ UNCHANGED << mux, txPc >>
        /\ encPc' \in {"emptyRead", "newestRead", "insert"}
             <=> encPc \in {"emptyRead", "newestRead", "insert"}
        /\ remPc' \in {"read", "remove"} <=> remPc \in {"read", "remove"}
        /\ tmrPc' = "remove" <=> tmrPc = "remove"
    BY <1>19 DEF TmrFire, TmrGiveCount, TmrSignal, encVars, remVars, tmrVars, txVars
  <2>2. QED
    BY <2>1 DEF FifoInv
<1>20. CASE Tick
  <2>1. /\ UNCHANGED << mux, txPc >>
        /\ encPc' \in {"emptyRead", "newestRead", "insert"}
             <=> encPc \in {"emptyRead", "newestRead", "insert"}
        /\ remPc' \in {"read", "remove"} <=> remPc \in {"read", "remove"}
        /\ tmrPc' = "remove" <=> tmrPc = "remove"
    BY <1>20 DEF Tick, encVars, remVars, tmrVars, txVars
  <2>2. QED
    BY <2>1 DEF FifoInv
<1>21. QED
  BY <1>1, <1>2, <1>3, <1>4, <1>5, <1>6, <1>7, <1>8, <1>9, <1>10, <1>11, <1>12,
     <1>13, <1>14, <1>15, <1>16, <1>17, <1>18, <1>19, <1>20
     DEF Next, Tasks, WriteCallback, Remover, Timer, Tx

\* Each slot passes from count to the encoder, to the list, to the remover or
\* the timer, and back to count.
LEMMA SlotAccountingStep == FifoInv /\ Next => SlotAccounting'
<1>. SUFFICES ASSUME FifoInv, Next PROVE SlotAccounting'
  OBVIOUS
<1>. USE FifoAssumption DEF SlotAccounting, TypeOk, Inserting, Giving, One
<1>1. CASE EncTake
  BY <1>1 DEF FifoInv, EncTake, encVars, remVars, tmrVars, txVars
<1>2. CASE EncInsert
  <2>1. Len(queue) \in Nat /\ Len(queue') = Len(queue) + 1
    BY <1>2, Insertion
  <2>2. QED
    BY <1>2, <2>1 DEF FifoInv, EncInsert, encVars, remVars, tmrVars, txVars
<1>3. CASE RemRemove
  <2>1. Len(queue) \in Nat /\ Len(queue') = Len(queue) - 1
    BY <1>3, Removal
  <2>2. QED
    BY <1>3, <2>1 DEF FifoInv, RemRemove, encVars, remVars, tmrVars, txVars
<1>4. CASE RemGiveCount
  <2>1. count' = count + 1 /\ Len(queue) \in Nat
    BY <1>4, GiveHasRoom
  <2>2. QED
    BY <1>4, <2>1 DEF FifoInv, RemGiveCount, encVars, remVars, tmrVars, txVars
<1>5. CASE TmrRemove
  <2>1. Len(queue) \in Nat /\ Len(queue') = Len(queue) - 1
    BY <1>5, Removal
  <2>2. QED
    BY <1>5, <2>1 DEF FifoInv, TmrRemove, encVars, remVars, tmrVars, txVars
<1>6. CASE TmrGiveCount
  <2>1. count' = count + 1 /\ Len(queue) \in Nat
    BY <1>6, GiveHasRoom
  <2>2. QED
    BY <1>6, <2>1 DEF FifoInv, TmrGiveCount, encVars, remVars, tmrVars, txVars
<1>7. CASE EncFrame
  <2>1. UNCHANGED << count, queue, Inserting, Giving >>
    BY <1>7 DEF EncFrame, encVars, remVars, tmrVars, txVars
  <2>2. QED
    BY <2>1 DEF FifoInv
<1>8. CASE EncEmptyLock \/ EncEmptyRead \/ EncStampSec \/ EncStampUsec \/ EncNewestLock \/
           EncNewestRead \/ EncStampNext \/ EncInsertLock \/ EncNotify \/ EncReturn
  <2>1. UNCHANGED << count, queue, Inserting, Giving >>
    BY <1>8 DEF EncEmptyLock, EncEmptyRead, EncStampSec, EncStampUsec,
                EncNewestLock, EncNewestRead, EncStampNext, EncInsertLock,
                EncNotify, EncReturn, encVars, remVars, tmrVars, txVars
  <2>2. QED
    BY <2>1 DEF FifoInv
<1>9. CASE RemCheck \/ RemClock \/ RemLock \/ RemReadOldest \/ RemReadNull \/ RemRemoveLock \/
           RemArm \/ RemAwait
  <2>1. UNCHANGED << count, queue, Inserting, Giving >>
    BY <1>9 DEF RemCheck, RemClock, RemLock, RemReadOldest, RemReadNull,
                RemRemoveLock, RemArm, RemAwait, encVars, remVars, tmrVars, txVars
  <2>2. QED
    BY <2>1 DEF FifoInv
<1>10. CASE TmrFire \/ TmrLock \/ TmrSignal
  <2>1. UNCHANGED << count, queue, Inserting, Giving >>
    BY <1>10 DEF TmrFire, TmrLock, TmrSignal, encVars, remVars, tmrVars, txVars
  <2>2. QED
    BY <2>1 DEF FifoInv
<1>11. ASSUME NEW c \in Clients, Tx(c) PROVE SlotAccounting'
  <2>1. UNCHANGED << count, queue, Inserting, Giving >>
    BY <1>11 DEF Tx, TxReceive, TxLock, TxSend, encVars, remVars, tmrVars, txVars
  <2>2. QED
    BY <2>1 DEF FifoInv
<1>12. CASE Tick
  <2>1. UNCHANGED << count, queue, Inserting, Giving >>
    BY <1>12 DEF Tick, encVars, remVars, tmrVars, txVars
  <2>2. QED
    BY <2>1 DEF FifoInv
<1>13. QED
  BY <1>1, <1>2, <1>3, <1>4, <1>5, <1>6, <1>7, <1>8, <1>9, <1>10, <1>11, <1>12
     DEF Next, Tasks, WriteCallback, Remover, Timer, Tx

\* Arming the timer promises a token, its callback keeps the promise, and the
\* remover takes the token.
LEMMA SignalsBoundedStep == FifoInv /\ Next => SignalsBounded'
<1>. SUFFICES ASSUME FifoInv, Next PROVE SignalsBounded'
  OBVIOUS
<1>. USE FifoAssumption DEF SignalsBounded, Signals, TypeOk, One, Off
<1>1. CASE RemCheck
  BY <1>1 DEF FifoInv, RemCheck, encVars, remVars, tmrVars, txVars
<1>2. CASE RemGiveCount
  BY <1>2 DEF FifoInv, RemGiveCount, encVars, remVars, tmrVars, txVars
<1>3. CASE RemArm
  BY <1>3 DEF FifoInv, RemArm, encVars, remVars, tmrVars, txVars, DeadlinesRight
<1>4. CASE RemAwait
  BY <1>4 DEF FifoInv, RemAwait, encVars, remVars, tmrVars, txVars
<1>5. CASE TmrFire
  BY <1>5 DEF FifoInv, TmrFire, encVars, remVars, tmrVars, txVars
<1>6. CASE TmrSignal
  BY <1>6 DEF FifoInv, TmrSignal, encVars, remVars, tmrVars, txVars
<1>7. CASE EncFrame
  <2>1. UNCHANGED << Signals, remPc = "await" >>
    BY <1>7 DEF EncFrame, encVars, remVars, tmrVars, txVars
  <2>2. QED
    BY <2>1 DEF FifoInv
<1>8. CASE WriteCallback
  <2>1. UNCHANGED << Signals, remPc = "await" >>
    BY <1>8 DEF WriteCallback, EncEmptyLock, EncEmptyRead, EncStampSec,
                EncStampUsec, EncNewestLock, EncNewestRead, EncStampNext, EncTake,
                EncInsertLock, EncInsert, EncNotify, EncReturn, encVars, remVars,
                tmrVars, txVars
  <2>2. QED
    BY <2>1 DEF FifoInv
<1>9. CASE RemClock \/ RemLock \/ RemReadOldest \/ RemReadNull \/ RemRemoveLock \/ RemRemove
  <2>1. UNCHANGED << Signals, remPc = "await" >>
    BY <1>9 DEF RemClock, RemLock, RemReadOldest, RemReadNull, RemRemoveLock,
                RemRemove, encVars, remVars, tmrVars, txVars
  <2>2. QED
    BY <2>1 DEF FifoInv
<1>10. CASE TmrLock \/ TmrRemove \/ TmrGiveCount
  <2>1. UNCHANGED << Signals, remPc = "await" >>
    BY <1>10 DEF TmrLock, TmrRemove, TmrGiveCount, encVars, remVars, tmrVars, txVars
  <2>2. QED
    BY <2>1 DEF FifoInv
<1>11. ASSUME NEW c \in Clients, Tx(c) PROVE SignalsBounded'
  <2>1. UNCHANGED << Signals, remPc = "await" >>
    BY <1>11 DEF Tx, TxReceive, TxLock, TxSend, encVars, remVars, tmrVars, txVars
  <2>2. QED
    BY <2>1 DEF FifoInv
<1>12. CASE Tick
  <2>1. UNCHANGED << Signals, remPc = "await" >>
    BY <1>12 DEF Tick, encVars, remVars, tmrVars, txVars
  <2>2. QED
    BY <2>1 DEF FifoInv
<1>13. QED
  BY <1>1, <1>2, <1>3, <1>4, <1>5, <1>6, <1>7, <1>8, <1>9, <1>10, <1>11, <1>12
     DEF Next, Tasks, WriteCallback, Remover, Timer, Tx

\* The remover joins in only behind a full fifo and at most one outstanding
\* timer; a removal done turns into a slot about to be free.
LEMMA RemovalsBoundedStep == FifoInv /\ Next => RemovalsBounded'
<1>. SUFFICES ASSUME FifoInv, Next PROVE RemovalsBounded'
  OBVIOUS
<1>. USE FifoAssumption DEF RemovalsBounded, TimerRemovals, RemoverRemovals, Giving,
                            TypeOk, One, Off
<1>1. CASE EncTake
  BY <1>1 DEF FifoInv, EncTake, encVars, remVars, tmrVars, txVars
<1>2. CASE RemCheck
  BY <1>2 DEF FifoInv, RemCheck, encVars, remVars, tmrVars, txVars, SignalsBounded,
              Signals
<1>3. CASE RemReadOldest
  BY <1>3 DEF FifoInv, RemReadOldest, encVars, remVars, tmrVars, txVars
<1>4. CASE RemRemove
  BY <1>4 DEF FifoInv, RemRemove, encVars, remVars, tmrVars, txVars
<1>5. CASE RemGiveCount
  <2>1. count' = count + 1
    BY <1>5, GiveHasRoom
  <2>2. QED
    BY <1>5, <2>1 DEF FifoInv, RemGiveCount, encVars, remVars, tmrVars, txVars
<1>6. CASE RemArm
  BY <1>6 DEF FifoInv, RemArm, encVars, remVars, tmrVars, txVars
<1>7. CASE TmrFire
  BY <1>7 DEF FifoInv, TmrFire, encVars, remVars, tmrVars, txVars
<1>8. CASE TmrRemove
  BY <1>8 DEF FifoInv, TmrRemove, encVars, remVars, tmrVars, txVars
<1>9. CASE TmrGiveCount
  <2>1. count' = count + 1
    BY <1>9, GiveHasRoom
  <2>2. QED
    BY <1>9, <2>1 DEF FifoInv, TmrGiveCount, encVars, remVars, tmrVars, txVars
<1>10. CASE TmrSignal
  BY <1>10 DEF FifoInv, TmrSignal, encVars, remVars, tmrVars, txVars
<1>11. CASE EncFrame
  <2>1. UNCHANGED << count, Giving, TimerRemovals, RemoverRemovals >>
    BY <1>11 DEF EncFrame, encVars, remVars, tmrVars, txVars
  <2>2. QED
    BY <2>1 DEF FifoInv
<1>12. CASE EncEmptyLock \/ EncEmptyRead \/ EncStampSec \/ EncStampUsec \/ EncNewestLock \/
            EncNewestRead \/ EncStampNext \/ EncInsertLock \/ EncInsert \/ EncNotify \/
            EncReturn
  <2>1. UNCHANGED << count, Giving, TimerRemovals, RemoverRemovals >>
    BY <1>12 DEF EncEmptyLock, EncEmptyRead, EncStampSec, EncStampUsec,
                 EncNewestLock, EncNewestRead, EncStampNext, EncInsertLock,
                 EncInsert, EncNotify, EncReturn, encVars, remVars, tmrVars, txVars
  <2>2. QED
    BY <2>1 DEF FifoInv
<1>13. CASE RemClock \/ RemLock \/ RemReadNull \/ RemRemoveLock \/ RemAwait
  <2>1. UNCHANGED << count, Giving, TimerRemovals, RemoverRemovals >>
    BY <1>13 DEF RemClock, RemLock, RemReadNull, RemRemoveLock, RemAwait, encVars,
                 remVars, tmrVars, txVars
  <2>2. QED
    BY <2>1 DEF FifoInv
<1>14. CASE TmrLock
  <2>1. UNCHANGED << count, Giving, TimerRemovals, RemoverRemovals >>
    BY <1>14 DEF TmrLock, encVars, remVars, tmrVars, txVars
  <2>2. QED
    BY <2>1 DEF FifoInv
<1>15. ASSUME NEW c \in Clients, Tx(c) PROVE RemovalsBounded'
  <2>1. UNCHANGED << count, Giving, TimerRemovals, RemoverRemovals >>
    BY <1>15 DEF Tx, TxReceive, TxLock, TxSend, encVars, remVars, tmrVars, txVars
  <2>2. QED
    BY <2>1 DEF FifoInv
<1>16. CASE Tick
  <2>1. UNCHANGED << count, Giving, TimerRemovals, RemoverRemovals >>
    BY <1>16 DEF Tick, encVars, remVars, tmrVars, txVars
  <2>2. QED
    BY <2>1 DEF FifoInv
<1>17. QED
  BY <1>1, <1>2, <1>3, <1>4, <1>5, <1>6, <1>7, <1>8, <1>9, <1>10, <1>11, <1>12,
     <1>13, <1>14, <1>15, <1>16
     DEF Next, Tasks, WriteCallback, Remover, Timer, Tx

\* The types; the capacity of the fifo and of the message queues rests on the
\* slot accounting and on the guards.
LEMMA TypeStep == FifoInv /\ Next => TypeOk'
<1>. SUFFICES ASSUME FifoInv, Next PROVE TypeOk'
  OBVIOUS
<1>. USE FifoAssumption DEF TypeOk, Holders, Lock, Unlock, Clients, Off, Null
<1>1. CASE EncEmptyLock
  BY SMTT(60), <1>1 DEF FifoInv, EncEmptyLock, encVars, remVars, tmrVars, txVars
<1>2. CASE EncNewestLock
  BY SMTT(60), <1>2 DEF FifoInv, EncNewestLock, encVars, remVars, tmrVars, txVars
<1>3. CASE EncInsertLock
  BY SMTT(60), <1>3 DEF FifoInv, EncInsertLock, encVars, remVars, tmrVars, txVars
<1>4. CASE EncStampSec
  <2>1. Second * ((now + Lead) \div Second) \in Nat
    BY <1>4, StampParts DEF FifoInv
  <2>2. QED
    BY SMTT(60), <1>4, <2>1 DEF FifoInv, EncStampSec, encVars, remVars, tmrVars,
                                txVars
<1>5. CASE EncStampUsec
  <2>1. (now + Lead) % Second \in Nat
    BY <1>5, StampParts DEF FifoInv
  <2>2. QED
    BY SMTT(60), <1>5, <2>1 DEF FifoInv, EncStampUsec, encVars, remVars, tmrVars,
                                txVars
<1>6. CASE EncNewestRead
  <2>1. NewestId \in Nat
    BY <1>6, Newest DEF FifoInv, NewestId
  <2>2. QED
    BY SMTT(60), <1>6, <2>1 DEF FifoInv, EncNewestRead, encVars, remVars, tmrVars,
                                txVars
<1>7. CASE EncStampNext
  <2>1. \A i \in DOMAIN queue : queue[i] \in [id : Nat \ {0}, ts : Nat]
    BY Chunks DEF FifoInv
  <2>2. /\ encStamp' \in Nat /\ encElem' = Null /\ encPc' \in {"idle", "take"}
    <3>1. ASSUME NEW i \in DOMAIN queue, encStamp' = queue[i].ts + Offset PROVE encStamp' \in Nat
      BY <2>1, <3>1
    <3>2. GarbageStamps \subseteq Nat /\ encStamp \in Nat
      BY DEF FifoInv
    <3>3. QED
      BY <1>7, <3>1, <3>2 DEF EncStampNext
  <2>3. UNCHANGED << now, queue, count, mux, oldestRemoved, encSlot, produced,
                     remPc, remNow, remStamp, alarm, tmrPc, txPc, pend, sent, panic >>
    BY <1>7 DEF EncStampNext, remVars, tmrVars, txVars
  <2>4. QED
    BY SMTT(60), <2>2, <2>3 DEF FifoInv
<1>8. CASE EncTake
  BY SMTT(60), <1>8 DEF FifoInv, EncTake, encVars, remVars, tmrVars, txVars
<1>9. CASE EncInsert
  <2>1. queue' \in Seq([id : Nat \ {0}, ts : Nat])
    BY <1>9, Insertion
  <2>2. QED
    BY SMTT(60), <1>9, <2>1 DEF FifoInv, EncInsert, encVars, remVars, tmrVars,
                                txVars
<1>10. CASE EncNotify
  BY SMTT(60), <1>10 DEF FifoInv, EncNotify, encVars, remVars, tmrVars, txVars
<1>11. CASE EncReturn
  BY SMTT(60), <1>11 DEF FifoInv, EncReturn, encVars, remVars, tmrVars, txVars
<1>12. CASE RemReadOldest
  <2>1. Head(queue).ts \in Nat
    BY <1>12, Newest DEF FifoInv, RemReadOldest
  <2>2. QED
    BY SMTT(60), <1>12, <2>1 DEF FifoInv, RemReadOldest, encVars, remVars, tmrVars,
                                 txVars
<1>13. CASE RemRemove
  <2>1. queue' \in Seq([id : Nat \ {0}, ts : Nat])
    BY <1>13, Removal
  <2>2. QED
    BY SMTT(60), <1>13, <2>1 DEF FifoInv, RemRemove, encVars, remVars, tmrVars,
                                 txVars
<1>14. CASE RemGiveCount
  <2>1. count' \in 0 .. MaxSize
    BY <1>14, GiveHasRoom
  <2>2. QED
    BY SMTT(60), <1>14, <2>1 DEF FifoInv, RemGiveCount, encVars, remVars, tmrVars,
                                 txVars
<1>15. CASE RemArm
  BY SMTT(60), <1>15 DEF FifoInv, RemArm, encVars, remVars, tmrVars, txVars,
                         DeadlinesRight
<1>16. CASE TmrRemove
  <2>1. queue' \in Seq([id : Nat \ {0}, ts : Nat])
    BY <1>16, Removal
  <2>2. QED
    BY SMTT(60), <1>16, <2>1 DEF FifoInv, TmrRemove, encVars, remVars, tmrVars,
                                 txVars
<1>17. CASE TmrGiveCount
  <2>1. count' \in 0 .. MaxSize
    BY <1>17, GiveHasRoom
  <2>2. QED
    BY SMTT(60), <1>17, <2>1 DEF FifoInv, TmrGiveCount, encVars, remVars, tmrVars,
                                 txVars
<1>18. ASSUME NEW c \in Clients, TxReceive(c) PROVE TypeOk'
  BY SMTT(60), <1>18 DEF FifoInv, TxReceive, encVars, remVars, tmrVars, txVars
<1>19. ASSUME NEW c \in Clients, TxLock(c) PROVE TypeOk'
  BY SMTT(60), <1>19 DEF FifoInv, TxLock, encVars, remVars, tmrVars, txVars
<1>20. ASSUME NEW c \in Clients, TxSend(c) PROVE TypeOk'
  <2>1. queue # <<>> => NewestId \in Nat
    BY Newest DEF FifoInv
  <2>2. sent' \in [Clients -> Nat] /\ txPc' \in [Clients -> {"receive", "lock", "send"}]
    BY <1>20, <2>1 DEF FifoInv, TxSend
  <2>3. /\ mux' = Free
        /\ UNCHANGED << now, queue, count, oldestRemoved, encPc, encElem, encStamp, encSlot,
                        produced, remPc, remNow, remStamp, alarm, tmrPc, pend, panic >>
    BY <1>20 DEF TxSend, encVars, remVars, tmrVars
  <2>4. QED
    BY SMTT(60), <2>2, <2>3 DEF FifoInv
<1>21. CASE RemLock
  BY SMTT(60), <1>21 DEF FifoInv, RemLock, encVars, remVars, tmrVars, txVars
<1>22. CASE RemRemoveLock
  BY SMTT(60), <1>22 DEF FifoInv, RemRemoveLock, encVars, remVars, tmrVars, txVars
<1>23. CASE TmrLock
  BY SMTT(60), <1>23 DEF FifoInv, TmrLock, encVars, remVars, tmrVars, txVars
<1>24. CASE RemCheck
  BY SMTT(60), <1>24 DEF FifoInv, RemCheck, encVars, remVars, tmrVars, txVars
<1>25. CASE RemClock
  BY SMTT(60), <1>25 DEF FifoInv, RemClock, encVars, remVars, tmrVars, txVars
<1>26. CASE RemReadNull
  BY SMTT(60), <1>26 DEF FifoInv, RemReadNull, encVars, remVars, tmrVars, txVars
<1>27. CASE RemAwait
  BY SMTT(60), <1>27 DEF FifoInv, RemAwait, encVars, remVars, tmrVars, txVars
<1>28. CASE TmrFire
  BY SMTT(60), <1>28 DEF FifoInv, TmrFire, encVars, remVars, tmrVars, txVars
<1>29. CASE TmrSignal
  BY SMTT(60), <1>29 DEF FifoInv, TmrSignal, encVars, remVars, tmrVars, txVars
<1>30. CASE EncFrame
  BY SMTT(60), <1>30 DEF FifoInv, EncFrame, encVars, remVars, tmrVars, txVars
<1>31. CASE EncEmptyRead
  BY SMTT(60), <1>31 DEF FifoInv, EncEmptyRead, encVars, remVars, tmrVars, txVars
<1>32. CASE Tick
  BY SMTT(60), <1>32 DEF FifoInv, Tick, encVars, remVars, tmrVars, txVars
<1>33. QED
  BY <1>1, <1>2, <1>3, <1>4, <1>5, <1>6, <1>7, <1>8, <1>9, <1>10, <1>11, <1>12,
     <1>13, <1>14, <1>15, <1>16, <1>17, <1>18, <1>19, <1>20, <1>21, <1>22, <1>23,
     <1>24, <1>25, <1>26, <1>27, <1>28, <1>29, <1>30, <1>31, <1>32
     DEF Next, Tasks, WriteCallback, Remover, Timer, Tx

\* The newest chunk is the last one produced: only the encoder inserts, and a
\* removal always leaves the newest chunk.
LEMMA StreamPositionStep == FifoInv /\ Next => StreamPosition'
<1>. SUFFICES ASSUME FifoInv, Next PROVE StreamPosition'
  OBVIOUS
<1>. USE FifoAssumption DEF StreamPosition, Working, NewestId, One, TypeOk
<1>1. CASE EncFrame
  BY <1>1 DEF FifoInv, EncFrame, encVars, remVars, tmrVars, txVars
<1>2. CASE EncEmptyRead
  BY <1>2 DEF FifoInv, EncEmptyRead, encVars, remVars, tmrVars, txVars
<1>3. CASE EncNewestRead
  BY <1>3 DEF FifoInv, EncNewestRead, encVars, remVars, tmrVars, txVars
<1>4. CASE EncStampNext
  <2>1. encElem # Null /\ queue # <<>>
    BY <1>4, Newest DEF FifoInv, EncStampNext, Null
  <2>2. encPc' = "take" /\ UNCHANGED << queue, produced >>
    BY <1>4, <2>1 DEF EncStampNext
  <2>3. QED
    BY <1>4, <2>1, <2>2 DEF FifoInv, EncStampNext
<1>5. CASE EncInsert
  <2>1. queue' # <<>> /\ NewestId' = produced
    BY <1>5, Insertion DEF NewestId
  <2>2. QED
    BY <1>5, <2>1 DEF FifoInv, EncInsert, encVars, remVars, tmrVars, txVars
<1>6. CASE RemRemove
  <2>1. queue # <<>> /\ queue' # <<>> /\ queue'[Len(queue')] = queue[Len(queue)]
    BY <1>6, Removal
  <2>2. UNCHANGED << encPc, encElem, produced >>
    BY <1>6 DEF RemRemove, encVars
  <2>3. QED
    BY <2>1, <2>2 DEF FifoInv
<1>7. CASE TmrRemove
  <2>1. queue # <<>> /\ queue' # <<>> /\ queue'[Len(queue')] = queue[Len(queue)]
    BY <1>7, Removal
  <2>2. UNCHANGED << encPc, encElem, produced >>
    BY <1>7 DEF TmrRemove, encVars
  <2>3. QED
    BY <2>1, <2>2 DEF FifoInv
<1>8. CASE EncEmptyLock
  BY <1>8 DEF FifoInv, EncEmptyLock, encVars, remVars, tmrVars, txVars
<1>9. CASE EncStampSec
  BY <1>9 DEF FifoInv, EncStampSec, encVars, remVars, tmrVars, txVars
<1>10. CASE EncStampUsec
  BY <1>10 DEF FifoInv, EncStampUsec, encVars, remVars, tmrVars, txVars
<1>11. CASE EncNewestLock
  BY <1>11 DEF FifoInv, EncNewestLock, encVars, remVars, tmrVars, txVars
<1>12. CASE EncTake
  BY <1>12 DEF FifoInv, EncTake, encVars, remVars, tmrVars, txVars
<1>13. CASE EncInsertLock
  BY <1>13 DEF FifoInv, EncInsertLock, encVars, remVars, tmrVars, txVars
<1>14. CASE EncReturn
  BY <1>14 DEF FifoInv, EncReturn, encVars, remVars, tmrVars, txVars
<1>15. CASE EncNotify
  <2>1. UNCHANGED << queue, encPc, encElem, produced >>
    BY <1>15 DEF EncNotify, encVars, remVars, tmrVars, txVars
  <2>2. QED
    BY <2>1 DEF FifoInv
<1>16. CASE RemCheck \/ RemClock \/ RemLock \/ RemReadOldest \/ RemReadNull \/ RemRemoveLock \/
            RemGiveCount \/ RemArm \/ RemAwait
  <2>1. UNCHANGED << queue, encPc, encElem, produced >>
    BY <1>16 DEF RemCheck, RemClock, RemLock, RemReadOldest, RemReadNull,
                 RemRemoveLock, RemGiveCount, RemArm, RemAwait, encVars, remVars,
                 tmrVars, txVars
  <2>2. QED
    BY <2>1 DEF FifoInv
<1>17. CASE TmrFire \/ TmrLock \/ TmrGiveCount \/ TmrSignal
  <2>1. UNCHANGED << queue, encPc, encElem, produced >>
    BY <1>17 DEF TmrFire, TmrLock, TmrGiveCount, TmrSignal, encVars, remVars,
                 tmrVars, txVars
  <2>2. QED
    BY <2>1 DEF FifoInv
<1>18. ASSUME NEW c \in Clients, Tx(c) PROVE StreamPosition'
  <2>1. UNCHANGED << queue, encPc, encElem, produced >>
    BY <1>18 DEF Tx, TxReceive, TxLock, TxSend, encVars, remVars, tmrVars, txVars
  <2>2. QED
    BY <2>1 DEF FifoInv
<1>19. CASE Tick
  <2>1. UNCHANGED << queue, encPc, encElem, produced >>
    BY <1>19 DEF Tick, encVars, remVars, tmrVars, txVars
  <2>2. QED
    BY <2>1 DEF FifoInv
<1>20. QED
  BY <1>1, <1>2, <1>3, <1>4, <1>5, <1>6, <1>7, <1>8, <1>9, <1>10, <1>11, <1>12,
     <1>13, <1>14, <1>15, <1>16, <1>17, <1>18, <1>19
     DEF Next, Tasks, WriteCallback, Remover, Timer, Tx

\* Two chunks of the list never have the same id.
LEMMA DistinctIds ==
  ASSUME TypeOk, Contiguous, NEW i \in DOMAIN queue, NEW j \in DOMAIN queue,
         queue[i].id = queue[j].id
  PROVE  i = j
<1>1. i \in 1 .. Len(queue) /\ j \in 1 .. Len(queue) /\ Len(queue) \in Nat /\ queue # <<>>
  BY LenProperties, EmptySeq DEF TypeOk
<1>2. NewestId \in Nat
  BY <1>1, Newest
<1>3. QED
  BY <1>1, <1>2 DEF Contiguous

\* A chunk enters one block after the newest; a removal only shortens the list.
LEMMA ContiguousStep == FifoInv /\ Next => Contiguous'
<1>. SUFFICES ASSUME FifoInv, Next PROVE Contiguous'
  OBVIOUS
<1>. USE FifoAssumption DEF Contiguous
<1>1. CASE EncInsert
  <2>1. /\ Len(queue) \in Nat /\ Len(queue') = Len(queue) + 1
        /\ \A i \in 1 .. Len(queue) : queue'[i] = queue[i]
        /\ queue'[Len(queue')].ts = encStamp /\ queue'[Len(queue')].id = produced
        /\ NewestId' = produced /\ produced \in Nat
    BY <1>1, Insertion DEF NewestId, FifoInv, TypeOk
  <2>2. queue # <<>> => /\ encStamp = queue[Len(queue)].ts + Offset
                       /\ NewestId = produced - 1
    BY <1>1 DEF FifoInv, StampRight, StreamPosition, Working, One, EncInsert
  <2>3. Len(queue) > 0 => queue # <<>>
    BY EmptySeq
  <2>4. ASSUME NEW i \in 1 .. Len(queue')
        PROVE  queue'[i].id = NewestId' - (Len(queue') - i)
    <3>1. CASE i = Len(queue')
      BY <2>1, <3>1
    <3>2. CASE i # Len(queue')
      <4>1. i \in 1 .. Len(queue) /\ queue # <<>>
        BY <2>1, <2>3, <3>2
      <4>2. queue'[i].id = NewestId - (Len(queue) - i)
        BY <2>1, <4>1 DEF FifoInv
      <4>3. QED
        BY <2>1, <2>2, <4>1, <4>2
    <3>3. QED
      BY <3>1, <3>2
  <2>5. ASSUME NEW i \in 1 .. Len(queue') - 1
        PROVE  queue'[i + 1].ts = queue'[i].ts + Offset
    <3>1. i \in 1 .. Len(queue) /\ queue # <<>> /\ queue'[i] = queue[i]
      BY <2>1, <2>3
    <3>2. CASE i = Len(queue)
      BY <2>1, <2>2, <3>1, <3>2
    <3>3. CASE i # Len(queue)
      <4>1. i \in 1 .. Len(queue) - 1 /\ i + 1 \in 1 .. Len(queue)
        BY <2>1, <3>1, <3>3
      <4>2. QED
        BY <2>1, <3>1, <4>1 DEF FifoInv
    <3>4. QED
      BY <3>2, <3>3
  <2>6. QED
    BY <2>4, <2>5
<1>2. CASE RemRemove
  <2>1. /\ Len(queue) \in Nat /\ Len(queue') = Len(queue) - 1
        /\ \A i \in 1 .. Len(queue') : queue'[i] = queue[i + 1]
        /\ NewestId' = NewestId
    BY <1>2, Removal DEF NewestId
  <2>2. ASSUME NEW i \in 1 .. Len(queue') PROVE i + 1 \in 1 .. Len(queue)
    BY <2>1
  <2>3. NewestId \in Nat
    BY <1>2, Removal, Newest DEF FifoInv
  <2>4. ASSUME NEW i \in 1 .. Len(queue')
        PROVE  queue'[i].id = NewestId' - (Len(queue') - i)
    <3>1. queue[i + 1].id = NewestId - (Len(queue) - (i + 1))
      BY <2>2 DEF FifoInv
    <3>2. queue'[i].id = queue[i + 1].id /\ i \in Int
      BY <2>1
    <3>3. Len(queue') - i = Len(queue) - (i + 1)
      BY <2>1, <3>2
    <3>4. QED
      BY <2>1, <3>1, <3>2, <3>3
  <2>5. ASSUME NEW i \in 1 .. Len(queue') - 1
        PROVE  queue'[i + 1].ts = queue'[i].ts + Offset
    <3>1. i \in 1 .. Len(queue') /\ i + 1 \in 1 .. Len(queue') /\ i + 1 \in 1 .. Len(queue) - 1
      BY <2>1
    <3>2. QED
      BY <2>1, <3>1 DEF FifoInv
  <2>6. QED
    BY <2>4, <2>5
<1>3. CASE TmrRemove
  <2>1. /\ Len(queue) \in Nat /\ Len(queue') = Len(queue) - 1
        /\ \A i \in 1 .. Len(queue') : queue'[i] = queue[i + 1]
        /\ NewestId' = NewestId
    BY <1>3, Removal DEF NewestId
  <2>2. ASSUME NEW i \in 1 .. Len(queue') PROVE i + 1 \in 1 .. Len(queue)
    BY <2>1
  <2>3. NewestId \in Nat
    BY <1>3, Removal, Newest DEF FifoInv
  <2>4. ASSUME NEW i \in 1 .. Len(queue')
        PROVE  queue'[i].id = NewestId' - (Len(queue') - i)
    <3>1. queue[i + 1].id = NewestId - (Len(queue) - (i + 1))
      BY <2>2 DEF FifoInv
    <3>2. queue'[i].id = queue[i + 1].id /\ i \in Int
      BY <2>1
    <3>3. Len(queue') - i = Len(queue) - (i + 1)
      BY <2>1, <3>2
    <3>4. QED
      BY <2>1, <3>1, <3>2, <3>3
  <2>5. ASSUME NEW i \in 1 .. Len(queue') - 1
        PROVE  queue'[i + 1].ts = queue'[i].ts + Offset
    <3>1. i \in 1 .. Len(queue') /\ i + 1 \in 1 .. Len(queue') /\ i + 1 \in 1 .. Len(queue) - 1
      BY <2>1
    <3>2. QED
      BY <2>1, <3>1 DEF FifoInv
  <2>6. QED
    BY <2>4, <2>5
<1>4. CASE EncFrame
  <2>1. UNCHANGED << queue >>
    BY <1>4 DEF EncFrame, encVars, remVars, tmrVars, txVars
  <2>2. QED
    BY <2>1 DEF FifoInv, NewestId
<1>5. CASE EncEmptyLock \/ EncEmptyRead \/ EncStampSec \/ EncStampUsec \/ EncNewestLock \/
           EncNewestRead \/ EncStampNext \/ EncTake \/ EncInsertLock \/ EncNotify \/ EncReturn
  <2>1. UNCHANGED << queue >>
    BY <1>5 DEF EncEmptyLock, EncEmptyRead, EncStampSec, EncStampUsec,
                EncNewestLock, EncNewestRead, EncStampNext, EncTake, EncInsertLock,
                EncNotify, EncReturn, encVars, remVars, tmrVars, txVars
  <2>2. QED
    BY <2>1 DEF FifoInv, NewestId
<1>6. CASE RemCheck \/ RemClock \/ RemLock \/ RemReadOldest \/ RemReadNull \/ RemRemoveLock \/
           RemGiveCount \/ RemArm \/ RemAwait
  <2>1. UNCHANGED << queue >>
    BY <1>6 DEF RemCheck, RemClock, RemLock, RemReadOldest, RemReadNull,
                RemRemoveLock, RemGiveCount, RemArm, RemAwait, encVars, remVars,
                tmrVars, txVars
  <2>2. QED
    BY <2>1 DEF FifoInv, NewestId
<1>7. CASE TmrFire \/ TmrLock \/ TmrGiveCount \/ TmrSignal
  <2>1. UNCHANGED << queue >>
    BY <1>7 DEF TmrFire, TmrLock, TmrGiveCount, TmrSignal, encVars, remVars,
                tmrVars, txVars
  <2>2. QED
    BY <2>1 DEF FifoInv, NewestId
<1>8. ASSUME NEW c \in Clients, Tx(c) PROVE Contiguous'
  <2>1. UNCHANGED << queue >>
    BY <1>8 DEF Tx, TxReceive, TxLock, TxSend, encVars, remVars, tmrVars, txVars
  <2>2. QED
    BY <2>1 DEF FifoInv, NewestId
<1>9. CASE Tick
  <2>1. UNCHANGED << queue >>
    BY <1>9 DEF Tick, encVars, remVars, tmrVars, txVars
  <2>2. QED
    BY <2>1 DEF FifoInv, NewestId
<1>10. QED
  BY <1>1, <1>2, <1>3, <1>4, <1>5, <1>6, <1>7, <1>8, <1>9
     DEF Next, Tasks, WriteCallback, Remover, Timer, Tx

\* The first stamp comes from two readings of the clock in this order, every
\* other one from the newest chunk.
LEMMA StampRightStep == FifoInv /\ Next => StampRight'
<1>. SUFFICES ASSUME FifoInv, Next PROVE StampRight'
  OBVIOUS
<1>. USE FifoAssumption DEF StampRight
<1>1. CASE EncStampSec
  <2>1. encStamp' = Second * ((now + Lead) \div Second) /\ now' = now /\ encPc' = "stampUsec"
    BY <1>1 DEF EncStampSec
  <2>2. Second * ((now + Lead) \div Second) \in Nat
    BY StampParts DEF FifoInv
  <2>3. QED
    BY <2>1, <2>2
<1>2. CASE EncStampUsec
  <2>1. encStamp <= Second * ((now + Lead) \div Second)
    BY <1>2 DEF FifoInv, EncStampUsec
  <2>2. encStamp' <= now + Lead
    BY <1>2, <2>1, StampParts DEF FifoInv, TypeOk, EncStampUsec
  <2>3. queue = <<>>
    BY <1>2 DEF FifoInv, StreamPosition, EncStampUsec
  <2>4. QED
    BY <1>2, <2>2, <2>3 DEF EncStampUsec
<1>3. CASE EncNewestRead
  BY <1>3 DEF FifoInv, EncNewestRead, encVars, remVars, tmrVars, txVars
<1>4. CASE EncStampNext
  <2>1. encElem # Null /\ queue # <<>> /\ encElem = queue[Len(queue)].id
    BY <1>4, Newest DEF FifoInv, StreamPosition, EncStampNext, Null
  <2>2. ASSUME NEW i \in DOMAIN queue, queue[i].id = encElem PROVE i = Len(queue)
    BY <2>1, <2>2, DistinctIds, Newest DEF FifoInv
  <2>3. encStamp' = queue[Len(queue)].ts + Offset
    BY <1>4, <2>1, <2>2, Newest DEF FifoInv, EncStampNext, Ids
  <2>4. QED
    BY <1>4, <2>1, <2>3 DEF EncStampNext
<1>5. CASE EncTake
  BY <1>5 DEF FifoInv, EncTake, encVars, remVars, tmrVars, txVars
<1>6. CASE EncInsert
  <2>1. encPc' = "notify"
    BY <1>6 DEF EncInsert
  <2>2. QED
    BY <2>1
<1>7. CASE RemRemove
  <2>1. queue # <<>> /\ queue' # <<>> /\ queue'[Len(queue')] = queue[Len(queue)]
    BY <1>7, Removal
  <2>2. UNCHANGED << encPc, encStamp, now >>
    BY <1>7 DEF RemRemove, encVars
  <2>3. QED
    BY <2>1, <2>2 DEF FifoInv
<1>8. CASE TmrRemove
  <2>1. queue # <<>> /\ queue' # <<>> /\ queue'[Len(queue')] = queue[Len(queue)]
    BY <1>8, Removal
  <2>2. UNCHANGED << encPc, encStamp, now >>
    BY <1>8 DEF TmrRemove, encVars
  <2>3. QED
    BY <2>1, <2>2 DEF FifoInv
<1>9. CASE Tick
  <2>1. now' = now + 1 /\ now \in Nat /\ encStamp \in Nat
    BY <1>9 DEF FifoInv, TypeOk, Tick
  <2>2. Second * ((now + Lead) \div Second) <= Second * ((now' + Lead) \div Second)
    <3>1. now + Lead \in Nat /\ now' + Lead \in Nat /\ now + Lead <= now' + Lead /\ Second \in Nat \ {0}
      BY <2>1
    <3>2. QED
      BY ONLY <3>1, WholeSeconds, Zenon
  <2>3. /\ Second * ((now + Lead) \div Second) \in Nat
        /\ Second * ((now' + Lead) \div Second) \in Nat
    <3>1. now' + Lead \in Nat /\ now' + Lead <= now' + Lead /\ Second \in Nat \ {0}
      BY <2>1
    <3>2. Second * ((now' + Lead) \div Second) \in Nat
      BY ONLY <3>1, WholeSeconds, Zenon
    <3>3. QED
      BY <3>2, StampParts DEF FifoInv
  <2>4. UNCHANGED << encPc, encStamp, queue >>
    BY <1>9 DEF Tick, encVars
  <2>5. QED
    BY <2>1, <2>2, <2>3, <2>4 DEF FifoInv
<1>10. CASE EncFrame
  BY <1>10 DEF FifoInv, EncFrame, encVars, remVars, tmrVars, txVars
<1>11. CASE EncEmptyLock \/ EncEmptyRead \/ EncNewestLock \/ EncInsertLock \/ EncNotify \/
            EncReturn
  BY <1>11 DEF FifoInv, EncEmptyLock, EncEmptyRead, EncNewestLock, EncInsertLock,
               EncNotify, EncReturn, encVars, remVars, tmrVars, txVars
<1>12. CASE RemCheck \/ RemClock \/ RemLock \/ RemReadOldest \/ RemReadNull \/ RemRemoveLock \/
            RemGiveCount \/ RemArm \/ RemAwait
  BY <1>12 DEF FifoInv, RemCheck, RemClock, RemLock, RemReadOldest, RemReadNull,
               RemRemoveLock, RemGiveCount, RemArm, RemAwait, encVars, remVars,
               tmrVars, txVars
<1>13. CASE TmrFire \/ TmrLock \/ TmrGiveCount \/ TmrSignal
  BY <1>13 DEF FifoInv, TmrFire, TmrLock, TmrGiveCount, TmrSignal, encVars, remVars,
               tmrVars, txVars
<1>14. ASSUME NEW c \in Clients, Tx(c) PROVE StampRight'
  BY <1>14 DEF Tx, FifoInv, TxReceive, TxLock, TxSend, encVars, remVars, tmrVars,
               txVars
<1>15. QED
  BY <1>1, <1>2, <1>3, <1>4, <1>5, <1>6, <1>7, <1>8, <1>9, <1>10, <1>11, <1>12,
     <1>13, <1>14
     DEF Next, Tasks, WriteCallback, Remover, Timer, Tx

\* How the removal time of the oldest chunk moves.
LEMMA RemovalExpiry ==
  ASSUME FifoInv, RemRemove \/ TmrRemove
  PROVE  Expiry \in Nat /\ Expiry' = Expiry + Offset
<1>1. /\ queue # <<>> /\ Len(queue) > 1 /\ Len(queue) \in Nat
      /\ Head(queue) = queue[1] /\ Head(queue') = queue[2]
  BY Removal
<1>2. queue[2].ts = queue[1].ts + Offset
  BY <1>1 DEF FifoInv, Contiguous
<1>3. queue[1].ts \in Nat
  BY <1>1, Newest DEF FifoInv
<1>4. QED
  BY <1>1, <1>2, <1>3, FifoAssumption DEF Expiry

\* Whenever a removal is under way there is an oldest chunk to remove.
LEMMA ExpiryExists ==
  ASSUME FifoInv, TimerRemovals + RemoverRemovals > 0
  PROVE  queue # <<>> /\ Expiry \in Nat
<1>1. queue # <<>>
  BY EnoughChunks, EmptySeq DEF FifoInv
<1>2. QED
  BY <1>1, Newest, FifoAssumption DEF FifoInv, Expiry

\* While the timer has two removals to do, or one and the remover another, no
\* third is under way.
LEMMA AtMostTwo ==
  ASSUME FifoInv
  PROVE  TimerRemovals + RemoverRemovals <= 2
  BY DEF FifoInv, TypeOk, RemovalsBounded, TimerRemovals, RemoverRemovals, Giving, One

\* A removal under way aims at the oldest chunk or at its predecessor, which a
\* concurrent removal has taken already.
LEMMA DeadlinesRightStep == FifoInv /\ Next => DeadlinesRight'
<1>. SUFFICES ASSUME FifoInv, Next PROVE DeadlinesRight'
  OBVIOUS
<1>. USE FifoAssumption DEF DeadlinesRight, TimerRemovals, One, Off, TypeOk
<1>1. CASE EncInsert
  <2>1. UNCHANGED << now, alarm, tmrPc, remPc, remNow, remStamp >>
    BY <1>1 DEF EncInsert, remVars, tmrVars
  <2>2. TimerRemovals + RemoverRemovals > 0 => Expiry' = Expiry
    BY <1>1, ExpiryExists, Insertion DEF Expiry
  <2>3. QED
    BY <2>1, <2>2 DEF FifoInv, RemoverRemovals
<1>2. CASE RemCheck
  <2>1. remPc' = "clock" /\ UNCHANGED << now, queue, alarm, tmrPc, remNow, remStamp >>
    BY <1>2 DEF RemCheck, tmrVars
  <2>2. Expiry' = Expiry
    BY <2>1 DEF Expiry
  <2>9. QED
    BY <2>1, <2>2 DEF FifoInv
<1>3. CASE RemClock
  <2>1. remPc = "clock" /\ remPc' = "lock" /\ remNow' = now /\ UNCHANGED << now, queue, alarm, tmrPc, remStamp >>
    BY <1>3 DEF RemClock, tmrVars
  <2>2. Expiry' = Expiry
    BY <2>1 DEF Expiry
  <2>9. QED
    BY <2>1, <2>2 DEF FifoInv
<1>4. CASE RemLock
  <2>1. remPc = "lock" /\ remPc' = "read" /\ UNCHANGED << now, queue, alarm, tmrPc, remNow, remStamp >>
    BY <1>4 DEF RemLock, tmrVars
  <2>2. Expiry' = Expiry
    BY <2>1 DEF Expiry
  <2>9. QED
    BY <2>1, <2>2 DEF FifoInv
<1>5. CASE RemReadOldest
  <2>1. /\ remPc = "read" /\ remStamp' + Buf = Expiry
        /\ remPc' = IF remNow > remStamp' + Buf THEN "removeLock" ELSE "arm"
        /\ UNCHANGED << now, queue, alarm, tmrPc, remNow >>
    BY <1>5 DEF RemReadOldest, tmrVars, Expiry
  <2>2. Expiry' = Expiry
    BY <2>1 DEF Expiry
  <2>3. Expiry \in Nat
    BY <1>5, ExpiryExists DEF RemReadOldest, RemoverRemovals
  <2>9. QED
    BY <2>1, <2>2, <2>3 DEF FifoInv
<1>6. CASE RemRemoveLock
  <2>1. remPc = "removeLock" /\ remPc' = "remove" /\ UNCHANGED << now, queue, alarm, tmrPc, remNow, remStamp >>
    BY <1>6 DEF RemRemoveLock, tmrVars
  <2>2. Expiry' = Expiry
    BY <2>1 DEF Expiry
  <2>9. QED
    BY <2>1, <2>2 DEF FifoInv
<1>7. CASE RemRemove
  <2>1. remPc = "remove" /\ remPc' = "giveCount" /\ UNCHANGED << now, alarm, tmrPc, remNow, remStamp >>
    BY <1>7 DEF RemRemove, tmrVars
  <2>2. Expiry \in Nat /\ Expiry' = Expiry + Offset
    BY <1>7, RemovalExpiry
  <2>3. ~(alarm # Off /\ tmrPc \in {"lock", "remove"})
    BY <2>1, AtMostTwo DEF RemoverRemovals
  <2>9. QED
    BY <2>1, <2>2, <2>3 DEF FifoInv
<1>8. CASE RemGiveCount
  <2>1. remPc' = "check" /\ UNCHANGED << now, queue, alarm, tmrPc >>
    BY <1>8 DEF RemGiveCount, tmrVars
  <2>2. Expiry' = Expiry
    BY <2>1 DEF Expiry
  <2>9. QED
    BY <2>1, <2>2 DEF FifoInv
<1>9. CASE RemArm
  <2>1. /\ remPc = "arm" /\ remPc' = "await"
        /\ alarm' = IF alarm = Off THEN now + (remStamp + Buf - remNow) ELSE alarm
        /\ UNCHANGED << now, queue, tmrPc >>
    BY <1>9 DEF RemArm, tmrVars
  <2>2. Expiry' = Expiry
    BY <2>1 DEF Expiry
  <2>3. Expiry \in Nat
    BY <1>9, ExpiryExists DEF RemArm, RemoverRemovals
  <2>9. QED
    BY <2>1, <2>2, <2>3 DEF FifoInv
<1>10. CASE RemAwait
  <2>1. remPc' = "check" /\ UNCHANGED << now, queue, alarm, tmrPc, remNow, remStamp >>
    BY <1>10 DEF RemAwait, tmrVars
  <2>2. Expiry' = Expiry
    BY <2>1 DEF Expiry
  <2>9. QED
    BY <2>1, <2>2 DEF FifoInv
<1>11. CASE TmrFire
  <2>1. /\ tmrPc = "idle" /\ alarm # Off /\ now >= alarm
        /\ alarm' = Off /\ tmrPc' = "lock" /\ UNCHANGED << now, queue, remPc, remNow, remStamp >>
    BY <1>11 DEF TmrFire, remVars
  <2>2. Expiry' = Expiry
    BY <2>1 DEF Expiry
  <2>3. Expiry \in Nat
    BY <2>1, ExpiryExists DEF RemoverRemovals
  <2>9. QED
    BY <2>1, <2>2, <2>3 DEF FifoInv
<1>12. CASE TmrLock
  <2>1. tmrPc = "lock" /\ tmrPc' = "remove" /\ UNCHANGED << now, queue, alarm, remPc, remNow, remStamp >>
    BY <1>12 DEF TmrLock, remVars
  <2>2. Expiry' = Expiry
    BY <2>1 DEF Expiry
  <2>9. QED
    BY <2>1, <2>2 DEF FifoInv
<1>13. CASE TmrRemove
  <2>1. tmrPc = "remove" /\ tmrPc' = "giveCount" /\ UNCHANGED << now, alarm, remPc, remNow, remStamp >>
    BY <1>13 DEF TmrRemove, remVars
  <2>2. Expiry \in Nat /\ Expiry' = Expiry + Offset
    BY <1>13, RemovalExpiry
  <2>3. remPc \in {"removeLock", "remove", "arm"} => alarm = Off
    BY <2>1, AtMostTwo DEF RemoverRemovals
  <2>9. QED
    BY <2>1, <2>2, <2>3 DEF FifoInv
<1>14. CASE TmrGiveCount
  <2>1. tmrPc = "giveCount" /\ tmrPc' = "signal" /\ UNCHANGED << now, queue, alarm, remPc, remNow, remStamp >>
    BY <1>14 DEF TmrGiveCount, remVars
  <2>2. Expiry' = Expiry
    BY <2>1 DEF Expiry
  <2>9. QED
    BY <2>1, <2>2 DEF FifoInv
<1>15. CASE TmrSignal
  <2>1. tmrPc = "signal" /\ tmrPc' = "idle" /\ UNCHANGED << now, queue, alarm, remPc, remNow, remStamp >>
    BY <1>15 DEF TmrSignal, remVars
  <2>2. Expiry' = Expiry
    BY <2>1 DEF Expiry
  <2>9. QED
    BY <2>1, <2>2 DEF FifoInv
<1>16. CASE Tick
  <2>1. now' = now + 1 /\ UNCHANGED << queue, alarm, tmrPc, remPc, remNow, remStamp >>
    BY <1>16 DEF Tick, remVars, tmrVars
  <2>2. Expiry' = Expiry
    BY <2>1 DEF Expiry
  <2>3. TimerRemovals + RemoverRemovals > 0 => Expiry \in Nat
    BY ExpiryExists
  <2>9. QED
    BY <2>1, <2>2, <2>3 DEF FifoInv, RemoverRemovals
<1>17. CASE EncFrame
  <2>1. UNCHANGED << now, queue, alarm, tmrPc, remPc, remNow, remStamp >>
    BY <1>17 DEF EncFrame, encVars, remVars, tmrVars, txVars
  <2>2. QED
    BY <2>1 DEF FifoInv, Expiry
<1>18. CASE EncEmptyLock \/ EncEmptyRead \/ EncStampSec \/ EncStampUsec \/ EncNewestLock \/
            EncNewestRead \/ EncStampNext \/ EncTake \/ EncInsertLock \/ EncNotify \/
            EncReturn
  <2>1. UNCHANGED << now, queue, alarm, tmrPc, remPc, remNow, remStamp >>
    BY <1>18 DEF EncEmptyLock, EncEmptyRead, EncStampSec, EncStampUsec,
                 EncNewestLock, EncNewestRead, EncStampNext, EncTake, EncInsertLock,
                 EncNotify, EncReturn, encVars, remVars, tmrVars, txVars
  <2>2. QED
    BY <2>1 DEF FifoInv, Expiry
<1>19. CASE RemReadNull
  <2>1. UNCHANGED << now, queue, alarm, tmrPc, remPc, remNow, remStamp >>
    BY <1>19 DEF RemReadNull, encVars, remVars, tmrVars, txVars
  <2>2. QED
    BY <2>1 DEF FifoInv, Expiry
<1>20. ASSUME NEW c \in Clients, Tx(c) PROVE DeadlinesRight'
  <2>1. UNCHANGED << now, queue, alarm, tmrPc, remPc, remNow, remStamp >>
    BY <1>20 DEF Tx, TxReceive, TxLock, TxSend, encVars, remVars, tmrVars, txVars
  <2>2. QED
    BY <2>1 DEF FifoInv, Expiry
<1>21. QED
  BY <1>1, <1>2, <1>3, <1>4, <1>5, <1>6, <1>7, <1>8, <1>9, <1>10, <1>11, <1>12,
     <1>13, <1>14, <1>15, <1>16, <1>17, <1>18, <1>19, <1>20
     DEF Next, Tasks, WriteCallback, Remover, Timer, Tx

\* Each chunk inserted announces itself to every client in slot order, and each
\* announcement received is followed by sending the newest chunk.
LEMMA LagStep == FifoInv /\ Next => Lag'
<1>. SUFFICES ASSUME FifoInv, Next, queue' # <<>>, NEW d \in Clients
              PROVE  NewestId' - sent'[d] <= pend'[d] + One(txPc'[d] # "receive")
                                           + One(encPc' = "notify" /\ encSlot' <= d)
  BY DEF Lag, One
<1>. USE FifoAssumption DEF One
<1>. DEFINE Same == queue # <<>> /\ NewestId' = NewestId
<1>1. /\ queue # <<>> => NewestId \in Nat
      /\ sent[d] \in Nat /\ pend[d] \in Nat /\ d \in Nat
      /\ encSlot \in 1 .. NClients + 1 /\ produced \in Nat
      /\ queue # <<>> => NewestId - sent[d] <= pend[d] + One(txPc[d] # "receive")
                                               + One(encPc = "notify" /\ encSlot <= d)
  <2>1. queue # <<>> => NewestId \in Nat
    BY Newest DEF FifoInv
  <2>2. /\ sent[d] \in Nat /\ pend[d] \in Nat /\ d \in Nat
        /\ encSlot \in 1 .. NClients + 1 /\ produced \in Nat
    BY DEF FifoInv, TypeOk, Clients
  <2>3. QED
    BY <2>1, <2>2 DEF FifoInv, Lag
<1>2. CASE EncInsert
  <2>1. /\ NewestId' = produced
        /\ queue = <<>> => produced = 1
        /\ queue # <<>> => NewestId = produced - 1
    BY <1>2, Insertion DEF FifoInv, StreamPosition, Working, EncInsert, NewestId
  <2>2. /\ encPc = "insert" /\ encPc' = "notify" /\ encSlot' = 1
        /\ UNCHANGED << sent, pend, txPc >>
    BY <1>2 DEF EncInsert, txVars
  <2>3. d >= 1
    BY DEF Clients
  <2>4. QED
    BY <1>1, <2>1, <2>2, <2>3
<1>3. CASE EncNotify
  <2>1. /\ encPc = "notify" /\ encPc' = "notify" /\ encSlot' = encSlot + 1
        /\ Same /\ UNCHANGED << sent, txPc >>
    BY <1>3 DEF EncNotify, NewestId
  <2>2. pend'[d] = IF d = encSlot THEN pend[d] + 1 ELSE pend[d]
    BY <1>3 DEF FifoInv, TypeOk, EncNotify
  <2>3. QED
    BY <1>1, <2>1, <2>2
<1>4. CASE EncReturn
  <2>1. /\ encPc' = "idle" /\ encSlot > d
        /\ Same /\ UNCHANGED << sent, txPc, pend >>
    BY <1>1, <1>4 DEF EncReturn, txVars, NewestId, Clients
  <2>2. QED
    BY <1>1, <2>1
<1>5. CASE EncFrame \/ EncEmptyLock \/ EncEmptyRead \/ EncStampSec \/ EncStampUsec \/
           EncNewestLock \/ EncNewestRead \/ EncStampNext \/ EncTake \/ EncInsertLock
  <2>1. /\ encPc # "notify" /\ encPc' # "notify"
        /\ Same /\ UNCHANGED << sent, txPc, pend >>
    BY <1>5 DEF EncFrame, EncEmptyLock, EncEmptyRead, EncStampSec, EncStampUsec, EncNewestLock,
                EncNewestRead, EncStampNext, EncTake, EncInsertLock, txVars, NewestId
  <2>2. QED
    BY <1>1, <2>1
<1>6. CASE RemRemove \/ TmrRemove
  <2>1. Same
    BY <1>6, Removal DEF NewestId
  <2>2. UNCHANGED << sent, txPc, pend, encPc, encSlot >>
    BY <1>6 DEF RemRemove, TmrRemove, encVars, txVars
  <2>3. QED
    BY <1>1, <2>1, <2>2
<1>7. CASE \/ RemCheck \/ RemClock \/ RemLock \/ RemReadOldest \/ RemReadNull \/ RemRemoveLock
           \/ RemGiveCount \/ RemArm \/ RemAwait \/ TmrFire \/ TmrLock \/ TmrGiveCount
           \/ TmrSignal \/ Tick
  <2>1. Same /\ UNCHANGED << sent, txPc, pend, encPc, encSlot >>
    BY <1>7 DEF RemCheck, RemClock, RemLock, RemReadOldest, RemReadNull, RemRemoveLock,
                RemGiveCount, RemArm, RemAwait, TmrFire, TmrLock, TmrGiveCount, TmrSignal,
                Tick, encVars, txVars, NewestId
  <2>2. QED
    BY <1>1, <2>1
<1>8. ASSUME NEW c \in Clients, Tx(c)
      PROVE  NewestId' - sent'[d] <= pend'[d] + One(txPc'[d] # "receive")
                                    + One(encPc' = "notify" /\ encSlot' <= d)
  <2>1. Same /\ UNCHANGED << encPc, encSlot >>
    BY <1>8 DEF Tx, TxReceive, TxLock, TxSend, encVars, NewestId
  <2>2. d # c => UNCHANGED << pend[d], txPc[d], sent[d] >>
    BY <1>8 DEF FifoInv, TypeOk, Tx, TxReceive, TxLock, TxSend
  <2>3. ASSUME TxReceive(c), d = c
        PROVE  /\ txPc[d] = "receive" /\ txPc'[d] = "lock" /\ sent'[d] = sent[d]
               /\ pend'[d] = pend[d] - 1
    BY <2>3 DEF FifoInv, TypeOk, TxReceive
  <2>4. ASSUME TxLock(c), d = c
        PROVE  /\ txPc[d] = "lock" /\ txPc'[d] = "send" /\ sent'[d] = sent[d]
               /\ pend'[d] = pend[d]
    BY <2>4 DEF FifoInv, TypeOk, TxLock
  <2>5. ASSUME TxSend(c), d = c
        PROVE  sent'[d] = NewestId /\ pend'[d] = pend[d]
    BY <2>1, <2>5 DEF FifoInv, TypeOk, TxSend
  <2>6. QED
    BY <1>1, <1>8, <2>1, <2>2, <2>3, <2>4, <2>5 DEF Tx
<1>9. QED
  BY <1>2, <1>3, <1>4, <1>5, <1>6, <1>7, <1>8
     DEF Next, Tasks, WriteCallback, Remover, Timer

\* Nothing dereferences a null pointer.
LEMMA NoPanicStep == FifoInv /\ Next => ~panic'
<1>. SUFFICES ASSUME FifoInv, Next PROVE ~panic'
  OBVIOUS
<1>1. remPc = "read" => queue # <<>>
  <2>1. remPc = "read" => TimerRemovals + RemoverRemovals > 0
    BY DEF TimerRemovals, RemoverRemovals, One
  <2>2. QED
    BY <2>1, EnoughChunks, EmptySeq DEF FifoInv
<1>2. ~panic
  BY DEF FifoInv
<1>3. QED
  BY <1>1, <1>2
     DEF Next, Tasks, EncFrame, WriteCallback, EncEmptyLock, EncEmptyRead, EncStampSec,
         EncStampUsec, EncNewestLock, EncNewestRead, EncStampNext, EncTake, EncInsertLock,
         EncInsert, EncNotify, EncReturn, Remover, RemCheck, RemClock, RemLock,
         RemReadOldest, RemReadNull, RemRemoveLock, RemRemove, RemGiveCount, RemArm,
         RemAwait, Timer, TmrFire, TmrLock, TmrRemove, TmrGiveCount, TmrSignal,
         Tx, TxReceive, TxLock, TxSend, Tick

-----------------------------------------------------------------------------

\* The invariant and its parts, at every step of the specification.
THEOREM FifoInvariant == Spec => []FifoInv
<1>1. FifoInv /\ [Next]_vars => FifoInv'
  <2>1. FifoInv /\ Next => FifoInv'
    BY TypeStep, MutualExclusionStep, SlotAccountingStep, SignalsBoundedStep,
       RemovalsBoundedStep, StreamPositionStep, ContiguousStep, StampRightStep,
       DeadlinesRightStep, LagStep, NoPanicStep
       DEF FifoInv
  <2>2. FifoInv /\ UNCHANGED vars => FifoInv'
    BY DEF vars, FifoInv, TypeOk, MutualExclusion, SlotAccounting, SignalsBounded, Signals,
           RemovalsBounded, TimerRemovals, RemoverRemovals, Inserting, Giving,
           StreamPosition, Working, NewestId, Contiguous, StampRight, DeadlinesRight,
           Expiry, Lag
  <2>3. QED
    BY <2>1, <2>2
<1>2. QED
  BY InitFifoInv, <1>1, PTL DEF Spec

\* countSemaphore stays within the fifo's size, a msgQ within its capacity.
THEOREM TypeCorrect == Spec => []TypeOk
<1>1. FifoInv => TypeOk
  BY DEF FifoInv
<1>2. QED
  BY <1>1, FifoInvariant, PTL

\* wire_chunk_fifo_insert and wire_chunk_fifo_remove_oldest lose no slot.
THEOREM SlotsAccounted == Spec => []SlotAccounting
<1>1. FifoInv => SlotAccounting
  BY DEF FifoInv
<1>2. QED
  BY <1>1, FifoInvariant, PTL

\* The remove-oldest task and its timer never remove more than a full fifo can
\* spare.
THEOREM RemovalsAreBounded == Spec => []RemovalsBounded
<1>1. FifoInv => RemovalsBounded
  BY DEF FifoInv
<1>2. QED
  BY <1>1, FifoInvariant, PTL

\* write_callback's use of the newest chunk after the unlock is safe.
THEOREM HeldElementIsLive == Spec => []HeldElementLive
<1>1. FifoInv => HeldElementLive
  <2>. SUFFICES ASSUME FifoInv, encPc = "stampNext"
                PROVE  encElem # Null /\ encElem \in Ids(queue)
    BY DEF HeldElementLive
  <2>1. queue # <<>> /\ encElem = NewestId
    BY DEF FifoInv, StreamPosition
  <2>2. QED
    BY <2>1, Newest DEF FifoInv, Ids, Null
<1>2. QED
  BY <1>1, FifoInvariant, PTL

\* The remove-oldest task never dereferences a null oldest chunk.
THEOREM OldestAlwaysExists == Spec => []OldestExists
<1>1. FifoInv => OldestExists
  <2>1. FifoInv /\ remPc = "read" => TimerRemovals + RemoverRemovals > 0
    BY DEF FifoInv, TypeOk, TimerRemovals, RemoverRemovals, One
  <2>2. QED
    BY <2>1, ExpiryExists DEF FifoInv, OldestExists
<1>2. QED
  BY <1>1, FifoInvariant, PTL

\* The remove-oldest task never waits for a token nobody will give.
THEOREM NoLostWakeup == Spec => []WakeupPending
<1>1. FifoInv => WakeupPending
  BY DEF FifoInv, TypeOk, SignalsBounded, Signals, One, WakeupPending
<1>2. QED
  BY <1>1, FifoInvariant, PTL

\* No client is more than QLen + 2 chunks behind the newest.
THEOREM LagIsBounded == Spec => []LagBounded
<1>1. FifoInv => LagBounded
  <2>. SUFFICES ASSUME FifoInv, queue # <<>>, NEW c \in Clients
                PROVE  NewestId - sent[c] <= QLen + 2
    BY DEF LagBounded
  <2>1. NewestId \in Nat /\ sent[c] \in Nat /\ pend[c] \in 0 .. QLen
    BY Newest DEF FifoInv, TypeOk
  <2>2. NewestId - sent[c] <= pend[c] + One(txPc[c] # "receive")
                                      + One(encPc = "notify" /\ encSlot <= c)
    BY DEF FifoInv, Lag
  <2>3. QED
    BY <2>1, <2>2, FifoAssumption DEF One
<1>2. QED
  BY <1>1, FifoInvariant, PTL

-----------------------------------------------------------------------------
(***************************************************************************)
(* The fifo implements AudioWindow.                                        *)
(***************************************************************************)

\* An empty fifo is a window that has not started.
LEMMA WindowInit == Init => Window!Init
  BY DEF Init, Window!Init

\* Only an insertion, a removal and the clock are visible in the window.
LEMMA WindowStep == FifoInv /\ [Next]_vars => [Window!Next]_<<queue, now>>
<1>. SUFFICES ASSUME FifoInv, [Next]_vars
              PROVE  [Window!Next]_<<queue, now>>
  OBVIOUS
<1>. USE FifoAssumption
<1>1. CASE EncInsert
  <2>1. /\ now' = now /\ queue' = Append(queue, [id |-> produced, ts |-> encStamp])
        /\ encPc = "insert" /\ now \in Nat /\ encStamp \in Nat /\ produced \in Nat
    BY <1>1 DEF EncInsert, FifoInv, TypeOk
  <2>2. CASE queue = <<>>
    <3>1. produced = 1 /\ encStamp \in 0 .. now + Lead
      BY <2>1, <2>2 DEF FifoInv, StreamPosition, Working, One, StampRight
    <3>2. queue' = << [id |-> 1, ts |-> encStamp] >>
      BY <2>1, <2>2, <3>1
    <3>3. Window!Start
      BY <2>1, <2>2, <3>1, <3>2 DEF Window!Start
    <3>4. QED
      BY <3>3 DEF Window!Next
  <2>3. CASE queue # <<>>
    <3>1. /\ encStamp = queue[Len(queue)].ts + Offset
          /\ produced = queue[Len(queue)].id + 1
      BY <2>1, <2>3, Newest DEF FifoInv, StreamPosition, Working, One, StampRight
    <3>2. Len(queue) < MaxSize
      BY <2>1, LenProperties
         DEF FifoInv, TypeOk, SlotAccounting, Inserting, Giving, One
    <3>3. Window!Extend
      BY <2>1, <2>3, <3>1, <3>2 DEF Window!Extend
    <3>4. QED
      BY <3>3 DEF Window!Next
  <2>4. QED
    BY <2>2, <2>3
<1>2. CASE RemRemove \/ TmrRemove
  <2>1. /\ Len(queue) > 1 /\ queue' = Tail(queue)
    BY <1>2, Removal DEF RemRemove, TmrRemove, DeleteOldest
  <2>2. now' = now
    BY <1>2 DEF RemRemove, TmrRemove
  <2>3. now >= Head(queue).ts + Buf - Offset
    <3>1. Expiry \in Nat /\ now \in Nat /\ remNow \in Nat /\ remStamp \in Nat
      BY <1>2, RemovalExpiry DEF FifoInv, TypeOk
    <3>2. ASSUME RemRemove PROVE now >= Expiry - Offset
      <4>1. now >= remNow /\ remNow > remStamp + Buf /\ Expiry <= remStamp + Buf + Offset
        BY <3>2 DEF FifoInv, DeadlinesRight, RemRemove
      <4>2. QED
        BY <3>1, <4>1
    <3>3. ASSUME TmrRemove PROVE now >= Expiry - Offset
      BY <3>3 DEF FifoInv, DeadlinesRight, TmrRemove
    <3>4. now >= Expiry - Offset
      BY <1>2, <3>2, <3>3
    <3>5. Head(queue).ts \in Nat
      BY <1>2, Removal, Newest DEF FifoInv
    <3>6. QED
      BY <3>1, <3>4, <3>5 DEF Expiry
  <2>4. Window!Drop
    BY <2>1, <2>2, <2>3 DEF Window!Drop
  <2>5. QED
    BY <2>4 DEF Window!Next
<1>3. CASE Tick
  <2>1. Window!Advance
    BY <1>3 DEF Tick, Window!Advance, FifoInv, TypeOk
  <2>2. QED
    BY <2>1 DEF Window!Next
<1>4. CASE \/ EncFrame \/ EncEmptyLock \/ EncEmptyRead \/ EncStampSec \/ EncStampUsec
           \/ EncNewestLock \/ EncNewestRead \/ EncStampNext \/ EncTake \/ EncInsertLock
           \/ EncNotify \/ EncReturn
  BY <1>4 DEF EncFrame, EncEmptyLock, EncEmptyRead, EncStampSec, EncStampUsec, EncNewestLock,
              EncNewestRead, EncStampNext, EncTake, EncInsertLock, EncNotify, EncReturn
<1>5. CASE \/ RemCheck \/ RemClock \/ RemLock \/ RemReadOldest \/ RemReadNull \/ RemRemoveLock
           \/ RemGiveCount \/ RemArm \/ RemAwait \/ TmrFire \/ TmrLock \/ TmrGiveCount
           \/ TmrSignal
  BY <1>5 DEF RemCheck, RemClock, RemLock, RemReadOldest, RemReadNull, RemRemoveLock,
              RemGiveCount, RemArm, RemAwait, TmrFire, TmrLock, TmrGiveCount, TmrSignal
<1>6. ASSUME NEW c \in Clients, Tx(c) PROVE [Window!Next]_<<queue, now>>
  BY <1>6 DEF Tx, TxReceive, TxLock, TxSend
<1>7. CASE UNCHANGED vars
  BY <1>7 DEF vars
<1>8. QED
  BY <1>1, <1>2, <1>3, <1>4, <1>5, <1>6, <1>7
     DEF Next, Tasks, WriteCallback, Remover, Timer

\* The list of chunks is the sliding window that clients play from.
THEOREM FifoImplementsWindow == Spec => ImplementsWindow
  BY WindowInit, WindowStep, FifoInvariant, PTL DEF Spec, ImplementsWindow, Window!Spec
=============================================================================
