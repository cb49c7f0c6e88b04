--------------------------- MODULE StreamControl ---------------------------
(***************************************************************************)
(* The renderer's play and stop requests on top of WireChunkFifo.  The     *)
(* HTTP server's task runs flac_encoder_deinit, which                      *)
(*                                                                         *)
(*   - deletes the encoder task wherever that task happens to be: a slot   *)
(*     it has taken is lost, and if it holds mux nobody gets mux again;    *)
(*   - finishes the FLAC encoder, which may flush one more block through   *)
(*     write_callback, now in the HTTP server's task;                      *)
(*   - clears the fifo, but neither the remove-oldest task nor the timer,  *)
(*     which go on with the removal they have decided on;                  *)
(*                                                                         *)
(* and, for a play request, flac_encoder_init.  A pause request only stops *)
(* the supply of blocks, which EncFrame never promises.  Initially the     *)
(* chip has started, so an encoder exists and nothing plays.               *)
(***************************************************************************)
EXTENDS WireChunkFifo

CONSTANT
  MaxRequests    \* bound: the requests the renderer receives

ASSUME StreamAssumption == MaxRequests \in Nat

VARIABLES
  encAlive,      \* flac_encoder_task_handle # NULL
  streaming,     \* the pipeline is running
  flac,          \* the FLAC encoder: "none", "new", or "fed" once samples may have reached it
  ctlPc,         \* where renderer_request is
  ctlReq,        \* the request it serves
  requests,      \* requests received so far
  stale          \* history: some clear met a removal that was under way

ctlVars == << encAlive, streaming, flac, ctlPc, ctlReq, requests >>
streamVars == << vars, ctlVars, stale >>

ControlTask == -4  \* the HTTP server's task as a holder of mux

StreamInit ==
  /\ Init
  /\ encAlive = TRUE /\ streaming = FALSE /\ flac = "new"
  /\ ctlPc = "idle" /\ ctlReq = "STOP" /\ requests = 0
  /\ stale = FALSE

-----------------------------------------------------------------------------
(* renderer_request, AVT_PLAY and AVT_STOP.                                *)

\* A stop request stops the pipeline first, a play request the encoder.
CtlRequest ==
  /\ ctlPc = "idle"
  /\ requests < MaxRequests
  /\ requests' = requests + 1
  /\ \E r \in {"PLAY", "STOP"} : /\ ctlReq' = r
                                 /\ streaming' = (streaming /\ r = "PLAY")
  /\ ctlPc' = "delete"
  /\ UNCHANGED << vars, encAlive, flac, stale >>

\* Variant: gives a slot back for the block that the encoder may have in hand.
CtlDeleteGives ==
  /\ ctlPc = "delete"
  /\ encAlive' = FALSE
  /\ encPc' = "idle" /\ encElem' = Null /\ encStamp' = 0 /\ encSlot' = 1
  /\ GiveCount
  /\ ctlPc' = IF flac = "none" THEN "clearLock" ELSE "finish"
  /\ UNCHANGED << now, queue, mux, oldestRemoved, produced, remVars, tmrVars,
                  txVars, panic, streaming, flac, ctlReq, requests, stale >>

\* Variant: leaves the encoder task alive.
CtlDeleteNothing ==
  /\ ctlPc = "delete"
  /\ ctlPc' = IF flac = "none" THEN "clearLock" ELSE "finish"
  /\ UNCHANGED << vars, encAlive, streaming, flac, ctlReq, requests, stale >>

\* vTaskDelete: the encoder task's place in write_callback is forgotten.
CtlDelete ==
  /\ ctlPc = "delete"
  /\ encAlive' = FALSE
  /\ encPc' = "idle" /\ encElem' = Null /\ encStamp' = 0 /\ encSlot' = 1
  /\ ctlPc' = IF flac = "none" THEN "clearLock" ELSE "finish"
  /\ UNCHANGED << now, queue, count, mux, oldestRemoved, produced, remVars, tmrVars,
                  txVars, panic, streaming, flac, ctlReq, requests, stale >>

\* FLAC__stream_encoder_finish with samples left calls write_callback.
CtlFlush ==
  /\ ctlPc = "finish" /\ flac = "fed"
  /\ produced < MaxChunks
  /\ produced' = produced + 1
  /\ encPc' = "emptyLock"
  /\ ctlPc' = "flush"
  /\ UNCHANGED << now, queue, count, mux, oldestRemoved, encElem, encStamp, encSlot,
                  remVars, tmrVars, txVars, panic,
                  encAlive, streaming, flac, ctlReq, requests, stale >>

CtlFinished ==
  /\ ctlPc = "finish" \/ (ctlPc = "flush" /\ encPc = "idle")
  /\ flac' = "none"
  /\ ctlPc' = "clearLock"
  /\ UNCHANGED << vars, encAlive, streaming, ctlReq, requests, stale >>

CtlClearLock ==
  /\ ctlPc = "clearLock"
  /\ Lock(ControlTask)
  /\ ctlPc' = "clear"
  /\ UNCHANGED << now, queue, count, oldestRemoved, encVars, remVars, tmrVars, txVars,
                  panic, encAlive, streaming, flac, ctlReq, requests, stale >>

\* Variant: gives every slot of the fifo, not only those of the freed chunks.
CtlClearGivesAll ==
  /\ ctlPc = "clear"
  /\ Unlock(ControlTask)
  /\ queue' = <<>>
  /\ count' = count + MaxSize
  /\ stale' = (stale \/ TimerRemovals + RemoverRemovals > 0)
  /\ ctlPc' = IF ctlReq = "PLAY" THEN "restart" ELSE "idle"
  /\ UNCHANGED << now, oldestRemoved, encVars, remVars, tmrVars, txVars,
                  panic, encAlive, streaming, flac, ctlReq, requests >>

\* Variant: returns without giving mux back when there is nothing to clear.
CtlClearKeepsMux ==
  /\ ctlPc = "clear"
  /\ mux' = IF queue = <<>> THEN mux ELSE Free
  /\ queue' = <<>>
  /\ count' = IF count + Len(queue) < MaxSize THEN count + Len(queue) ELSE MaxSize
  /\ stale' = (stale \/ TimerRemovals + RemoverRemovals > 0)
  /\ ctlPc' = IF ctlReq = "PLAY" THEN "restart" ELSE "idle"
  /\ UNCHANGED << now, oldestRemoved, encVars, remVars, tmrVars, txVars,
                  panic, encAlive, streaming, flac, ctlReq, requests >>

\* wire_chunk_fifo_clear frees every chunk and gives its slot back.
CtlClear ==
  /\ ctlPc = "clear"
  /\ Unlock(ControlTask)
  /\ queue' = <<>>
  /\ count' = IF count + Len(queue) < MaxSize THEN count + Len(queue) ELSE MaxSize
  /\ stale' = (stale \/ TimerRemovals + RemoverRemovals > 0)
  /\ ctlPc' = IF ctlReq = "PLAY" THEN "restart" ELSE "idle"
  /\ UNCHANGED << now, oldestRemoved, encVars, remVars, tmrVars, txVars,
                  panic, encAlive, streaming, flac, ctlReq, requests >>

\* flac_encoder_init keeps the fifo it made at start-up; the pipeline runs.
CtlRestart ==
  /\ ctlPc = "restart"
  /\ encAlive' = TRUE /\ streaming' = TRUE /\ flac' = "fed"
  /\ ctlPc' = "idle"
  /\ UNCHANGED << vars, ctlReq, requests, stale >>

Control ==
  \/ CtlDelete \/ CtlFlush \/ CtlFinished \/ CtlClearLock \/ CtlClear \/ CtlRestart

-----------------------------------------------------------------------------
(* The tasks of WireChunkFifo, under the control.                          *)

StreamFrame == encAlive /\ streaming /\ EncFrame /\ UNCHANGED << ctlVars, stale >>

\* write_callback runs in the encoder task, or in flac_encoder_deinit.
StreamWrite ==
  /\ encAlive \/ ctlPc = "flush"
  /\ WriteCallback
  /\ UNCHANGED << ctlVars, stale >>

StreamRemover == Remover /\ UNCHANGED << ctlVars, stale >>

StreamTimer == Timer /\ UNCHANGED << ctlVars, stale >>

StreamTx(c) == Tx(c) /\ UNCHANGED << ctlVars, stale >>

StreamTick == Tick /\ UNCHANGED << ctlVars, stale >>

StreamNext ==
  /\ ~panic
  /\ \/ CtlRequest \/ Control
     \/ StreamFrame \/ StreamWrite \/ StreamRemover \/ StreamTimer
     \/ \E c \in Clients : StreamTx(c)
     \/ StreamTick

StreamSpec == StreamInit /\ [][StreamNext]_streamVars

\* As in WireChunkFifo: every task runs when it can.  Neither requests nor
\* blocks are promised.
StreamFairSpec ==
  /\ StreamSpec
  /\ WF_streamVars(~panic /\ Control)
  /\ WF_streamVars(~panic /\ StreamWrite)
  /\ WF_streamVars(~panic /\ StreamRemover)
  /\ WF_streamVars(~panic /\ StreamTimer)
  /\ \A c \in Clients : WF_streamVars(~panic /\ StreamTx(c))
  /\ WF_streamVars(~panic /\ StreamTick)

-----------------------------------------------------------------------------
(* Properties.                                                             *)

Slots == count + Len(queue) + Inserting + Giving

\* The encoder task was deleted inside a critical section.
MuxOrphaned == mux = EncoderTask /\ encPc \notin {"emptyRead", "newestRead", "insert"}

\* The types of the control's variables; the semaphore keeps its range.
StreamTypeOk ==
  /\ count \in 0 .. MaxSize
  /\ mux \in Holders \cup {Free, ControlTask}
  /\ encAlive \in BOOLEAN /\ streaming \in BOOLEAN
  /\ flac \in {"none", "new", "fed"}
  /\ ctlPc \in {"idle", "delete", "finish", "flush", "clearLock", "clear", "restart"}
  /\ ctlReq \in {"PLAY", "STOP"}
  /\ requests \in 0 .. MaxRequests
  /\ stale \in BOOLEAN

\* A removal that a clear overtakes finds an empty list and gives a slot nobody
\* took, so that the fifo can hold more chunks than its size; at most two more,
\* because only remover and timer can be overtaken.
SlotsBounded == Slots <= MaxSize + (IF stale THEN 2 ELSE 0)

\* What WireChunkFifo concludes from a full fifo stays true, requests or not, as
\* long as no clear overtakes a removal and three slots are left.
SafeUnlessStale == ~stale /\ Slots >= 3 => HeldElementLive /\ OldestExists

\* A request returns, unless the chip restarts or mux went with the encoder task.
RequestReturns == (ctlPc # "idle") ~> (ctlPc = "idle" \/ panic \/ MuxOrphaned)

\* "equivalent of size which will block if maxSize is reached": while nobody is
\* between the semaphore and the list, countSemaphore is what the list leaves.
CountIsSize == Inserting + Giving = 0 => count + Len(queue) = MaxSize
=============================================================================
