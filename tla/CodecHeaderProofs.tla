------------------------- MODULE CodecHeaderProofs -------------------------
(***************************************************************************)
(* Proofs about CodecHeader, for every way the encoder cuts the header and *)
(* any number of handlers and requests.                                    *)
(*                                                                         *)
(* HeaderInv strengthens the invariants that are checked by what holds at  *)
(* each place of write_callback (CallPlaces) and by what a handler knows   *)
(* as long as no play request has disturbed it (HandlerPlaces).            *)
(***************************************************************************)
EXTENDS CodecHeader, TLAPS

\* The header bytes that came before this piece.
Before == IF piece = 1 THEN 0 ELSE Ends[piece - 1]

InHeader == {"first", "grow", "free", "publish", "fill", "size"}

Is(b, len, good) == Allocated(b) /\ heap[b].len = len /\ heap[b].good = good

CallPlaces ==
  /\ ctlPc = "idle" /\ ctlReq = "PLAY" => counter = PayloadLen
  /\ ctlPc = "call" /\ kind = "audio" => counter = PayloadLen
  /\ ctlPc = "call" /\ kind = "header" =>
       /\ counter = Before
       /\ payload = NoBlock => piece = 1
       /\ payload # NoBlock => heap[payload].good >= counter
  /\ ctlPc \in InHeader => kind = "header" /\ prev = Before /\ counter = Ends[piece]
  /\ ctlPc = "first" => payload = NoBlock /\ prev = 0
  /\ ctlPc = "grow" => payload # NoBlock /\ heap[payload].good >= prev
  /\ ctlPc = "free" => payload # NoBlock /\ payload # newHeader
  /\ ctlPc \in {"free", "publish"} => newHeader # NoBlock /\ Is(newHeader, counter, prev)
  /\ ctlPc = "fill" => payload # NoBlock /\ Is(payload, counter, prev)
  /\ ctlPc = "size" => payload # NoBlock /\ Is(payload, counter, counter)

Whole == ~Restarting => size = PayloadLen /\ Is(payload, PayloadLen, PayloadLen)

HandlerPlaces ==
  \A h \in Handlers : calm[h] =>
    /\ hdPc[h] \notin {"none", "torn"}
    /\ hdPc[h] \in {"payload", "size", "copy"} => ~Restarting
    /\ hdPc[h] \in {"size", "copy"} => hdPayload[h] = payload
    /\ hdPc[h] = "copy" => hdSize[h] = PayloadLen

HeaderInv ==
  /\ HeaderTypeOk /\ HeaderHeap /\ CallPlaces /\ Whole /\ HandlerPlaces
  /\ "header" \notin chunks

-----------------------------------------------------------------------------

\* The lengths of HeaderAssumption, as the steps of the proof use them.
LEMMA EndsFacts ==
  /\ Len(Ends) \in Nat \ {0}
  /\ Pieces = 1 .. Len(Ends)
  /\ \A k \in Pieces : Ends[k] \in 1 .. PayloadLen
  /\ \A k \in Pieces : k < Len(Ends) => k + 1 \in Pieces /\ Ends[k] < Ends[k + 1]
  /\ Ends[Len(Ends)] = PayloadLen
  /\ PayloadLen \in Nat \ {0}
<1>1. Len(Ends) \in Nat \ {0} /\ Pieces = 1 .. Len(Ends) /\ \A k \in Pieces : Ends[k] \in Nat \ {0}
  BY HeaderAssumption DEF HeaderAssumption, Pieces
<1>2. Ends[Len(Ends)] = PayloadLen /\ PayloadLen \in Nat \ {0}
  BY <1>1, HeaderAssumption DEF HeaderAssumption
<1>3. \A k \in Pieces : Ends[k] \in 1 .. PayloadLen
  BY <1>1, <1>2, HeaderAssumption DEF HeaderAssumption
<1>4. \A k \in Pieces : k < Len(Ends) => k + 1 \in Pieces /\ Ends[k] < Ends[k + 1]
  BY <1>1, HeaderAssumption DEF HeaderAssumption
<1>5. QED BY <1>1, <1>2, <1>3, <1>4

\* A piece of the header takes it from Before to Ends[piece].
LEMMA PieceFacts ==
  ASSUME HeaderTypeOk
  PROVE  /\ Before \in 0 .. PayloadLen /\ Before < Ends[piece]
         /\ Ends[piece] \in 1 .. PayloadLen
         /\ kind = "header" => bytes = Ends[piece] - Before
<1>1. piece \in Pieces /\ piece \in 1 .. Len(Ends) /\ kind \in {"header", "audio"}
  BY EndsFacts DEF HeaderTypeOk
<1>2. Ends[piece] \in 1 .. PayloadLen BY <1>1, EndsFacts
<1>3. CASE piece = 1
  BY <1>1, <1>2, <1>3, EndsFacts DEF Before, bytes
<1>4. CASE piece # 1
  <2>1. piece - 1 \in Pieces /\ piece - 1 < Len(Ends) /\ (piece - 1) + 1 = piece
    BY <1>1, <1>4, EndsFacts
  <2>2. Ends[piece - 1] \in 1 .. PayloadLen /\ Ends[piece - 1] < Ends[piece]
    BY <2>1, EndsFacts
  <2>3. QED BY <1>1, <1>2, <1>4, <2>2, EndsFacts DEF Before, bytes
<1>5. QED BY <1>3, <1>4

\* Types, all but the heap's, are kept by a step of write_callback or renderer_request
\* that leaves the handlers alone; HandlerPlaces is kept if no header gets in hand and
\* what handlers read does not change outside a restart.
LEMMA HandlersKept ==
  ASSUME HandlerPlaces, UNCHANGED handlerVars,
         Restarting' => Restarting,
         payload' = payload \/ Restarting
  PROVE  HandlerPlaces'
<1>1. SUFFICES ASSUME NEW h \in Handlers, calm'[h]
               PROVE  /\ hdPc'[h] \notin {"none", "torn"}
                      /\ hdPc'[h] \in {"payload", "size", "copy"} => ~Restarting'
                      /\ hdPc'[h] \in {"size", "copy"} => hdPayload'[h] = payload'
                      /\ hdPc'[h] = "copy" => hdSize'[h] = PayloadLen
  BY DEF HandlerPlaces
<1>2. /\ calm[h] /\ hdPc'[h] = hdPc[h] /\ hdPayload'[h] = hdPayload[h] /\ hdSize'[h] = hdSize[h]
  BY <1>1 DEF handlerVars
<1>3. QED BY <1>2 DEF HandlerPlaces

-----------------------------------------------------------------------------

\* At start-up nothing is published and no handler runs.
LEMMA HeaderInvInit == HeaderInit => HeaderInv
<1> SUFFICES ASSUME HeaderInit PROVE HeaderInv OBVIOUS
<1> USE DEF HeaderInit, NoBlock
<1>1. HeaderTypeOk
  <2>1. 1 \in Pieces BY EndsFacts
  <2>2. DOMAIN heap = {} OBVIOUS
  <2>3. QED BY <2>1, <2>2, EndsFacts, HeaderAssumption DEF HeaderTypeOk, HeaderAssumption, Blocks
<1>2. HeaderHeap BY DEF HeaderHeap
<1>3. CallPlaces BY DEF CallPlaces, Before, InHeader
<1>4. Whole BY DEF Whole, Restarting
<1>5. HandlerPlaces BY DEF HandlerPlaces
<1>6. QED BY <1>1, <1>2, <1>3, <1>4, <1>5 DEF HeaderInv
-----------------------------------------------------------------------------

\* A request changes nothing the invariant reads but ctlPc.
LEMMA HeaderRequestKeeps == HeaderInv /\ HeaderRequest => HeaderInv'
<1> SUFFICES ASSUME HeaderInv, HeaderRequest PROVE HeaderInv' OBVIOUS
<1> USE DEF HeaderInv, HeaderRequest, callVars, handlerVars
<1>1. HeaderTypeOk'
  BY HeaderAssumption DEF HeaderTypeOk, HeaderAssumption
<1>2. HeaderHeap'
  BY DEF HeaderHeap
<1>3. CallPlaces'
  BY DEF CallPlaces, InHeader, Is, Allocated
<1>4. Whole'
  BY DEF Whole, Restarting, Is, Allocated
<1>5. HandlerPlaces'
  BY HandlersKept DEF Restarting
<1>6. ("header" \notin chunks)'
  OBVIOUS
<1>7. QED BY <1>1, <1>2, <1>3, <1>4, <1>5, <1>6

\* flac_encoder_deinit starts the count again and leaves the header published.
LEMMA HeaderDeinitKeeps == HeaderInv /\ HeaderDeinit => HeaderInv'
<1> SUFFICES ASSUME HeaderInv, HeaderDeinit PROVE HeaderInv' OBVIOUS
<1> USE DEF HeaderInv, HeaderDeinit, callVars, handlerVars
<1>1. HeaderTypeOk'
  <2>1. piece' \in Pieces /\ kind' \in {"header", "audio"} /\ ctlPc' \in {"call", "idle"}
    BY EndsFacts DEF HeaderTypeOk, InitIfPlay
  <2>2. calm' \in [Handlers -> BOOLEAN]
    BY DEF HeaderTypeOk, InitIfPlay
  <2>3. counter' \in 0 .. PayloadLen
    BY EndsFacts
  <2>4. QED BY <2>1, <2>2, <2>3 DEF HeaderTypeOk
<1>2. HeaderHeap'
  BY DEF HeaderHeap, InitIfPlay
<1>3. CallPlaces'
  <2>1. counter' = 0 /\ payload' = payload /\ heap' = heap /\ ctlReq' = ctlReq OBVIOUS
  <2>2. CASE ctlReq = "PLAY"
    <3>1. ctlPc' = "call" /\ kind' = "header" /\ piece' = 1 BY <2>2 DEF InitIfPlay
    <3>2. payload # NoBlock => heap[payload].good \in Nat
      BY DEF HeaderTypeOk, HeaderHeap
    <3>3. QED BY <2>1, <3>1, <3>2 DEF CallPlaces, InHeader, Before
  <2>3. CASE ctlReq # "PLAY"
    <3>1. ctlPc' = "idle" BY <2>3 DEF InitIfPlay
    <3>2. QED BY <2>1, <2>3, <3>1 DEF CallPlaces, InHeader
  <2>4. QED BY <2>2, <2>3
<1>4. Whole'
  BY DEF Whole, Restarting, InitIfPlay, Is, Allocated
<1>5. HandlerPlaces'
  <2>1. CASE ctlReq = "PLAY"
    <3>1. calm' = [h \in Handlers |-> FALSE] BY <2>1 DEF InitIfPlay
    <3>2. QED BY <3>1 DEF HandlerPlaces
  <2>2. CASE ctlReq # "PLAY"
    <3>1. calm' = calm /\ kind' = kind /\ ctlPc' = "idle" BY <2>2 DEF InitIfPlay
    <3>2. QED BY <3>1, HandlersKept DEF Restarting
  <2>3. QED BY <2>1, <2>2
<1>6. ("header" \notin chunks)'
  OBVIOUS
<1>7. QED BY <1>1, <1>2, <1>3, <1>4, <1>5, <1>6

\* Audio comes when the count is full.
LEMMA AudioKeeps == HeaderInv /\ Audio => HeaderInv'
<1> SUFFICES ASSUME HeaderInv, Audio PROVE HeaderInv' OBVIOUS
<1> USE DEF HeaderInv, Audio, callVars, handlerVars
<1>1. HeaderTypeOk'
  BY EndsFacts, PieceFacts DEF HeaderTypeOk
<1>2. HeaderHeap'
  BY DEF HeaderHeap
<1>3. CallPlaces'
  BY DEF CallPlaces, InHeader
<1>4. Whole'
  BY DEF Whole, Restarting, Is, Allocated
<1>5. HandlerPlaces'
  BY HandlersKept DEF Restarting
<1>6. ("header" \notin chunks)'
  OBVIOUS
<1>7. QED BY <1>1, <1>2, <1>3, <1>4, <1>5, <1>6

\* Only a piece of the header finds the count short.
LEMMA WriteHeaderKeeps == HeaderInv /\ WriteHeader => HeaderInv'
<1> SUFFICES ASSUME HeaderInv, WriteHeader PROVE HeaderInv' OBVIOUS
<1> USE DEF HeaderInv, WriteHeader, callVars, handlerVars
<1>0. /\ ctlPc = "call" /\ kind = "header" /\ kind' = "header"
      /\ prev' = Before /\ counter' = Ends[piece]
      /\ ctlPc' = IF payload = NoBlock THEN "first" ELSE "grow"
  <2>1. kind = "header" /\ counter = Before
    BY EndsFacts DEF HeaderTypeOk, CallPlaces, HeaderMissing
  <2>2. QED BY <2>1, PieceFacts, EndsFacts DEF HeaderTypeOk
<1>1. HeaderTypeOk'
  BY <1>0, EndsFacts, PieceFacts DEF HeaderTypeOk
<1>2. HeaderHeap'
  BY <1>0 DEF HeaderHeap
<1>3. CallPlaces'
  BY <1>0, PieceFacts DEF CallPlaces, InHeader, Before, HeaderTypeOk
<1>4. Whole'
  BY <1>0 DEF Whole, Restarting
<1>5. HandlerPlaces'
  BY HandlersKept DEF Restarting
<1>6. ("header" \notin chunks)'
  OBVIOUS
<1>7. QED BY <1>1, <1>2, <1>3, <1>4, <1>5, <1>6

\* Only audio finds the count full.
LEMMA WriteChunkKeeps == HeaderInv /\ WriteChunk => HeaderInv'
<1> SUFFICES ASSUME HeaderInv, WriteChunk PROVE HeaderInv' OBVIOUS
<1> USE DEF HeaderInv, WriteChunk, callVars, handlerVars
<1>0. kind = "audio" /\ ctlPc' = "idle" /\ piece' = piece /\ counter = PayloadLen
  <2>1. kind = "audio"
    BY EndsFacts, PieceFacts DEF HeaderTypeOk, CallPlaces, HeaderMissing
  <2>2. QED BY <2>1 DEF Return, CallPlaces
<1>1. HeaderTypeOk'
  BY <1>0 DEF HeaderTypeOk
<1>2. HeaderHeap'
  BY <1>0 DEF HeaderHeap
<1>3. CallPlaces'
  BY <1>0 DEF CallPlaces, InHeader, HeaderTypeOk
<1>4. Whole'
  BY <1>0 DEF Whole, Restarting, Is, Allocated
<1>5. HandlerPlaces'
  BY <1>0, HandlersKept DEF Restarting
<1>6. ("header" \notin chunks)'
  BY <1>0
<1>7. QED BY <1>1, <1>2, <1>3, <1>4, <1>5, <1>6

\* The first block is the only one.
LEMMA MallocFirstKeeps == HeaderInv /\ MallocFirst => HeaderInv'
<1> SUFFICES ASSUME HeaderInv, MallocFirst PROVE HeaderInv' OBVIOUS
<1> USE DEF HeaderInv, MallocFirst, callVars, handlerVars
<1>0. /\ kind = "header" /\ ctlPc' = "fill" /\ payload' \in Blocks /\ DOMAIN heap' = {payload'}
      /\ heap'[payload'] = [len |-> counter, good |-> 0]
  <2>1. PICK b \in Blocks : Malloc(b, counter, 0) /\ payload' = b OBVIOUS
  <2>2. DOMAIN heap = {} BY DEF HeaderHeap, CallPlaces
  <2>3. QED BY <2>1, <2>2 DEF Malloc, CallPlaces, InHeader
<1>1. HeaderTypeOk'
  <2>1. DOMAIN heap' = {payload'} /\ heap'[payload'] = [len |-> counter, good |-> 0] BY <1>0
  <2>2. counter \in 1 .. PayloadLen /\ 0 \in 0 .. PayloadLen
    BY PieceFacts, EndsFacts DEF CallPlaces, InHeader
  <2>3. QED BY <1>0, <2>1, <2>2 DEF HeaderTypeOk
<1>2. HeaderHeap'
  BY <1>0 DEF HeaderHeap, NoBlock, Blocks
<1>3. CallPlaces'
  BY <1>0 DEF CallPlaces, InHeader, Before, Is, Allocated, NoBlock, Blocks
<1>4. Whole'
  BY <1>0 DEF Whole, Restarting
<1>5. HandlerPlaces'
  BY <1>0, HandlersKept DEF Restarting
<1>6. ("header" \notin chunks)'
  OBVIOUS
<1>7. QED BY <1>1, <1>2, <1>3, <1>4, <1>5, <1>6

\* The copy takes over all the bytes that came before.
LEMMA GrowKeeps == HeaderInv /\ Grow => HeaderInv'
<1> SUFFICES ASSUME HeaderInv, Grow PROVE HeaderInv' OBVIOUS
<1> USE DEF HeaderInv, Grow, callVars, handlerVars
<1>0. /\ kind = "header" /\ ctlPc' = "free" /\ payload \in DOMAIN heap /\ payload # NoBlock
      /\ newHeader' \in Blocks /\ newHeader' # payload
      /\ DOMAIN heap' = {payload, newHeader'} /\ heap'[payload] = heap[payload]
      /\ heap'[newHeader'] = [len |-> counter, good |-> prev]
  <2>1. DOMAIN heap = {payload} /\ payload # NoBlock /\ kind = "header"
    BY DEF HeaderHeap, CallPlaces, InHeader
  <2>2. (IF heap[payload].good < prev THEN heap[payload].good ELSE prev) = prev
    <3>1. heap[payload].good \in Nat /\ prev \in Nat BY <2>1 DEF HeaderTypeOk
    <3>2. heap[payload].good >= prev BY DEF CallPlaces
    <3>3. QED BY <3>1, <3>2
  <2>3. PICK b \in Blocks : Malloc(b, counter, prev) /\ newHeader' = b BY <2>2
  <2>4. QED BY <2>1, <2>3 DEF Malloc, Allocated
<1>1. HeaderTypeOk'
  <2>1. \A b \in DOMAIN heap' : heap'[b] \in [len : 1 .. PayloadLen, good : 0 .. PayloadLen]
    <3>1. heap[payload] \in [len : 1 .. PayloadLen, good : 0 .. PayloadLen]
      BY <1>0 DEF HeaderTypeOk
    <3>2. counter \in 1 .. PayloadLen /\ prev \in 0 .. PayloadLen
      BY PieceFacts DEF HeaderTypeOk, CallPlaces, InHeader
    <3>3. QED BY <1>0, <3>1, <3>2
  <2>2. QED BY <1>0, <2>1 DEF HeaderTypeOk
<1>2. HeaderHeap'
  BY <1>0 DEF HeaderHeap
<1>3. CallPlaces'
  BY <1>0 DEF CallPlaces, InHeader, Before, Is, Allocated, NoBlock, Blocks
<1>4. Whole'
  BY <1>0 DEF Whole, Restarting
<1>5. HandlerPlaces'
  BY <1>0, HandlersKept DEF Restarting
<1>6. ("header" \notin chunks)'
  OBVIOUS
<1>7. QED BY <1>1, <1>2, <1>3, <1>4, <1>5, <1>6

\* The old block goes, the copy stays.
LEMMA FreeOldKeeps == HeaderInv /\ FreeOld => HeaderInv'
<1> SUFFICES ASSUME HeaderInv, FreeOld PROVE HeaderInv' OBVIOUS
<1> USE DEF HeaderInv, FreeOld, callVars, handlerVars
<1>0. /\ kind = "header" /\ ctlPc' = "publish"
      /\ DOMAIN heap = {payload, newHeader} /\ payload # newHeader
      /\ DOMAIN heap' = {newHeader} /\ heap'[newHeader] = heap[newHeader]
  BY DEF HeaderHeap, CallPlaces, InHeader, FreeBlock
<1>1. HeaderTypeOk'
  BY <1>0 DEF HeaderTypeOk
<1>2. HeaderHeap'
  BY <1>0 DEF HeaderHeap
<1>3. CallPlaces'
  BY <1>0 DEF CallPlaces, InHeader, Before, Is, Allocated
<1>4. Whole'
  BY <1>0 DEF Whole, Restarting
<1>5. HandlerPlaces'
  BY HandlersKept DEF Restarting
<1>6. ("header" \notin chunks)'
  OBVIOUS
<1>7. QED BY <1>1, <1>2, <1>3, <1>4, <1>5, <1>6

\* The copy becomes the published block.
LEMMA PublishKeeps == HeaderInv /\ Publish => HeaderInv'
<1> SUFFICES ASSUME HeaderInv, Publish PROVE HeaderInv' OBVIOUS
<1> USE DEF HeaderInv, Publish, callVars, handlerVars
<1>0. /\ kind = "header" /\ ctlPc' = "fill" /\ newHeader # NoBlock /\ payload' = newHeader
      /\ DOMAIN heap = {newHeader}
  BY DEF HeaderHeap, CallPlaces, InHeader
<1>1. HeaderTypeOk'
  BY <1>0 DEF HeaderTypeOk
<1>2. HeaderHeap'
  BY <1>0 DEF HeaderHeap
<1>3. CallPlaces'
  BY <1>0 DEF CallPlaces, InHeader, Before, Is, Allocated
<1>4. Whole'
  BY <1>0 DEF Whole, Restarting
<1>5. HandlerPlaces'
  BY <1>0, HandlersKept DEF Restarting
<1>6. ("header" \notin chunks)'
  OBVIOUS
<1>7. QED BY <1>1, <1>2, <1>3, <1>4, <1>5, <1>6

\* The piece completes the block.
LEMMA FillKeeps == HeaderInv /\ Fill => HeaderInv'
<1> SUFFICES ASSUME HeaderInv, Fill PROVE HeaderInv' OBVIOUS
<1> USE DEF HeaderInv, Fill, callVars, handlerVars
<1>0. /\ kind = "header" /\ ctlPc' = "size" /\ payload # NoBlock
      /\ DOMAIN heap = {payload} /\ DOMAIN heap' = {payload}
      /\ counter \in 1 .. PayloadLen
      /\ heap'[payload] = [len |-> counter, good |-> counter]
  <2>1. kind = "header" /\ payload # NoBlock /\ DOMAIN heap = {payload} /\ prev = Before
        /\ counter = Ends[piece] /\ heap[payload].len = counter /\ heap[payload].good = prev
    BY DEF HeaderHeap, CallPlaces, InHeader, Is
  <2>2. prev + bytes = counter /\ counter \in 1 .. PayloadLen
    BY <2>1, PieceFacts
  <2>3. heap[payload] \in [len : 1 .. PayloadLen, good : 0 .. PayloadLen]
    BY <2>1 DEF HeaderTypeOk
  <2>4. heap'[payload] = [heap[payload] EXCEPT !.good = counter]
    BY <2>1, <2>2
  <2>5. QED BY <2>1, <2>2, <2>3, <2>4
<1>1. HeaderTypeOk'
  <2>1. heap'[payload] \in [len : 1 .. PayloadLen, good : 0 .. PayloadLen]
    BY <1>0 DEF HeaderTypeOk
  <2>2. QED BY <1>0, <2>1 DEF HeaderTypeOk
<1>2. HeaderHeap'
  BY <1>0 DEF HeaderHeap
<1>3. CallPlaces'
  BY <1>0 DEF CallPlaces, InHeader, Before, Is, Allocated
<1>4. Whole'
  BY <1>0 DEF Whole, Restarting
<1>5. HandlerPlaces'
  BY HandlersKept DEF Restarting
<1>6. ("header" \notin chunks)'
  OBVIOUS
<1>7. QED BY <1>1, <1>2, <1>3, <1>4, <1>5, <1>6

\* After the last piece the header is whole.
LEMMA SetSizeKeeps == HeaderInv /\ SetSize => HeaderInv'
<1> SUFFICES ASSUME HeaderInv, SetSize PROVE HeaderInv' OBVIOUS
<1> USE DEF HeaderInv, SetSize, callVars, handlerVars
<1>0. /\ kind = "header" /\ ctlPc = "size" /\ payload # NoBlock /\ DOMAIN heap = {payload}
      /\ counter = Ends[piece] /\ counter \in 1 .. PayloadLen
      /\ heap[payload].len = counter /\ heap[payload].good = counter
      /\ piece \in 1 .. Len(Ends) /\ Len(Ends) \in Nat
  BY EndsFacts, PieceFacts DEF HeaderTypeOk, HeaderHeap, CallPlaces, InHeader, Is
<1>1. HeaderTypeOk'
  BY <1>0, EndsFacts DEF HeaderTypeOk, Return
<1>2. HeaderHeap'
  BY <1>0 DEF HeaderHeap, Return
<1>3. CallPlaces'
  <2>1. CASE piece < Len(Ends)
    <3>1. ctlPc' = "call" /\ piece' = piece + 1 BY <1>0, <2>1 DEF Return
    <3>2. (piece + 1) - 1 = piece /\ piece + 1 # 1 BY <1>0
    <3>3. Before' = Ends[piece] BY <3>1, <3>2 DEF Before
    <3>4. QED BY <1>0, <3>1, <3>3 DEF CallPlaces, InHeader
  <2>2. CASE ~(piece < Len(Ends))
    <3>1. ctlPc' = "idle" BY <2>2 DEF Return
    <3>2. piece = Len(Ends) BY <1>0, <2>2, EndsFacts
    <3>3. counter = PayloadLen BY <1>0, <3>2, EndsFacts
    <3>4. QED BY <3>1, <3>3 DEF CallPlaces, InHeader
  <2>3. QED BY <2>1, <2>2
<1>4. Whole'
  <2>1. CASE piece < Len(Ends)
    BY <1>0, <2>1 DEF Whole, Restarting, Return
  <2>2. CASE ~(piece < Len(Ends))
    <3>1. piece = Len(Ends) BY <1>0, <2>2, EndsFacts
    <3>2. counter = PayloadLen BY <1>0, <3>1, EndsFacts
    <3>3. QED BY <1>0, <3>2 DEF Whole, Is, Allocated
  <2>3. QED BY <2>1, <2>2
<1>5. HandlerPlaces'
  BY <1>0, HandlersKept DEF Restarting
<1>6. ("header" \notin chunks)'
  OBVIOUS
<1>7. QED BY <1>1, <1>2, <1>3, <1>4, <1>5, <1>6

\* A handler's step leaves the header alone.
LEMMA HandlerKeeps ==
  ASSUME HeaderInv, NEW h \in Handlers, SendCodecHeader(h)
  PROVE  HeaderInv'
<1> USE DEF HeaderInv
<1>1. UNCHANGED << counter, payload, size, heap, ctlPc, ctlReq, requests, kind, piece, prev,
                   newHeader, chunks >>
  BY DEF SendCodecHeader, GetHeader, GetPayload, GetSize, Copy, HandlerUnchanged, callVars
<1>2. HeaderHeap' /\ CallPlaces' /\ Whole' /\ ("header" \notin chunks)' /\ Restarting' = Restarting
  BY <1>1 DEF HeaderHeap, CallPlaces, Whole, Before, Is, Allocated, Restarting
<1>3. HeaderTypeOk'
  <2>1. hdPc' \in [Handlers -> {"hello", "payload", "size", "copy", "none", "sent", "torn"}]
    BY DEF HeaderTypeOk, SendCodecHeader, GetHeader, GetPayload, GetSize, Copy, Go
  <2>2. hdPayload' \in [Handlers -> Blocks \cup {NoBlock}]
    BY DEF HeaderTypeOk, SendCodecHeader, GetHeader, GetPayload, GetSize, Copy
  <2>3. hdSize' \in [Handlers -> 0 .. PayloadLen]
    BY DEF HeaderTypeOk, SendCodecHeader, GetHeader, GetPayload, GetSize, Copy
  <2>4. calm' \in [Handlers -> BOOLEAN]
    <3>1. PICK b \in BOOLEAN : b = ~Restarting OBVIOUS
    <3>2. calm' = calm \/ calm' = [calm EXCEPT ![h] = b]
      BY <3>1 DEF SendCodecHeader, GetHeader, GetPayload, GetSize, Copy
    <3>3. calm \in [Handlers -> BOOLEAN] BY DEF HeaderTypeOk
    <3>4. QED BY <3>1, <3>2, <3>3
  <2>5. QED BY <1>1, <2>1, <2>2, <2>3, <2>4 DEF HeaderTypeOk
<1>4. ~Restarting => /\ payload # NoBlock /\ Allocated(payload) /\ size = PayloadLen /\ size # 0
                     /\ heap[payload].good >= PayloadLen
  BY EndsFacts DEF Whole, Is, Allocated, HeaderTypeOk, NoBlock, Blocks
<1>5. HandlerPlaces'
  <2>1. SUFFICES ASSUME NEW g \in Handlers, calm'[g]
                 PROVE  /\ hdPc'[g] \notin {"none", "torn"}
                        /\ hdPc'[g] \in {"payload", "size", "copy"} => ~Restarting
                        /\ hdPc'[g] \in {"size", "copy"} => hdPayload'[g] = payload
                        /\ hdPc'[g] = "copy" => hdSize'[g] = PayloadLen
    BY <1>1, <1>2 DEF HandlerPlaces
  <2>2. CASE g # h
    BY <2>1, <2>2 DEF HandlerPlaces, HeaderTypeOk, SendCodecHeader, GetHeader, GetPayload,
                      GetSize, Copy, Go
  <2>3. CASE g = h
    <3>1. CASE GetHeader(h)
      <4>1. ~Restarting BY <2>1, <2>3, <3>1 DEF GetHeader, HeaderTypeOk
      <4>2. hdPc'[h] = "payload" BY <1>4, <3>1, <4>1 DEF GetHeader, Go, HeaderTypeOk
      <4>3. QED BY <2>3, <4>1, <4>2
    <3>2. CASE GetPayload(h)
      BY <2>1, <2>3, <3>2 DEF GetPayload, Go, HandlerPlaces, HeaderTypeOk
    <3>3. CASE GetSize(h)
      BY <1>4, <2>1, <2>3, <3>3 DEF GetSize, Go, HandlerPlaces, HeaderTypeOk
    <3>4. CASE Copy(h)
      <4>1. calm[h] /\ hdPc[h] = "copy" BY <2>1, <2>3, <3>4 DEF Copy
      <4>2. ~Restarting /\ hdPayload[h] = payload /\ hdSize[h] = PayloadLen
        BY <4>1 DEF HandlerPlaces
      <4>3. hdPc'[h] = "sent" BY <1>4, <3>4, <4>2 DEF Copy, Go, HeaderTypeOk
      <4>4. QED BY <2>3, <4>3
    <3>5. QED BY <3>1, <3>2, <3>3, <3>4 DEF SendCodecHeader
  <2>4. QED BY <2>2, <2>3
<1>6. QED BY <1>2, <1>3, <1>5

\* HeaderInv reads only the specification's variables.
LEMMA HeaderStutter == HeaderInv /\ UNCHANGED headerVars => HeaderInv'
  BY DEF HeaderInv, headerVars, callVars, handlerVars, HeaderTypeOk, HeaderHeap, CallPlaces,
         Whole, HandlerPlaces, Before, Is, Allocated, Restarting

\* The inductive invariant: at each place of write_callback what the blocks hold, and
\* for each handler that no play request disturbed what it has read.
THEOREM HeaderInvariant == HeaderSpec => []HeaderInv
<1>1. HeaderInv /\ [HeaderNext]_headerVars => HeaderInv'
  <2> SUFFICES ASSUME HeaderInv, [HeaderNext]_headerVars PROVE HeaderInv' OBVIOUS
  <2>1. CASE HeaderRequest BY <2>1, HeaderRequestKeeps
  <2>2. CASE HeaderDeinit BY <2>2, HeaderDeinitKeeps
  <2>3. CASE Audio BY <2>3, AudioKeeps
  <2>4. CASE Callback
    BY <2>4, WriteHeaderKeeps, WriteChunkKeeps, MallocFirstKeeps, GrowKeeps, FreeOldKeeps,
       PublishKeeps, FillKeeps, SetSizeKeeps DEF Callback
  <2>5. ASSUME NEW h \in Handlers, SendCodecHeader(h) PROVE HeaderInv'
    BY <2>5, HandlerKeeps
  <2>6. CASE UNCHANGED headerVars BY <2>6, HeaderStutter
  <2>7. QED BY <2>1, <2>2, <2>3, <2>4, <2>5, <2>6 DEF HeaderNext
<1>2. QED BY <1>1, HeaderInvInit, PTL DEF HeaderSpec

\* The types of the header's state: the counter never passes the length compiled in.
THEOREM HeaderTypes == HeaderSpec => []HeaderTypeOk
<1>1. HeaderInv => HeaderTypeOk BY DEF HeaderInv
<1>2. QED BY <1>1, HeaderInvariant, PTL

\* write_callback leaks no block, and uses and frees none that is gone.
THEOREM HeaderHeapKept == HeaderSpec => []HeaderHeap
<1>1. HeaderInv => HeaderHeap BY DEF HeaderInv
<1>2. QED BY <1>1, HeaderInvariant, PTL

\* Audio stays out of the header and the header out of the fifo.
THEOREM HeaderAndAudioApart == HeaderSpec => []HeaderIsNoAudio
<1>1. HeaderInv => HeaderIsNoAudio
  BY DEF HeaderInv, HeaderIsNoAudio, CallPlaces, InHeader, HeaderTypeOk
<1>2. QED BY <1>1, HeaderInvariant, PTL

\* Between two runs of flac_encoder_init the whole header is published.
THEOREM HeaderIsWhole == HeaderSpec => []HeaderWhole
<1>1. HeaderInv => HeaderWhole
  <2> SUFFICES ASSUME HeaderInv, ~Restarting
               PROVE  /\ Allocated(payload) /\ size = PayloadLen
                      /\ heap[payload] = [len |-> PayloadLen, good |-> PayloadLen]
    BY DEF HeaderWhole
  <2>1. Allocated(payload) /\ size = PayloadLen /\ heap[payload].len = PayloadLen
        /\ heap[payload].good = PayloadLen
    BY DEF HeaderInv, Whole, Is
  <2>2. heap[payload] \in [len : 1 .. PayloadLen, good : 0 .. PayloadLen]
    BY <2>1 DEF HeaderInv, HeaderTypeOk, Allocated
  <2>3. QED BY <2>1, <2>2
<1>2. QED BY <1>1, HeaderInvariant, PTL

\* A client's codec header is spoilt by a play request that overlaps its HELLO, and by
\* nothing else.
THEOREM HelloDisturbedOnlyByPlay == HeaderSpec => []OnlyPlayTears
<1>1. HeaderInv => OnlyPlayTears BY DEF HeaderInv, HandlerPlaces, OnlyPlayTears
<1>2. QED BY <1>1, HeaderInvariant, PTL
=============================================================================
