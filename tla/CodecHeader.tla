---------------------------- MODULE CodecHeader ----------------------------
(***************************************************************************)
(* The FLAC stream header, flac_codecHeader of main.c.  flac_encoder_init  *)
(* makes the FLAC encoder pass it to write_callback in pieces, which grow  *)
(* one heap block; handlers copy it for the clients that say HELLO.  No    *)
(* lock guards it.  A play request makes the header again from its first   *)
(* byte, while the one before stays published; a stop request keeps it.    *)
(*                                                                         *)
(* write_callback never runs twice at a time: the encoder task exists only *)
(* outside flac_encoder_init and flac_encoder_deinit.  Initially app_main  *)
(* is in its first flac_encoder_init, and no request has come before it.   *)
(***************************************************************************)
EXTENDS Integers, Sequences

CONSTANTS
  Handlers,      \* the client handlers that answer a HELLO, each once
  NBlocks,       \* how many addresses malloc can return
  Ends,          \* how long the header is after each piece: 4, 42, 123, 1361
  PayloadLen,    \* CODEC_HEADER_PAYLOAD_LEN
  FrameLen,      \* the bytes of a block of audio
  MaxRequests    \* bound: the requests the renderer receives

Pieces == DOMAIN Ends
Blocks == 1 .. NBlocks
NoBlock == 0

\* "is this really always this big": the pieces make the length that is compiled in.
ASSUME HeaderAssumption ==
  /\ PayloadLen \in Nat /\ FrameLen \in Nat \ {0} /\ MaxRequests \in Nat
  /\ NBlocks \in Nat
  /\ Ends \in Seq(Nat \ {0}) /\ Ends # << >>
  /\ \A k \in Pieces : k + 1 \in Pieces => Ends[k] < Ends[k + 1]
  /\ Ends[Len(Ends)] = PayloadLen
  /\ \A k \in Pieces : k # Len(Ends) => Ends[k] < PayloadLen

VARIABLES
  counter,       \* codecHeaderCounter
  payload,       \* flac_codecHeader.payload: a block, or NoBlock
  size,          \* flac_codecHeader.size
  heap,          \* the blocks that are allocated: their length and the header bytes in them
  ctlPc,         \* where renderer_request, flac_encoder_init or write_callback is
  ctlReq,        \* the request served last: "BOOT", "PLAY" or "STOP"
  requests,      \* requests received so far
  kind,          \* what write_callback is called with: "header" or "audio"
  piece,         \* which piece, if it is a header
  prev,          \* prevHeaderCounter
  newHeader,     \* the block that will replace payload
  chunks,        \* the kinds of data that were made wire chunks
  hdPc,          \* where each handler's send_codec_header is, or how it ended
  hdPayload,     \* codec_header_msg.payload
  hdSize,        \* codec_header_msg.size
  calm           \* history: no header was being made since the handler asked for it

callVars == << kind, piece, prev, newHeader >>
handlerVars == << hdPc, hdPayload, hdSize, calm >>
headerVars == << counter, payload, size, heap, ctlPc, ctlReq, requests, callVars,
                 chunks, handlerVars >>


HeaderInit ==
  /\ counter = 0 /\ payload = NoBlock /\ size = 0
  /\ heap = << >>
  /\ ctlPc = "call" /\ ctlReq = "BOOT" /\ requests = 0
  /\ kind = "header" /\ piece = 1 /\ prev = 0 /\ newHeader = NoBlock
  /\ chunks = {}
  /\ hdPc = [h \in Handlers |-> "hello"]
  /\ hdPayload = [h \in Handlers |-> NoBlock]
  /\ hdSize = [h \in Handlers |-> 0]
  /\ calm = [h \in Handlers |-> TRUE]

\* flac_encoder_init is handing out the header.
Restarting == ctlPc \notin {"idle", "deinit"} /\ kind = "header"

\* snapserver_init comes after app_main's flac_encoder_init.
Booted == ctlReq # "BOOT" \/ ctlPc = "idle"

Allocated(b) == b \in DOMAIN heap

Malloc(b, len, good) ==
  /\ b \in Blocks /\ ~Allocated(b)
  /\ heap' = [x \in DOMAIN heap \cup {b} |->
                IF x = b THEN [len |-> len, good |-> good] ELSE heap[x]]

FreeBlock(b) == heap' = [x \in DOMAIN heap \ {b} |-> heap[x]]

-----------------------------------------------------------------------------
(* renderer_request with flac_encoder_deinit and flac_encoder_init.        *)

HeaderRequest ==
  /\ ctlPc = "idle"
  /\ requests < MaxRequests
  /\ requests' = requests + 1
  /\ ctlReq' \in {"PLAY", "STOP"}
  /\ ctlPc' = "deinit"
  /\ UNCHANGED << counter, payload, size, heap, callVars, chunks, handlerVars >>

InitIfPlay ==
  IF ctlReq = "PLAY"
  THEN /\ ctlPc' = "call" /\ kind' = "header" /\ piece' = 1
       /\ calm' = [h \in Handlers |-> FALSE]
  ELSE ctlPc' = "idle" /\ UNCHANGED << kind, piece, calm >>

\* Variant: the counter is not reset.
HeaderDeinitCounts ==
  /\ ctlPc = "deinit"
  /\ InitIfPlay
  /\ UNCHANGED << counter, payload, size, heap, ctlReq, requests, prev, newHeader,
                  chunks, hdPc, hdPayload, hdSize >>

\* Variant: flac_encoder_deinit(true).
HeaderDeinitFrees ==
  /\ ctlPc = "deinit"
  /\ FreeBlock(payload)
  /\ payload' = NoBlock /\ size' = 0
  /\ counter' = 0
  /\ InitIfPlay
  /\ UNCHANGED << ctlReq, requests, prev, newHeader, chunks, hdPc, hdPayload, hdSize >>

\* flac_encoder_deinit(false); a play request goes on to flac_encoder_init.
HeaderDeinit ==
  /\ ctlPc = "deinit"
  /\ counter' = 0
  /\ InitIfPlay
  /\ UNCHANGED << payload, size, heap, ctlReq, requests, prev, newHeader, chunks,
                  hdPc, hdPayload, hdSize >>

\* A block of audio: from the encoder task, which a play request leaves behind, or
\* the last one, which FLAC__stream_encoder_finish makes in flac_encoder_deinit (main.c 870),
\* before the counter is reset.
Audio ==
  /\ ctlPc = "idle" /\ ctlReq = "PLAY"
  /\ kind' = "audio"
  /\ ctlPc' = "call"
  /\ UNCHANGED << counter, payload, size, heap, ctlReq, requests, piece, prev, newHeader,
                  chunks, handlerVars >>

-----------------------------------------------------------------------------
(* write_callback.                                                         *)

bytes ==
  IF kind = "audio" THEN FrameLen
  ELSE Ends[piece] - (IF piece = 1 THEN 0 ELSE Ends[piece - 1])

\* Variant: one call too many goes to the header.
HeaderMissingIncl == counter <= PayloadLen

HeaderMissing == counter < PayloadLen

\* After the last piece of the header flac_encoder_init returns.
Return ==
  IF kind = "header" /\ piece < Len(Ends)
  THEN ctlPc' = "call" /\ piece' = piece + 1
  ELSE ctlPc' = "idle" /\ UNCHANGED piece

WriteHeader ==
  /\ ctlPc = "call" /\ HeaderMissing
  /\ prev' = counter
  /\ counter' = counter + bytes
  /\ ctlPc' = IF payload = NoBlock THEN "first" ELSE "grow"
  /\ UNCHANGED << payload, size, heap, ctlReq, requests, kind, piece, newHeader, chunks,
                  handlerVars >>

WriteChunk ==
  /\ ctlPc = "call" /\ ~HeaderMissing
  /\ chunks' = chunks \cup {kind}
  /\ Return
  /\ UNCHANGED << counter, payload, size, heap, ctlReq, requests, kind, prev, newHeader,
                  handlerVars >>

\* The block is published before it is filled.
MallocFirst ==
  /\ ctlPc = "first"
  /\ \E b \in Blocks : Malloc(b, counter, 0) /\ payload' = b
  /\ ctlPc' = "fill"
  /\ UNCHANGED << counter, size, ctlReq, requests, callVars, chunks, handlerVars >>

\* What the old block holds is copied ...
Grow ==
  /\ ctlPc = "grow"
  /\ \E b \in Blocks :
       /\ Malloc(b, counter, IF heap[payload].good < prev THEN heap[payload].good ELSE prev)
       /\ newHeader' = b
  /\ ctlPc' = "free"
  /\ UNCHANGED << counter, payload, size, ctlReq, requests, kind, piece, prev, chunks,
                  handlerVars >>

\* Variant: the old block is not freed.
FreeOldForgets ==
  /\ ctlPc = "free"
  /\ ctlPc' = "publish"
  /\ UNCHANGED << counter, payload, size, heap, ctlReq, requests, callVars, chunks,
                  handlerVars >>

\* ... the old block is freed while it is still published ...
FreeOld ==
  /\ ctlPc = "free"
  /\ FreeBlock(payload)
  /\ ctlPc' = "publish"
  /\ UNCHANGED << counter, payload, size, ctlReq, requests, callVars, chunks,
                  handlerVars >>

Publish ==
  /\ ctlPc = "publish"
  /\ payload' = newHeader /\ newHeader' = NoBlock
  /\ ctlPc' = "fill"
  /\ UNCHANGED << counter, size, heap, ctlReq, requests, kind, piece, prev, chunks,
                  handlerVars >>

\* Variant: the piece is copied to the beginning of the block.
FillAtZero ==
  /\ ctlPc = "fill"
  /\ heap' = [heap EXCEPT ![payload].good =
                IF @ < bytes THEN bytes ELSE @]
  /\ ctlPc' = "size"
  /\ UNCHANGED << counter, payload, size, ctlReq, requests, callVars, chunks,
                  handlerVars >>

\* ... the new piece is copied behind the old ones, if they are there ...
Fill ==
  /\ ctlPc = "fill"
  /\ heap' = [heap EXCEPT ![payload].good = IF @ = prev THEN prev + bytes ELSE @]
  /\ ctlPc' = "size"
  /\ UNCHANGED << counter, payload, size, ctlReq, requests, callVars, chunks,
                  handlerVars >>

\* ... and until here size may be that of a longer header.
SetSize ==
  /\ ctlPc = "size"
  /\ size' = counter
  /\ Return
  /\ UNCHANGED << counter, payload, heap, ctlReq, requests, kind, prev, newHeader, chunks,
                  handlerVars >>

Callback ==
  \/ WriteHeader \/ WriteChunk \/ MallocFirst \/ Grow \/ FreeOld \/ Publish \/ Fill
  \/ SetSize

-----------------------------------------------------------------------------
(* send_codec_header, in the task of handler h.                            *)

Go(h, pc) == hdPc' = [hdPc EXCEPT ![h] = pc]

HandlerUnchanged ==
  UNCHANGED << counter, payload, size, heap, ctlPc, ctlReq, requests, callVars, chunks >>

\* get_codec_header; without a header nothing is sent.
GetHeader(h) ==
  /\ hdPc[h] = "hello" /\ Booted
  /\ calm' = [calm EXCEPT ![h] = ~Restarting]
  /\ Go(h, IF payload = NoBlock \/ size = 0 THEN "none" ELSE "payload")
  /\ HandlerUnchanged /\ UNCHANGED << hdPayload, hdSize >>

GetPayload(h) ==
  /\ hdPc[h] = "payload"
  /\ hdPayload' = [hdPayload EXCEPT ![h] = payload]
  /\ Go(h, "size")
  /\ HandlerUnchanged /\ UNCHANGED << hdSize, calm >>

GetSize(h) ==
  /\ hdPc[h] = "size"
  /\ hdSize' = [hdSize EXCEPT ![h] = size]
  /\ Go(h, "copy")
  /\ HandlerUnchanged /\ UNCHANGED << hdPayload, calm >>

\* memcpy: the whole header, or bytes that are not one.
Copy(h) ==
  /\ hdPc[h] = "copy"
  /\ Go(h, IF /\ Allocated(hdPayload[h])
              /\ heap[hdPayload[h]].good >= hdSize[h]
              /\ hdSize[h] = PayloadLen
           THEN "sent" ELSE "torn")
  /\ HandlerUnchanged /\ UNCHANGED << hdPayload, hdSize, calm >>

SendCodecHeader(h) == GetHeader(h) \/ GetPayload(h) \/ GetSize(h) \/ Copy(h)

-----------------------------------------------------------------------------

HeaderNext ==
  \/ HeaderRequest \/ HeaderDeinit \/ Audio \/ Callback
  \/ \E h \in Handlers : SendCodecHeader(h)

HeaderSpec == HeaderInit /\ [][HeaderNext]_headerVars

-----------------------------------------------------------------------------
(* Properties.                                                             *)

HeaderTypeOk ==
  /\ counter \in 0 .. PayloadLen
  /\ payload \in Blocks \cup {NoBlock}
  /\ size \in 0 .. PayloadLen
  /\ DOMAIN heap \subseteq Blocks
  /\ \A b \in DOMAIN heap : heap[b] \in [len : 1 .. PayloadLen, good : 0 .. PayloadLen]
  /\ ctlPc \in {"idle", "deinit", "call", "first", "grow", "free", "publish", "fill", "size"}
  /\ ctlReq \in {"BOOT", "PLAY", "STOP"}
  /\ requests \in 0 .. MaxRequests
  /\ kind \in {"header", "audio"}
  /\ piece \in Pieces
  /\ prev \in 0 .. PayloadLen
  /\ newHeader \in Blocks \cup {NoBlock}
  /\ chunks \subseteq {"header", "audio"}
  /\ hdPc \in [Handlers -> {"hello", "payload", "size", "copy", "none", "sent", "torn"}]
  /\ hdPayload \in [Handlers -> Blocks \cup {NoBlock}]
  /\ hdSize \in [Handlers -> 0 .. PayloadLen]
  /\ calm \in [Handlers -> BOOLEAN]

\* Neither a block is lost nor one that is gone is used by write_callback: what is
\* allocated is the published header, and while it grows its successor.
HeaderHeap ==
  DOMAIN heap = IF ctlPc = "free" THEN {payload, newHeader}
                ELSE IF ctlPc = "publish" THEN {newHeader}
                ELSE {payload} \ {NoBlock}

\* Audio never becomes part of the header, the header never becomes a chunk: the
\* length that is compiled in separates the two whatever the requests.
HeaderIsNoAudio ==
  /\ "header" \notin chunks
  /\ kind = "audio" => ctlPc \in {"idle", "deinit", "call"}

\* Whenever flac_encoder_init is not at work the whole header is published.
HeaderWhole ==
  ~Restarting => /\ Allocated(payload) /\ size = PayloadLen
                 /\ heap[payload] = [len |-> PayloadLen, good |-> PayloadLen]

\* Nothing but a play request while a handler answers a HELLO spoils its header.
OnlyPlayTears == \A h \in Handlers : hdPc[h] \in {"none", "torn"} => ~calm[h]
=============================================================================
