--------------------------- MODULE ClientSessions ---------------------------
(***************************************************************************)
(* Snapclients that come, play and go (snapserver.c), and the table of     *)
(* subscribers through which the encoder announces chunks to them          *)
(* (wire_chunk_fifo.c).  A connection is served by two tasks:              *)
(*                                                                         *)
(*   handler   handle_client_task: receives messages; a HELLO makes a      *)
(*             client record and starts a tx task for it, a TIME goes to   *)
(*             the record's msgQ; when receiving fails it closes the       *)
(*             socket, waits for the tx task's end and frees the record;   *)
(*   tx        send_new_wire_chunk_task: registers the record, answers its *)
(*             msgQ through the socket until sending fails, unregisters    *)
(*             the record, shuts the socket down and deletes itself.       *)
(*                                                                         *)
(* The table and the records are shared without a lock.  Socket numbers    *)
(* are reused: accept takes the lowest that is free.  Which chunk is sent  *)
(* is WireChunkFifo's subject; mux is held only for sends, which end.      *)
(***************************************************************************)
EXTENDS Integers

CONSTANTS
  NConns,    \* bound: the connections that peers will make
  Hellos,    \* bound: HELLO messages on one connection
  Times,     \* bound: TIME messages on one connection
  NSlots,    \* the length of subscribers, 16
  QLen,      \* the capacity of a msgQ, 5
  NSockets   \* the sockets lwIP has for clients

ASSUME SessionAssumption ==
  /\ NConns \in Nat /\ Hellos \in Nat \ {0} /\ Times \in Nat /\ NSlots \in Nat \ {0}
  /\ QLen \in Nat \ {0} /\ NSockets \in Nat \ {0}

VARIABLES
  peer,        \* the remote end: "away", "open", "gone" (it closed) or "lost" (it fell silent)
  hPc,         \* where the handler is
  sock,        \* its socket number, as the handler and the record hold it
  sockets,     \* the connection that each socket number stands for, or None
  readable,    \* no tx task has shut down the connection for reading
  hello,       \* HELLOs received: the handler's client is the record <<c, hello[c]>>
  times,       \* TIMEs received
  txPc,        \* where the tx task of each record is
  claim,       \* the slot that the tx task looked at last while it searches the table
  msgQ,        \* how many messages the queue of each record holds, TIMEs and announcements
  subscribers, \* the record registered in each slot, or None
  encPc,       \* where wire_chunk_fifio_client_info_new_chnk is
  encSlot,     \* the slot it looks at
  encTarget,   \* the record whose msgQ it sends to
  panic        \* a null or wild pointer was used: the chip restarts

sessionVars == << peer, hPc, sock, sockets, readable, hello, times, txPc, claim, msgQ,
                  subscribers, encPc, encSlot, encTarget, panic >>

None == << >>
Conns == 1 .. NConns    \* in the order in which they are accepted
Records == Conns \X (1 .. Hellos)
Slots == 1 .. NSlots
Sockets == 1 .. NSockets

Client(c) == << c, hello[c] >>

\* free_client has deleted the record's msgQ and freed it.
Freed(r) == hPc[r[1]] = "done" /\ r = Client(r[1])
Live(r) == r[2] <= hello[r[1]] /\ ~Freed(r)

FreeSockets == { s \in Sockets : sockets[s] = None }

\* The connection that a use of r's socket number reaches.
Reached(r) == sockets[sock[r[1]]]

SessionInit ==
  /\ peer = [c \in Conns |-> "away"]
  /\ hPc = [c \in Conns |-> "none"]
  /\ sock = [c \in Conns |-> 1]
  /\ sockets = [s \in Sockets |-> None]
  /\ readable = [c \in Conns |-> TRUE]
  /\ hello = [c \in Conns |-> 0]
  /\ times = [c \in Conns |-> 0]
  /\ txPc = [r \in Records |-> "none"]
  /\ claim = [r \in Records |-> 0]
  /\ msgQ = [r \in Records |-> 0]
  /\ subscribers = [i \in Slots |-> None]
  /\ encPc = "idle" /\ encSlot = 1 /\ encTarget = None
  /\ panic = FALSE

-----------------------------------------------------------------------------
(* The accept loop and the peers.                                          *)

\* The handler copies the socket number before the loop goes on: it has the
\* higher priority, and the loop sleeps for 100 ms.
Accept(c) ==
  /\ peer[c] = "away" /\ \A d \in 1 .. c - 1 : peer[d] # "away"
  /\ FreeSockets # {}
  /\ LET s == CHOOSE x \in FreeSockets : \A y \in FreeSockets : x <= y
     IN  /\ sock' = [sock EXCEPT ![c] = s]
         /\ sockets' = [sockets EXCEPT ![s] = << c >>]
  /\ peer' = [peer EXCEPT ![c] = "open"]
  /\ hPc' = [hPc EXCEPT ![c] = "receive"]
  /\ UNCHANGED << readable, hello, times, txPc, claim, msgQ, subscribers, encPc, encSlot,
                  encTarget, panic >>

\* A peer that closes is noticed by receiving, one that loses power is not.
PeerGoes(c) ==
  /\ peer[c] = "open"
  /\ \E end \in {"gone", "lost"} : peer' = [peer EXCEPT ![c] = end]
  /\ UNCHANGED << hPc, sock, sockets, readable, hello, times, txPc, claim, msgQ, subscribers,
                  encPc, encSlot, encTarget, panic >>

-----------------------------------------------------------------------------
(* handle_client_task of connection c.                                     *)

\* The client record is made, settings and codec header are sent, whether that
\* succeeds or not, and the tx task starts, if there is memory for one: the result
\* is not looked at.
HandleHello(c) ==
  /\ hPc[c] = "receive" /\ peer[c] = "open" /\ readable[c]
  /\ hello[c] < Hellos
  /\ hello' = [hello EXCEPT ![c] = @ + 1]
  /\ \/ txPc' = [txPc EXCEPT ![<< c, hello[c] + 1 >>] = "scan"]
     \/ UNCHANGED txPc
  /\ UNCHANGED << peer, hPc, sock, sockets, readable, times, claim, msgQ, subscribers,
                  encPc, encSlot, encTarget, panic >>

\* A TIME before any HELLO is dropped.
HandleTime(c) ==
  /\ hPc[c] = "receive" /\ peer[c] = "open" /\ readable[c]
  /\ hello[c] > 0 /\ times[c] < Times
  /\ times' = [times EXCEPT ![c] = @ + 1]
  /\ hPc' = [hPc EXCEPT ![c] = "queueTime"]
  /\ UNCHANGED << peer, sock, sockets, readable, hello, txPc, claim, msgQ, subscribers,
                  encPc, encSlot, encTarget, panic >>

\* Variant: does not wait for room.
QueueTimeAtOnce(c) ==
  /\ hPc[c] = "queueTime"
  /\ msgQ' = [msgQ EXCEPT ![Client(c)] = @ + 1]
  /\ hPc' = [hPc EXCEPT ![c] = "receive"]
  /\ UNCHANGED << peer, sock, sockets, readable, hello, times, txPc, claim, subscribers,
                  encPc, encSlot, encTarget, panic >>

\* xQueueSend waits for room without a timeout.
QueueTime(c) ==
  /\ hPc[c] = "queueTime"
  /\ msgQ[Client(c)] < QLen
  /\ msgQ' = [msgQ EXCEPT ![Client(c)] = @ + 1]
  /\ hPc' = [hPc EXCEPT ![c] = "receive"]
  /\ UNCHANGED << peer, sock, sockets, readable, hello, times, txPc, claim, subscribers,
                  encPc, encSlot, encTarget, panic >>

\* Receiving fails once the peer has closed or a tx task has shut the socket down.
HandleClose(c) ==
  /\ hPc[c] = "receive"
  /\ peer[c] = "gone" \/ ~readable[c]
  /\ sockets' = [sockets EXCEPT ![sock[c]] = None]
  /\ hPc' = [hPc EXCEPT ![c] = "wait"]
  /\ UNCHANGED << peer, sock, readable, hello, times, txPc, claim, msgQ, subscribers,
                  encPc, encSlot, encTarget, panic >>

\* The HELLOs after which client_tx_task_handle was written.
Started(c) == { k \in 1 .. hello[c] : txPc[<< c, k >>] # "none" }

\* Variant: does not wait for the tx task.
HandleFreeAtOnce(c) ==
  /\ hPc[c] = "wait" /\ Started(c) # {}
  /\ hPc' = [hPc EXCEPT ![c] = "done"]
  /\ UNCHANGED << peer, sock, sockets, readable, hello, times, txPc, claim, msgQ, subscribers,
                  encPc, encSlot, encTarget, panic >>

\* eTaskStateGet, asked every 5 ms, tells the end of the last tx task started.
HandleFree(c) ==
  /\ hPc[c] = "wait"
  /\ \E k \in Started(c) : /\ \A j \in Started(c) : j <= k
                           /\ txPc[<< c, k >>] = "deleted"
  /\ hPc' = [hPc EXCEPT ![c] = "done"]
  /\ UNCHANGED << peer, sock, sockets, readable, hello, times, txPc, claim, msgQ, subscribers,
                  encPc, encSlot, encTarget, panic >>

\* Without a tx task client_tx_task_handle was never written: it is zero, or it
\* looks like the handle of a deleted task, or it is a wild pointer.
HandleFreeNothing(c) ==
  /\ hPc[c] = "wait" /\ Started(c) = {}
  /\ \/ hPc' = [hPc EXCEPT ![c] = "done"] /\ UNCHANGED panic
     \/ panic' = TRUE /\ UNCHANGED hPc
  /\ UNCHANGED << peer, sock, sockets, readable, hello, times, txPc, claim, msgQ, subscribers,
                  encPc, encSlot, encTarget >>

Handler(c) ==
  \/ HandleHello(c) \/ HandleTime(c) \/ QueueTime(c)
  \/ HandleClose(c) \/ HandleFree(c) \/ HandleFreeNothing(c)

-----------------------------------------------------------------------------
(* send_new_wire_chunk_task of record r.                                   *)

GoTx(r, pc) == txPc' = [txPc EXCEPT ![r] = pc]

\* wire_chunk_fifio_register_client goes through the slots to the first empty one ...
TxScan(r) ==
  /\ txPc[r] = "scan"
  /\ LET i == claim[r] + 1
     IN  \/ /\ subscribers[i] = None
            /\ claim' = [claim EXCEPT ![r] = i]
            /\ GoTx(r, "register")
         \/ /\ subscribers[i] # None /\ i < NSlots
            /\ claim' = [claim EXCEPT ![r] = i]
            /\ UNCHANGED txPc
         \/ /\ subscribers[i] # None /\ i = NSlots
            /\ claim' = [claim EXCEPT ![r] = 0]
            /\ GoTx(r, "receive")
  /\ UNCHANGED << peer, hPc, sock, sockets, readable, hello, times, msgQ, subscribers,
                  encPc, encSlot, encTarget, panic >>

\* ... and takes it, whoever else did so meanwhile.
TxRegister(r) ==
  /\ txPc[r] = "register"
  /\ subscribers' = [subscribers EXCEPT ![claim[r]] = r]
  /\ claim' = [claim EXCEPT ![r] = 0]
  /\ GoTx(r, "receive")
  /\ UNCHANGED << peer, hPc, sock, sockets, readable, hello, times, msgQ,
                  encPc, encSlot, encTarget, panic >>

\* To either kind of message the answer is a frame on the socket.
TxReceive(r) ==
  /\ txPc[r] = "receive"
  /\ msgQ[r] > 0
  /\ msgQ' = [msgQ EXCEPT ![r] = @ - 1]
  /\ GoTx(r, "send")
  /\ UNCHANGED << peer, hPc, sock, sockets, readable, hello, times, claim, subscribers,
                  encPc, encSlot, encTarget, panic >>

\* Variant: the error is not passed on.
TxSendIgnoresError(r) ==
  /\ txPc[r] = "send"
  /\ GoTx(r, "receive")
  /\ UNCHANGED << peer, hPc, sock, sockets, readable, hello, times, claim, msgQ, subscribers,
                  encPc, encSlot, encTarget, panic >>

\* Sending succeeds only where a peer listens; a slow peer makes it fail, too.
TxSend(r) ==
  /\ txPc[r] = "send"
  /\ \/ Reached(r) # None /\ peer[Reached(r)[1]] = "open" /\ GoTx(r, "receive")
     \/ GoTx(r, "unregister")
  /\ UNCHANGED << peer, hPc, sock, sockets, readable, hello, times, claim, msgQ, subscribers,
                  encPc, encSlot, encTarget, panic >>

\* Variant: ends without taking the record out of the table.
TxStaysRegistered(r) ==
  /\ txPc[r] = "unregister"
  /\ GoTx(r, "shutdown")
  /\ UNCHANGED << peer, hPc, sock, sockets, readable, hello, times, claim, msgQ, subscribers,
                  encPc, encSlot, encTarget, panic >>

\* wire_chunk_fifio_unregister_client finds the record's slot ...
TxUnregister(r) ==
  /\ txPc[r] = "unregister"
  /\ \/ \E i \in Slots : /\ subscribers[i] = r
                         /\ \A j \in 1 .. i - 1 : subscribers[j] # r
                         /\ claim' = [claim EXCEPT ![r] = i]
                         /\ GoTx(r, "clear")
     \/ /\ \A i \in Slots : subscribers[i] # r
        /\ GoTx(r, "shutdown")
        /\ UNCHANGED claim
  /\ UNCHANGED << peer, hPc, sock, sockets, readable, hello, times, msgQ, subscribers,
                  encPc, encSlot, encTarget, panic >>

\* ... and empties it, whoever has taken it meanwhile.
TxClear(r) ==
  /\ txPc[r] = "clear"
  /\ subscribers' = [subscribers EXCEPT ![claim[r]] = None]
  /\ claim' = [claim EXCEPT ![r] = 0]
  /\ GoTx(r, "shutdown")
  /\ UNCHANGED << peer, hPc, sock, sockets, readable, hello, times, msgQ,
                  encPc, encSlot, encTarget, panic >>

\* shutdown(client->sock, 0) and vTaskDelete.
TxEnd(r) ==
  /\ txPc[r] = "shutdown"
  /\ readable' = [c \in Conns |-> readable[c] /\ Reached(r) # << c >>]
  /\ GoTx(r, "deleted")
  /\ UNCHANGED << peer, hPc, sock, sockets, hello, times, claim, msgQ, subscribers,
                  encPc, encSlot, encTarget, panic >>

Tx(r) ==
  \/ TxScan(r) \/ TxRegister(r) \/ TxReceive(r) \/ TxSend(r)
  \/ TxUnregister(r) \/ TxClear(r) \/ TxEnd(r)

-----------------------------------------------------------------------------
(* wire_chunk_fifio_client_info_new_chnk, in the encoder's task.           *)

EncAnnounce ==
  /\ encPc = "idle"
  /\ encPc' = "test" /\ encSlot' = 1
  /\ UNCHANGED << peer, hPc, sock, sockets, readable, hello, times, txPc, claim, msgQ,
                  subscribers, encTarget, panic >>

NextSlot ==
  IF encSlot < NSlots THEN encSlot' = encSlot + 1 /\ encPc' = "test"
                      ELSE encSlot' = 1 /\ encPc' = "idle"

\* The slot is tested ...
EncTest ==
  /\ encPc = "test"
  /\ IF subscribers[encSlot] = None THEN NextSlot ELSE encPc' = "read" /\ UNCHANGED encSlot
  /\ UNCHANGED << peer, hPc, sock, sockets, readable, hello, times, txPc, claim, msgQ,
                  subscribers, encTarget, panic >>

\* ... and read again; the tx task may have emptied it meanwhile.
EncRead ==
  /\ encPc = "read"
  /\ IF subscribers[encSlot] = None
     THEN panic' = TRUE /\ UNCHANGED << encPc, encTarget >>
     ELSE /\ encTarget' = subscribers[encSlot]
          /\ encPc' = "send"
          /\ UNCHANGED panic
  /\ UNCHANGED << peer, hPc, sock, sockets, readable, hello, times, txPc, claim, msgQ,
                  subscribers, encSlot >>

\* xQueueSend waits for room without a timeout, even in a queue nobody reads.
EncSend ==
  /\ encPc = "send" /\ Live(encTarget)
  /\ msgQ[encTarget] < QLen
  /\ msgQ' = [msgQ EXCEPT ![encTarget] = @ + 1]
  /\ encTarget' = None
  /\ NextSlot
  /\ UNCHANGED << peer, hPc, sock, sockets, readable, hello, times, txPc, claim,
                  subscribers, panic >>

EncSendFreed ==
  /\ encPc = "send" /\ Freed(encTarget)
  /\ panic' = TRUE
  /\ UNCHANGED << peer, hPc, sock, sockets, readable, hello, times, txPc, claim, msgQ,
                  subscribers, encPc, encSlot, encTarget >>

Encoder == EncAnnounce \/ EncTest \/ EncRead \/ EncSend \/ EncSendFreed

-----------------------------------------------------------------------------

SessionNext ==
  /\ ~panic
  /\ \/ \E c \in Conns : Accept(c) \/ PeerGoes(c) \/ Handler(c)
     \/ \E r \in Records : Tx(r)
     \/ Encoder

SessionSpec == SessionInit /\ [][SessionNext]_sessionVars

\* While a stream plays the encoder announces a chunk every 26 ms; every task
\* runs when it can.  A task that does not want to receive is not made to.
SessionFairSpec ==
  /\ SessionSpec
  /\ WF_sessionVars(~panic /\ Encoder)
  /\ \A r \in Records : WF_sessionVars(~panic /\ Tx(r))
  /\ \A c \in Conns :
       WF_sessionVars(~panic /\ (QueueTime(c) \/ HandleClose(c) \/ HandleFree(c)
                                   \/ HandleFreeNothing(c)))

-----------------------------------------------------------------------------
(* Properties.                                                             *)

SessionTypeOk ==
  /\ peer \in [Conns -> {"away", "open", "gone", "lost"}]
  /\ hPc \in [Conns -> {"none", "receive", "queueTime", "wait", "done"}]
  /\ sock \in [Conns -> Sockets]
  /\ sockets \in [Sockets -> {None} \cup { << c >> : c \in Conns }]
  /\ readable \in [Conns -> BOOLEAN]
  /\ hello \in [Conns -> 0 .. Hellos]
  /\ times \in [Conns -> 0 .. Times]
  /\ txPc \in [Records -> {"none", "scan", "register", "receive", "send", "unregister",
                           "clear", "shutdown", "deleted"}]
  /\ claim \in [Records -> 0 .. NSlots]
  /\ msgQ \in [Records -> 0 .. QLen]
  /\ subscribers \in [Slots -> Records \cup {None}]
  /\ encPc \in {"idle", "test", "read", "send"}
  /\ encSlot \in Slots
  /\ encTarget \in Records \cup {None}
  /\ panic \in BOOLEAN

Running == {"scan", "register", "receive", "send", "unregister", "clear", "shutdown"}

\* Every record in the table exists, and its tx task still serves it: the encoder
\* finds no record that is about to be freed.
SubscribersServed ==
  \A i \in Slots : subscribers[i] # None =>
    /\ Live(subscribers[i])
    /\ txPc[subscribers[i]] \in {"receive", "send", "unregister", "clear"}

\* No tx task works on a freed record.
TxRecordLive == \A r \in Records : txPc[r] \in Running => Live(r)

\* A tx task uses a socket number that stands for somebody else's connection only
\* between its handler's close and free_client.
WrongSocketOnlyInTeardown ==
  \A r \in Records : txPc[r] \in {"send", "shutdown"} /\ Reached(r) # << r[1] >>
                       => hPc[r[1]] = "wait"

\* What keeps a connection from being torn down: the handler queues a TIME for a
\* tx task that has ended or never was; the encoder waits for room in the queue of
\* one that has ended and left the table, having found it there before; the tx
\* task waits for announcements although it is in no slot; a tx task sends on a
\* socket number that has a new owner; the chip restarts.
DeadQueue(c) == /\ hPc[c] = "queueTime" /\ txPc[Client(c)] \in {"none", "deleted"}
                /\ msgQ[Client(c)] = QLen
EncoderStuck == /\ encPc = "send" /\ txPc[encTarget] = "deleted"
                /\ msgQ[encTarget] = QLen
                /\ \A i \in Slots : subscribers[i] # encTarget
Unannounced(r) == /\ txPc[r] = "receive" /\ msgQ[r] = 0 /\ encTarget # r
                  /\ \A i \in Slots : subscribers[i] # r
WrongSocket(c) == hPc[c] = "wait" /\ sockets[sock[c]] # None

KeptOpen(c) ==
  \/ DeadQueue(c) \/ EncoderStuck \/ WrongSocket(c) \/ panic
  \/ hello[c] > 0 /\ Unannounced(Client(c))

\* A connection whose peer has closed, or has fallen silent after it got a tx task, is
\* torn down unless one of these happens; a peer that falls silent before keeps it.
Disconnects ==
  \A c \in Conns :
    peer[c] = "gone" \/ (peer[c] = "lost" /\ hello[c] > 0 /\ txPc[Client(c)] # "none")
      ~> hPc[c] = "done" \/ KeptOpen(c)

\* wire_chunk_fifio_client_info_new_chnk returns: no client, slow, dead or on its way out,
\* holds up the encoder, but for one whose queue it had already reached.
AnnouncementsEnd == encPc # "idle" ~> encPc = "idle" \/ EncoderStuck \/ panic

\* "wait for task to be deleted by itself": nothing of a connection runs when its
\* record is freed.
WaitsForTasks ==
  \A r \in Records : hPc[r[1]] = "done" => txPc[r] \in {"none", "deleted"}
=============================================================================
