------------------------ MODULE ClientSessionsProofs ------------------------
(***************************************************************************)
(* Proofs about ClientSessions, for every set of connections, every number *)
(* of slots, queue entries and sockets, and every number of HELLOs on a    *)
(* connection, except where a theorem asks for one HELLO.                  *)
(*                                                                         *)
(* SessionInv relates the handler's place to the socket number it holds,   *)
(* each record to its tx task, and the table to the tx tasks that put      *)
(* their records there.  Each action is shown to keep all of it.           *)
(***************************************************************************)
EXTENDS ClientSessions, LeastNumber

-----------------------------------------------------------------------------
(* The inductive invariant.                                                *)

\* Until it closes its socket a handler's number stands for its own connection.
SocketsOwned ==
  \A c \in Conns : hPc[c] \in {"receive", "queueTime"} => sockets[sock[c]] = << c >>

\* A handler starts when its peer comes, and ends after the tx task it started last.
HandlerSteps ==
  \A c \in Conns :
    /\ hPc[c] = "none" <=> peer[c] = "away"
    /\ hPc[c] = "none" => hello[c] = 0
    /\ hPc[c] = "queueTime" => hello[c] > 0
    /\ hPc[c] = "done" /\ hello[c] > 0 => txPc[Client(c)] \in {"none", "deleted"}

\* No record has a tx task before its HELLO, and a search stays within the table.
TxStarted ==
  \A r \in Records :
    /\ r[2] > hello[r[1]] => txPc[r] = "none"
    /\ txPc[r] \in {"none", "scan"} => claim[r] \in 0 .. NSlots - 1
    /\ txPc[r] \in {"register", "clear"} => claim[r] \in Slots

Serving == {"receive", "send", "unregister", "clear"}

\* A record is in one slot at most, and only while its tx task is past registering
\* and has not unregistered it: so that emptying the first slot that holds it is enough.
TableSound ==
  /\ \A i \in Slots : subscribers[i] # None => txPc[subscribers[i]] \in Serving
  /\ \A i, j \in Slots : subscribers[i] # None /\ subscribers[i] = subscribers[j] => i = j
  /\ \A i \in Slots :
       subscribers[i] # None /\ txPc[subscribers[i]] = "clear" => i = claim[subscribers[i]]

Target == encPc = "send" => encTarget \in Records

SessionInv ==
  /\ SessionTypeOk /\ Target
  /\ SocketsOwned /\ HandlerSteps /\ TxStarted /\ TableSound

-----------------------------------------------------------------------------
(* Lemmas.                                                                 *)

\* CHOOSE gives the first one.
LEMMA FirstOf ==
  ASSUME NEW n \in Nat, NEW S \in SUBSET (1 .. n), S # {}
  PROVE  (CHOOSE i \in S : \A j \in S : i <= j) \in S
<1>1. \E i \in S : \A j \in S : i <= j
  BY LeastExists
<1> QED
  BY <1>1

\* A record is never the empty slot's entry.
LEMMA RecordFacts ==
  /\ None \notin Records
  /\ \A r \in Records : r[1] \in Conns /\ r[2] \in 1 .. Hellos /\ r = << r[1], r[2] >>
  /\ \A c \in Conns : None # << c >>
BY DEF Records, None

\* After a HELLO the handler has a record.
LEMMA ClientIsRecord ==
  ASSUME SessionTypeOk, NEW c \in Conns, hello[c] > 0
  PROVE  Client(c) \in Records
BY SessionAssumption DEF SessionTypeOk, Client, Records

\* A record whose tx task runs has been made and not freed.
LEMMA RunningIsLive ==
  ASSUME SessionInv, NEW r \in Records, txPc[r] \in Running
  PROVE  Live(r)
<1>1. r[2] <= hello[r[1]]
  BY RecordFacts DEF SessionInv, SessionTypeOk, TxStarted, Running
<1>2. ASSUME hPc[r[1]] = "done", r = Client(r[1]) PROVE FALSE
  <2>1. r[1] \in Conns /\ r[2] \in Nat \ {0} /\ hello[r[1]] \in Nat
    BY RecordFacts, SessionAssumption DEF SessionInv, SessionTypeOk
  <2>2. txPc[Client(r[1])] \in {"none", "deleted"}
    BY <1>1, <1>2, <2>1 DEF SessionInv, HandlerSteps
  <2> QED
    BY <1>2, <2>2 DEF Running
<1> QED
  BY <1>1, <1>2 DEF Live, Freed

\* Nobody has come yet.
LEMMA SessionInvInit == SessionInit => SessionInv
<1> SUFFICES ASSUME SessionInit PROVE SessionInv
  OBVIOUS
<1> USE SessionAssumption DEF SessionInit
<1>1. SessionTypeOk
  <2>1. /\ 1 \in Slots /\ 1 \in Sockets /\ 0 \in 0 .. NSlots /\ 0 \in 0 .. Hellos
        /\ 0 \in 0 .. Times /\ 0 \in 0 .. QLen
    BY DEF Slots, Sockets
  <2> QED
    BY <2>1, Zenon DEF SessionTypeOk
<1>2. Target
  BY DEF Target
<1>3. SocketsOwned /\ HandlerSteps /\ TableSound
  BY DEF SocketsOwned, HandlerSteps, TableSound
<1>4. TxStarted
  BY RecordFacts DEF TxStarted
<1> QED
  BY <1>1, <1>2, <1>3, <1>4 DEF SessionInv

-----------------------------------------------------------------------------
(* Each action keeps the invariant.                                        *)

\* accept gives a number that no open connection has.
LEMMA AcceptKeeps ==
  ASSUME SessionInv, NEW c \in Conns, Accept(c)
  PROVE  SessionInv'
<1> USE SessionAssumption, RecordFacts DEF SessionInv, Accept
<1> DEFINE s == CHOOSE x \in FreeSockets : \A y \in FreeSockets : x <= y
<1>0. s \in Sockets /\ sockets[s] = None
  <2>1. FreeSockets \in SUBSET (1 .. NSockets) /\ FreeSockets # {}
    BY DEF FreeSockets, Sockets
  <2>2. s \in FreeSockets
    BY <2>1, FirstOf
  <2> QED
    BY <2>2 DEF FreeSockets
<1>1. SessionTypeOk'
  <2>1. /\ sock' = [sock EXCEPT ![c] = s]
        /\ sockets' = [sockets EXCEPT ![s] = << c >>]
    OBVIOUS
  <2> HIDE DEF s
  <2>2. sock' \in [Conns -> Sockets]
    <3>1. sock \in [Conns -> Sockets]
      BY DEF SessionTypeOk
    <3> QED
      BY ONLY <1>0, <2>1, <3>1
  <2>3. sockets' \in [Sockets -> {None} \cup { << d >> : d \in Conns }]
    <3> DEFINE V == {None} \cup { << d >> : d \in Conns }
    <3>1. << c >> \in V
      OBVIOUS
    <3>2. sockets \in [Sockets -> V]
      BY DEF SessionTypeOk
    <3> HIDE DEF V
    <3>3. sockets' \in [Sockets -> V]
      BY ONLY <1>0, <2>1, <3>1, <3>2
    <3> QED
      BY <3>3 DEF V
  <2> QED
    BY <2>2, <2>3 DEF SessionTypeOk
<1>2. Target'
  BY DEF Target, SessionTypeOk, Client
<1>3. SocketsOwned'
  <2>1. /\ sock' = [sock EXCEPT ![c] = s]
        /\ sockets' = [sockets EXCEPT ![s] = << c >>]
    OBVIOUS
  <2> HIDE DEF s
  <2> SUFFICES ASSUME NEW d \in Conns, hPc'[d] \in {"receive", "queueTime"}
               PROVE  sockets'[sock'[d]] = << d >>
    BY DEF SocketsOwned
  <2>2. CASE d = c
    <3>1. sock'[c] = s
      BY <2>1 DEF SessionTypeOk
    <3>2. sockets'[s] = << c >>
      BY <1>0, <2>1, Zenon DEF SessionTypeOk
    <3> QED
      BY <2>2, <3>1, <3>2
  <2>3. CASE d # c
    <3>1. sock'[d] = sock[d] /\ sockets[sock[d]] = << d >>
      BY <2>1, <2>3 DEF SocketsOwned, SessionTypeOk
    <3>2. sock[d] # s
      BY <1>0, <3>1
    <3> QED
      BY <2>1, <3>1, <3>2 DEF SessionTypeOk
  <2> QED
    BY <2>2, <2>3
<1>4. HandlerSteps'
  BY DEF HandlerSteps, SessionTypeOk, Client, Records, GoTx
<1>5. TxStarted'
  BY DEF TxStarted, SessionTypeOk, GoTx
<1>6. TableSound'
  BY DEF TableSound, SessionTypeOk, GoTx, Serving
<1> QED
  BY <1>1, <1>2, <1>3, <1>4, <1>5, <1>6

\* The peer goes; nothing of the server notices yet.
LEMMA PeerGoesKeeps ==
  ASSUME SessionInv, NEW c \in Conns, PeerGoes(c)
  PROVE  SessionInv'
<1> USE SessionAssumption, RecordFacts DEF SessionInv, PeerGoes
<1>1. SessionTypeOk'
  BY DEF SessionTypeOk, GoTx, Client
<1>2. Target'
  BY DEF Target, SessionTypeOk, Client
<1>3. SocketsOwned'
  BY DEF SocketsOwned, SessionTypeOk
<1>4. HandlerSteps'
  BY DEF HandlerSteps, SessionTypeOk, Client, Records, GoTx
<1>5. TxStarted'
  BY DEF TxStarted, SessionTypeOk, GoTx
<1>6. TableSound'
  BY DEF TableSound, SessionTypeOk, GoTx, Serving
<1> QED
  BY <1>1, <1>2, <1>3, <1>4, <1>5, <1>6

\* The new record is in no slot: its task has not run.
LEMMA HandleHelloKeeps ==
  ASSUME SessionInv, NEW c \in Conns, HandleHello(c)
  PROVE  SessionInv'
<1> USE SessionAssumption, RecordFacts DEF SessionInv, HandleHello
<1> DEFINE new == << c, hello[c] + 1 >>
<1>0. /\ new \in Records /\ txPc[new] = "none" /\ hello[c] + 1 \in 0 .. Hellos
      /\ txPc' = [txPc EXCEPT ![new] = "scan"] \/ UNCHANGED txPc
  BY DEF SessionTypeOk, TxStarted, Records
<1> HIDE DEF new
<1>1. SessionTypeOk'
  BY <1>0 DEF SessionTypeOk
<1>2. Target'
  BY DEF Target, SessionTypeOk, Client
<1>3. SocketsOwned'
  BY DEF SocketsOwned, SessionTypeOk
<1>4. HandlerSteps'
  BY DEF HandlerSteps, SessionTypeOk, Client, Records
<1>5. TxStarted'
  <2> SUFFICES ASSUME NEW r \in Records
               PROVE  /\ r[2] > hello'[r[1]] => txPc'[r] = "none"
                      /\ txPc'[r] \in {"none", "scan"} => claim'[r] \in 0 .. NSlots - 1
                      /\ txPc'[r] \in {"register", "clear"} => claim'[r] \in Slots
    BY DEF TxStarted
  <2>1. new[1] = c /\ new[2] = hello[c] + 1
    BY DEF new
  <2>2. hello'[r[1]] = IF r[1] = c THEN hello[c] + 1 ELSE hello[r[1]]
    BY DEF SessionTypeOk
  <2>3. txPc'[r] = txPc[r] \/ (r = new /\ txPc'[r] = "scan")
    BY <1>0 DEF SessionTypeOk
  <2>4. r[2] > hello'[r[1]] => r # new /\ r[2] > hello[r[1]]
    BY <2>1, <2>2 DEF SessionTypeOk
  <2> QED
    BY <1>0, <2>3, <2>4 DEF TxStarted
<1>6. TableSound'
  BY <1>0 DEF TableSound, SessionTypeOk, Serving
<1> QED
  BY <1>1, <1>2, <1>3, <1>4, <1>5, <1>6

\* There is a record to queue the TIME for.
LEMMA HandleTimeKeeps ==
  ASSUME SessionInv, NEW c \in Conns, HandleTime(c)
  PROVE  SessionInv'
<1> USE SessionAssumption, RecordFacts DEF SessionInv, HandleTime
<1>1. SessionTypeOk'
  <2>1. times[c] + 1 \in 0 .. Times
    BY DEF SessionTypeOk
  <2> QED
    BY <2>1 DEF SessionTypeOk
<1>2. Target'
  BY DEF Target, SessionTypeOk, Client
<1>3. SocketsOwned'
  BY DEF SocketsOwned, SessionTypeOk
<1>4. HandlerSteps'
  BY DEF HandlerSteps, SessionTypeOk, Client, Records, GoTx
<1>5. TxStarted'
  BY DEF TxStarted, SessionTypeOk, GoTx
<1>6. TableSound'
  BY DEF TableSound, SessionTypeOk, GoTx, Serving
<1> QED
  BY <1>1, <1>2, <1>3, <1>4, <1>5, <1>6

\* The queue had room.
LEMMA QueueTimeKeeps ==
  ASSUME SessionInv, NEW c \in Conns, QueueTime(c)
  PROVE  SessionInv'
<1> USE SessionAssumption, RecordFacts DEF SessionInv, QueueTime
<1>1. SessionTypeOk'
  <2>1. Client(c) \in Records
    BY ClientIsRecord DEF HandlerSteps
  <2>2. msgQ[Client(c)] + 1 \in 0 .. QLen
    BY <2>1 DEF SessionTypeOk
  <2> QED
    BY <2>2 DEF SessionTypeOk
<1>2. Target'
  BY DEF Target
<1>3. SocketsOwned'
  BY DEF SocketsOwned, SessionTypeOk
<1>4. HandlerSteps'
  BY DEF HandlerSteps, SessionTypeOk, Client, Records, GoTx
<1>5. TxStarted'
  BY DEF TxStarted, SessionTypeOk, GoTx
<1>6. TableSound'
  BY DEF TableSound, SessionTypeOk, GoTx, Serving
<1> QED
  BY <1>1, <1>2, <1>3, <1>4, <1>5, <1>6

\* The number that is given up was nobody else's.
LEMMA HandleCloseKeeps ==
  ASSUME SessionInv, NEW c \in Conns, HandleClose(c)
  PROVE  SessionInv'
<1> USE SessionAssumption, RecordFacts DEF SessionInv, HandleClose
<1>1. SessionTypeOk'
  BY DEF SessionTypeOk, GoTx, Client
<1>2. Target'
  BY DEF Target, SessionTypeOk, Client
<1>3. SocketsOwned'
  BY DEF SocketsOwned, SessionTypeOk
<1>4. HandlerSteps'
  BY DEF HandlerSteps, SessionTypeOk, Client, Records, GoTx
<1>5. TxStarted'
  BY DEF TxStarted, SessionTypeOk, GoTx
<1>6. TableSound'
  BY DEF TableSound, SessionTypeOk, GoTx, Serving
<1> QED
  BY <1>1, <1>2, <1>3, <1>4, <1>5, <1>6

\* The record's task has ended.
LEMMA HandleFreeKeeps ==
  ASSUME SessionInv, NEW c \in Conns, HandleFree(c)
  PROVE  SessionInv'
<1> USE SessionAssumption, RecordFacts DEF SessionInv, HandleFree
<1>1. SessionTypeOk'
  BY DEF SessionTypeOk, GoTx, Client
<1>2. Target'
  BY DEF Target, SessionTypeOk, Client
<1>3. SocketsOwned'
  BY DEF SocketsOwned, SessionTypeOk
<1>4. HandlerSteps'
  <2>1. hello[c] > 0 => txPc[Client(c)] \in {"none", "deleted"}
    <3>1. hello[c] \in Nat
      BY DEF SessionTypeOk
    <3>2. PICK k \in Started(c) : /\ \A j \in Started(c) : j <= k
                                  /\ txPc[<< c, k >>] = "deleted"
      OBVIOUS
    <3>3. hello[c] \in Started(c) => k = hello[c]
      BY <3>1, <3>2 DEF Started
    <3> QED
      BY <3>1, <3>2, <3>3 DEF Started, Client
  <2> QED
    BY <2>1 DEF HandlerSteps, SessionTypeOk, Client
<1>5. TxStarted'
  BY DEF TxStarted, SessionTypeOk, GoTx
<1>6. TableSound'
  BY DEF TableSound, SessionTypeOk, GoTx, Serving
<1> QED
  BY <1>1, <1>2, <1>3, <1>4, <1>5, <1>6

\* There was no tx task.
LEMMA HandleFreeNothingKeeps ==
  ASSUME SessionInv, NEW c \in Conns, HandleFreeNothing(c)
  PROVE  SessionInv'
<1> USE SessionAssumption, RecordFacts DEF SessionInv, HandleFreeNothing
<1>1. SessionTypeOk'
  BY DEF SessionTypeOk, GoTx, Client
<1>2. Target'
  BY DEF Target, SessionTypeOk, Client
<1>3. SocketsOwned'
  BY DEF SocketsOwned, SessionTypeOk
<1>4. HandlerSteps'
  <2>1. hello[c] > 0 => txPc[Client(c)] = "none"
    <3>1. hello[c] \in Nat
      BY DEF SessionTypeOk
    <3> QED
      BY <3>1 DEF Started, Client
  <2> QED
    BY <2>1 DEF HandlerSteps, SessionTypeOk, Client
<1>5. TxStarted'
  BY DEF TxStarted, SessionTypeOk, GoTx
<1>6. TableSound'
  BY DEF TableSound, SessionTypeOk, GoTx, Serving
<1> QED
  BY <1>1, <1>2, <1>3, <1>4, <1>5, <1>6

\* A slot is looked at, and claimed if it is empty.
LEMMA TxScanKeeps ==
  ASSUME SessionInv, NEW r \in Records, TxScan(r)
  PROVE  SessionInv'
<1> USE SessionAssumption, RecordFacts DEF SessionInv, TxScan
<1>0. claim[r] \in 0 .. NSlots - 1 /\ claim[r] + 1 \in Slots /\ claim[r] + 1 \in 0 .. NSlots
  BY DEF TxStarted, Slots
<1>1. SessionTypeOk'
  <2>1. \E i \in 0 .. NSlots : claim' = [claim EXCEPT ![r] = i]
    BY <1>0
  <2>2. txPc' = txPc \/ \E step \in {"register", "receive"} : GoTx(r, step)
    OBVIOUS
  <2>3. claim' \in [Records -> 0 .. NSlots]
    BY <2>1 DEF SessionTypeOk
  <2>4. txPc' \in [Records -> {"none", "scan", "register", "receive", "send", "unregister",
                              "clear", "shutdown", "deleted"}]
    BY <2>2 DEF SessionTypeOk, GoTx
  <2> QED
    BY <2>3, <2>4 DEF SessionTypeOk
<1>2. Target'
  BY DEF Target
<1>3. SocketsOwned'
  BY DEF SocketsOwned, SessionTypeOk
<1>4. HandlerSteps'
  BY DEF HandlerSteps, SessionTypeOk, Client, Records, GoTx
<1>5. TxStarted'
  BY <1>0 DEF TxStarted, SessionTypeOk, GoTx
<1>6. TableSound'
  BY DEF TableSound, SessionTypeOk, GoTx, Serving
<1> QED
  BY <1>1, <1>2, <1>3, <1>4, <1>5, <1>6

\* The record was in no slot before, and its slot's former record is in none now.
LEMMA TxRegisterKeeps ==
  ASSUME SessionInv, NEW r \in Records, TxRegister(r)
  PROVE  SessionInv'
<1> USE SessionAssumption, RecordFacts DEF SessionInv, TxRegister
<1>1. SessionTypeOk'
  <2>1. claim[r] \in Slots /\ 0 \in 0 .. NSlots
    BY DEF TxStarted
  <2> QED
    BY <2>1 DEF SessionTypeOk, GoTx
<1>2. Target'
  BY DEF Target, SessionTypeOk, Client
<1>3. SocketsOwned'
  BY DEF SocketsOwned, SessionTypeOk
<1>4. HandlerSteps'
  BY DEF HandlerSteps, SessionTypeOk, Client, Records, GoTx
<1>5. TxStarted'
  BY DEF TxStarted, SessionTypeOk, GoTx
<1>6. TableSound'
  BY DEF TableSound, SessionTypeOk, GoTx, Serving
<1> QED
  BY <1>1, <1>2, <1>3, <1>4, <1>5, <1>6

\* A message leaves the queue.
LEMMA TxReceiveKeeps ==
  ASSUME SessionInv, NEW r \in Records, TxReceive(r)
  PROVE  SessionInv'
<1> USE SessionAssumption, RecordFacts DEF SessionInv, TxReceive
<1>1. SessionTypeOk'
  <2>1. msgQ[r] - 1 \in 0 .. QLen
    BY DEF SessionTypeOk
  <2> QED
    BY <2>1 DEF SessionTypeOk, GoTx
<1>2. Target'
  BY DEF Target, SessionTypeOk, Client
<1>3. SocketsOwned'
  BY DEF SocketsOwned, SessionTypeOk
<1>4. HandlerSteps'
  BY DEF HandlerSteps, SessionTypeOk, Client, Records, GoTx
<1>5. TxStarted'
  BY DEF TxStarted, SessionTypeOk, GoTx
<1>6. TableSound'
  BY DEF TableSound, SessionTypeOk, GoTx, Serving
<1> QED
  BY <1>1, <1>2, <1>3, <1>4, <1>5, <1>6

\* After sending the task is still registered.
LEMMA TxSendKeeps ==
  ASSUME SessionInv, NEW r \in Records, TxSend(r)
  PROVE  SessionInv'
<1> USE SessionAssumption, RecordFacts DEF SessionInv, TxSend
<1>1. SessionTypeOk'
  BY DEF SessionTypeOk, GoTx, Client
<1>2. Target'
  BY DEF Target, SessionTypeOk, Client
<1>3. SocketsOwned'
  BY DEF SocketsOwned, SessionTypeOk
<1>4. HandlerSteps'
  BY DEF HandlerSteps, SessionTypeOk, Client, Records, GoTx
<1>5. TxStarted'
  BY DEF TxStarted, SessionTypeOk, GoTx
<1>6. TableSound'
  <2>1. /\ txPc[r] = "send" /\ txPc'[r] \in {"receive", "unregister"}
        /\ \A q \in Records : q # r => txPc'[q] = txPc[q]
    BY DEF SessionTypeOk, GoTx
  <2> QED
    BY <2>1 DEF TableSound, SessionTypeOk, Serving
<1> QED
  BY <1>1, <1>2, <1>3, <1>4, <1>5, <1>6

\* The slot that is found is the only one that holds the record.
LEMMA TxUnregisterKeeps ==
  ASSUME SessionInv, NEW r \in Records, TxUnregister(r)
  PROVE  SessionInv'
<1> USE SessionAssumption, RecordFacts DEF SessionInv, TxUnregister
<1>0. \A i \in Slots : i \in 0 .. NSlots
  BY DEF Slots
<1>1. SessionTypeOk'
  BY <1>0 DEF SessionTypeOk, GoTx
<1>2. Target'
  BY DEF Target
<1>3. SocketsOwned'
  BY DEF SocketsOwned, SessionTypeOk
<1>4. HandlerSteps'
  BY DEF HandlerSteps, SessionTypeOk, Client, Records, GoTx
<1>5. TxStarted'
  BY DEF TxStarted, SessionTypeOk, GoTx
<1>6. TableSound'
  BY DEF TableSound, SessionTypeOk, GoTx, Serving
<1> QED
  BY <1>1, <1>2, <1>3, <1>4, <1>5, <1>6

\* The slot is emptied, whoever is in it; the record is in no other.
LEMMA TxClearKeeps ==
  ASSUME SessionInv, NEW r \in Records, TxClear(r)
  PROVE  SessionInv'
<1> USE SessionAssumption, RecordFacts DEF SessionInv, TxClear
<1>1. SessionTypeOk'
  <2>1. 0 \in 0 .. NSlots
    OBVIOUS
  <2> QED
    BY <2>1 DEF SessionTypeOk, GoTx
<1>2. Target'
  BY DEF Target
<1>3. SocketsOwned'
  BY DEF SocketsOwned, SessionTypeOk
<1>4. HandlerSteps'
  BY DEF HandlerSteps, SessionTypeOk, Client, Records, GoTx
<1>5. TxStarted'
  BY DEF TxStarted, SessionTypeOk, GoTx
<1>6. TableSound'
  BY DEF TableSound, SessionTypeOk, GoTx, Serving
<1> QED
  BY <1>1, <1>2, <1>3, <1>4, <1>5, <1>6

\* The task is registered no longer.
LEMMA TxEndKeeps ==
  ASSUME SessionInv, NEW r \in Records, TxEnd(r)
  PROVE  SessionInv'
<1> USE SessionAssumption, RecordFacts DEF SessionInv, TxEnd
<1>1. SessionTypeOk'
  BY DEF SessionTypeOk, GoTx, Client
<1>2. Target'
  BY DEF Target, SessionTypeOk, Client
<1>3. SocketsOwned'
  BY DEF SocketsOwned, SessionTypeOk
<1>4. HandlerSteps'
  BY DEF HandlerSteps, SessionTypeOk, Client, Records, GoTx
<1>5. TxStarted'
  BY DEF TxStarted, SessionTypeOk, GoTx
<1>6. TableSound'
  BY DEF TableSound, SessionTypeOk, GoTx, Serving
<1> QED
  BY <1>1, <1>2, <1>3, <1>4, <1>5, <1>6

\* The encoder's steps change its own place and one queue.
LEMMA EncoderKeeps ==
  ASSUME SessionInv, Encoder
  PROVE  SessionInv'
<1> USE SessionAssumption, RecordFacts DEF SessionInv
<1>1. UNCHANGED << peer, hPc, sock, sockets, readable, hello, times, txPc, claim, subscribers >>
  BY DEF Encoder, EncAnnounce, EncTest, EncRead, EncSend, EncSendFreed
<1>2. SocketsOwned' /\ HandlerSteps' /\ TxStarted' /\ TableSound'
  BY <1>1 DEF SocketsOwned, HandlerSteps, TxStarted, TableSound, Client
<1>3. /\ encPc' \in {"idle", "test", "read", "send"} /\ encSlot' \in Slots
      /\ encTarget' \in Records \cup {None} /\ panic' \in BOOLEAN
      /\ Target'
  <2> USE DEF SessionTypeOk, Target
  <2>1. ASSUME NextSlot
        PROVE  encSlot' \in Slots /\ encPc' \in {"idle", "test"}
    BY <2>1 DEF NextSlot, Slots
  <2>2. CASE EncAnnounce
    BY <2>2 DEF EncAnnounce, Slots
  <2>3. CASE EncTest
    BY <2>1, <2>3 DEF EncTest
  <2>4. CASE EncRead
    BY <2>4 DEF EncRead
  <2>5. CASE EncSend
    BY <2>1, <2>5 DEF EncSend
  <2>6. CASE EncSendFreed
    BY <2>6 DEF EncSendFreed
  <2> QED
    BY <2>2, <2>3, <2>4, <2>5, <2>6 DEF Encoder
<1>4. msgQ' \in [Records -> 0 .. QLen]
  <2>1. CASE UNCHANGED msgQ
    BY <2>1 DEF SessionTypeOk
  <2>2. CASE EncSend
    BY <2>2 DEF EncSend, Target, SessionTypeOk
  <2> QED
    BY <2>1, <2>2 DEF Encoder, EncAnnounce, EncTest, EncRead, EncSendFreed
<1> QED
  BY <1>1, <1>2, <1>3, <1>4 DEF SessionTypeOk

\* Every step keeps the invariant.
LEMMA SessionInvNext == SessionInv /\ [SessionNext]_sessionVars => SessionInv'
<1>1. ASSUME SessionInv, NEW c \in Conns, Accept(c) \/ PeerGoes(c) \/ Handler(c)
      PROVE  SessionInv'
  BY <1>1, AcceptKeeps, PeerGoesKeeps, HandleHelloKeeps, HandleTimeKeeps, QueueTimeKeeps,
     HandleCloseKeeps, HandleFreeKeeps, HandleFreeNothingKeeps DEF Handler
<1>2. ASSUME SessionInv, NEW r \in Records, Tx(r)
      PROVE  SessionInv'
  BY <1>2, TxScanKeeps, TxRegisterKeeps, TxReceiveKeeps, TxSendKeeps, TxUnregisterKeeps,
     TxClearKeeps, TxEndKeeps DEF Tx
<1>3. ASSUME SessionInv, UNCHANGED sessionVars
      PROVE  SessionInv'
  BY <1>3 DEF sessionVars, SessionInv, SessionTypeOk, Target, SocketsOwned,
              HandlerSteps, TxStarted, TableSound, Client
<1> QED
  BY <1>1, <1>2, <1>3, EncoderKeeps DEF SessionNext

\* Handlers, tx tasks, table and encoder agree in every reachable state.
THEOREM SessionInvariant == SessionSpec => []SessionInv
BY SessionInvInit, SessionInvNext, PTL DEF SessionSpec

-----------------------------------------------------------------------------
(* What the runs check.                                                    *)

\* Every shared variable keeps its type; in particular no msgQ holds more than its
\* capacity, and a handler's socket number is one that accept gave.
THEOREM SessionTypes == SessionSpec => []SessionTypeOk
BY SessionInvariant, PTL DEF SessionInv

\* The encoder finds no record in the table that free_client has freed, nor one whose tx
\* task has left, however HELLOs, closes and registrations overlap.
THEOREM TableIsServed == SessionSpec => []SubscribersServed
<1>1. SessionInv => SubscribersServed
  <2> SUFFICES ASSUME SessionInv, NEW i \in Slots, subscribers[i] # None
               PROVE  /\ Live(subscribers[i])
                      /\ txPc[subscribers[i]] \in {"receive", "send", "unregister", "clear"}
    BY DEF SubscribersServed
  <2> DEFINE r == subscribers[i]
  <2>1. r \in Records /\ txPc[r] \in {"receive", "send", "unregister", "clear"}
    BY DEF SessionInv, SessionTypeOk, TableSound, Serving
  <2>2. Live(r)
    BY <2>1, RunningIsLive DEF Running
  <2> QED
    BY <2>1, <2>2
<1> QED
  BY <1>1, SessionInvariant, PTL

\* handle_client_task frees a record only after the tx task that uses it has ended.
THEOREM TxKeepsItsRecord == SessionSpec => []TxRecordLive
<1>1. SessionInv => TxRecordLive
  BY RunningIsLive DEF TxRecordLive
<1> QED
  BY <1>1, SessionInvariant, PTL

\* With one HELLO on each connection, as snapclients send it, the socket number in a record
\* is used for somebody else's connection only between the handler's close and its
\* free_client.
THEOREM WrongSocketIsTeardown ==
  ASSUME Hellos = 1
  PROVE  SessionSpec => []WrongSocketOnlyInTeardown
<1>1. SessionInv => WrongSocketOnlyInTeardown
  <2> SUFFICES ASSUME SessionInv, NEW r \in Records, txPc[r] \in {"send", "shutdown"},
                      Reached(r) # << r[1] >>
               PROVE  hPc[r[1]] = "wait"
    BY DEF WrongSocketOnlyInTeardown
  <2> DEFINE c == r[1]
  <2>1. c \in Conns /\ hello[c] = 1 /\ r = Client(c)
    BY RecordFacts DEF SessionInv, SessionTypeOk, TxStarted, Client
  <2>2. hPc[c] \notin {"none", "receive", "queueTime", "done"}
    BY <2>1 DEF SessionInv, SocketsOwned, HandlerSteps, Reached
  <2> QED
    BY <2>1, <2>2 DEF SessionInv, SessionTypeOk
<1> QED
  BY <1>1, SessionInvariant, PTL

\* With one HELLO on each connection, nothing of it runs when its record is freed: "wait
\* for task to be deleted by itself" is wrong only of a client that says HELLO again.
THEOREM WaitsForItsTask ==
  ASSUME Hellos = 1
  PROVE  SessionSpec => []WaitsForTasks
<1>1. SessionInv => WaitsForTasks
  <2> SUFFICES ASSUME SessionInv, NEW r \in Records, hPc[r[1]] = "done"
               PROVE  txPc[r] \in {"none", "deleted"}
    BY DEF WaitsForTasks
  <2>1. r[1] \in Conns /\ r = << r[1], 1 >> /\ hello[r[1]] \in 0 .. 1
    BY RecordFacts DEF SessionInv, SessionTypeOk
  <2>2. CASE hello[r[1]] = 0
    BY <2>1, <2>2, RecordFacts DEF SessionInv, TxStarted
  <2>3. CASE hello[r[1]] = 1
    BY <2>1, <2>3 DEF SessionInv, HandlerSteps, Client
  <2> QED
    BY <2>1, <2>2, <2>3
<1> QED
  BY <1>1, SessionInvariant, PTL
=============================================================================
