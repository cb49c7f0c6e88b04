-------------------------- MODULE MCWireChunkFifo --------------------------
(* Small instances of WireChunkFifo.  The real fifo has 20 slots of 26 ms   *)
(* and a buffer of 500 ms: as here, the slots just cover the buffer.        *)
EXTENDS WireChunkFifo

MCGarbage == {0, 9}
=============================================================================
