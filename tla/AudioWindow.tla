---------------------------- MODULE AudioWindow ----------------------------
(***************************************************************************)
(* What the wire chunk fifo promises to the clients that play from it: a   *)
(* sliding window over the encoded stream.  Chunks enter at the young end  *)
(* in the order they were encoded, each one block after its predecessor;   *)
(* they leave at the old end, one at a time, no earlier than one block     *)
(* before their life is over; the window never exceeds its size and, once  *)
(* the stream has started, never becomes empty.                            *)
(*                                                                         *)
(* WireChunkFifo implements this specification.                            *)
(***************************************************************************)
EXTENDS Integers, Sequences

CONSTANTS
  Size,   \* the most chunks the window holds
  Step,   \* the duration of one chunk
  Life,   \* how long a chunk stays useful after its timestamp
  Ahead   \* how far in the future the first chunk may be stamped

VARIABLES
  window, \* the chunks, oldest first, each a record [id, ts]
  clock   \* the server's time

Init ==
  /\ window = <<>>
  /\ clock = 0

\* The stream starts: its first chunk is stamped at most Ahead from now.
Start ==
  /\ window = <<>>
  /\ \E stamp \in 0 .. clock + Ahead : window' = << [id |-> 1, ts |-> stamp] >>
  /\ UNCHANGED clock

\* The next chunk follows its predecessor without a gap.
Extend ==
  /\ window # <<>>
  /\ Len(window) < Size
  /\ LET newest == window[Len(window)]
     IN  window' = Append(window, [id |-> newest.id + 1, ts |-> newest.ts + Step])
  /\ UNCHANGED clock

\* The oldest chunk goes, and it is not the only one.
Drop ==
  /\ Len(window) > 1
  /\ clock >= Head(window).ts + Life - Step
  /\ window' = Tail(window)
  /\ UNCHANGED clock

Advance ==
  /\ clock' \in Nat
  /\ clock' > clock
  /\ UNCHANGED window

Next == Start \/ Extend \/ Drop \/ Advance

Spec == Init /\ [][Next]_<<window, clock>>
=============================================================================
