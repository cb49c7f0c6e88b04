-------------------------- MODULE MCStreamControl --------------------------
(* StreamControl for TLC.                                                  *)
EXTENDS StreamControl

\* A freed chunk reads as zeros or as something else.
MCGarbage == {0, 9}
=============================================================================
