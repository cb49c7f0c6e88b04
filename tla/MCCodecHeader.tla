--------------------------- MODULE MCCodecHeader ---------------------------
(* CodecHeader for TLC.                                                    *)
EXTENDS CodecHeader

\* The magic, the stream info, the tags and the padding.
MCEnds == << 4, 42, 123, 1361 >>
=============================================================================
