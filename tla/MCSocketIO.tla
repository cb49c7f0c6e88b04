----------------------------- MODULE MCSocketIO -----------------------------
(* SocketIO for TLC.                                                       *)
EXTENDS SocketIO, TLC

\* Beside HELLO and TIME the client sends a message of a type that the server has not
\* heard of, as later snapclients do.
ClientInfo == STREAM_TAGS + 1
MCBodySize == HELLO :> 1 @@ TIME :> 1 @@ ClientInfo :> 1

\* The header and a chunk are longer than what is left of the buffer at times.
MCLength == [k \in Answers |-> IF k = SERVER_SETTINGS THEN 1 ELSE 2]

MCUndefined == { [type |-> HELLO, size |-> 1] }
=============================================================================
