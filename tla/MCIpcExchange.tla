---------------------------- MODULE MCIpcExchange ----------------------------
(* IpcExchange on numbers and payload lengths on both sides of 8 and 16 bits, *)
(* and on memory that is zero or not.                                         *)
EXTENDS IpcExchange

CONSTANTS
  Numbers,       \* the request ids to try, some of them out of range
  PayloadSizes,  \* the payload lengths to try, some of them out of range
  Words          \* the return codes and values to try

\* A negative number passes the guard of encode.
MCNumbers == {-1, 0, 258, 65535}

\* Five different bytes, so that a shift or a swap shows.
PROC == <<80, 82, 79, 67>>
START == <<83, 84, 65, 82, 84>>

MCRequests ==
  { [channel_number |-> n, namespace |-> PROC, operation |-> START,
     payload |-> [i \in 1..size |-> i % 251]] : n \in Numbers, size \in PayloadSizes }

MCStructs ==
  { [channel_number |-> r.channel_number, namespace |-> r.namespace, operation |-> r.operation,
     payload_size |-> Len(r.payload), payload |-> r.payload] :
      r \in { r \in MCRequests : r.channel_number \in Uint16 /\ Len(r.payload) \in Uint16 } }

MCResponses == [return_code : Words, return_value : Words]

MCMalloced == { [i \in 1..TextSize |-> byte] : byte \in {0, 90} }

=============================================================================
