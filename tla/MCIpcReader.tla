----------------------------- MODULE MCIpcReader -----------------------------
(* IpcReader on short sessions whose payloads are empty, shorter than a       *)
(* header, exactly as long, and longer by one byte.                           *)
EXTENDS IpcReader

CONSTANTS
  MaxSession,    \* bound: requests in a session
  MaxAligned,    \* bound: requests in a session of payloads as long as a header
  PayloadSizes   \* the payload lengths to try

CODE == <<67, 79, 68, 69>>
WRITE == <<87, 82, 73, 84, 69>>

\* The k-th request of a session: its payload tells it from the others and has
\* no two equal bytes, so a shift by one byte shows.
MCRequest(k, size) ==
  [channel_number |-> 256 * k + 1, namespace |-> CODE, operation |-> WRITE,
   payload |-> [i \in 1..size |-> 16 * k + i]]

MCSessions ==
  UNION { { [k \in 1..n |-> MCRequest(k, sizes[k])] : sizes \in [1..n -> PayloadSizes] } :
          n \in 0..MaxSession }
  \cup { [k \in 1..n |-> MCRequest(k, HeaderSize)] : n \in 0..MaxAligned }

=============================================================================
