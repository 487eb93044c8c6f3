------------------------------ MODULE IpcReader ------------------------------
(***************************************************************************)
(* populate_buffer (c_src/main.c) as a reader of the request stream: the   *)
(* private byte buffer, the count of bytes it waits for and the two reader *)
(* states.  Storing a complete request in the shared slot is one step here *)
(* (its own steps are in IpcBuffer); the request joins "published".        *)
(*                                                                         *)
(* stdin holds the packets RequestPacket.encode makes of a session.  Once  *)
(* the port is closed and drained, getchar returns EOF, which the code     *)
(* stores as the byte 255.                                                 *)
(***************************************************************************)
EXTENDS IpcCodec, SequencesExt

CONSTANTS
  Sessions,      \* the sequences of requests a peer may send
  MaxPublished   \* bound: the model stops after that many requests

\* The lengths of payloads fit the header's field; IpcExchange has longer ones.
ASSUME SessionsAssumption ==
  \A session \in Sessions :
    /\ session \in Seq(Request)
    /\ \A i \in 1..Len(session) : /\ Encodable(session[i])
                                  /\ Len(session[i].payload) \in Uint16
ASSUME MaxPublishedAssumption == MaxPublished \in Nat

VARIABLES
  sent,                    \* the session
  stdin,                   \* bytes not read yet
  closed,                  \* has the port closed the pipe
  buffer,                  \* HeaderSize bytes of malloc'ed memory
  number_of_bytes_read,    \* also the offset of the write cursor in buffer
  number_of_bytes_needed,
  reader,                  \* RIPC_REQUEST_HEADER or RIPC_REQUEST_PAYLOAD
  data,                    \* the header decoded last
  published,               \* history: the requests handed on
  overran                  \* a byte was stored past the end of buffer

vars == <<sent, stdin, closed, buffer, number_of_bytes_read,
          number_of_bytes_needed, reader, data, published, overran>>

\* sizeof(number_of_bytes_needed), which is what the memset clears.
SIZE_T == 8

\* The bytes of a session on the wire.
Wire(session) == FlattenSeq([i \in 1..Len(session) |-> EncodeRequest(session[i])])

Fresh == [i \in 1..TextSize |-> 0]

Init == /\ sent \in Sessions
        /\ stdin = Wire(sent)
        /\ closed = FALSE
        /\ buffer = [i \in 1..HeaderSize |-> 0]
        /\ number_of_bytes_read = 0
        /\ number_of_bytes_needed = HeaderSize
        /\ reader = "RIPC_REQUEST_HEADER"
        /\ data = <<>>
        /\ published = <<>>
        /\ overran = FALSE

\* getchar(): blocks on an open, empty pipe.
GetChar(byte) ==
  \/ /\ stdin # <<>>
     /\ byte = Head(stdin)
     /\ stdin' = Tail(stdin)
  \/ /\ stdin = <<>>
     /\ closed
     /\ byte = 255
     /\ UNCHANGED stdin

ReadByte ==
  /\ ~overran
  /\ number_of_bytes_read # number_of_bytes_needed
  /\ \E byte \in Byte :
       /\ GetChar(byte)
       /\ IF number_of_bytes_read < HeaderSize
          THEN /\ buffer' = [buffer EXCEPT ![number_of_bytes_read + 1] = byte]
               /\ UNCHANGED overran
          ELSE \* the memory after buffer is not ours: anything may follow
               /\ overran' = TRUE
               /\ UNCHANGED buffer
  /\ number_of_bytes_read' = number_of_bytes_read + 1
  /\ UNCHANGED <<sent, closed, number_of_bytes_needed, reader, data, published>>

\* The end of the loop body: the first SIZE_T bytes are cleared, the cursor
\* and the count go back to the start.
Rewind ==
  /\ buffer' = Store(buffer, 1, [i \in 1..SIZE_T |-> 0])
  /\ number_of_bytes_read' = 0

\* Mutant: one byte too many is asked for.
GotHeaderOffByOne ==
  /\ ~overran
  /\ number_of_bytes_read = number_of_bytes_needed
  /\ reader = "RIPC_REQUEST_HEADER"
  /\ data' = DecodeHeader(buffer, Fresh)
  /\ number_of_bytes_needed' = data'.payload_size + 1
  /\ reader' = "RIPC_REQUEST_PAYLOAD"
  /\ Rewind
  /\ UNCHANGED <<sent, stdin, closed, published, overran>>

GotHeader ==
  /\ ~overran
  /\ number_of_bytes_read = number_of_bytes_needed
  /\ reader = "RIPC_REQUEST_HEADER"
  /\ data' = DecodeHeader(buffer, Fresh)
  /\ number_of_bytes_needed' = data'.payload_size
  /\ reader' = "RIPC_REQUEST_PAYLOAD"
  /\ Rewind
  /\ UNCHANGED <<sent, stdin, closed, published, overran>>

\* Mutants: the header is taken to be the next thing again without a rewind;
\* the reader state is left at the payload; the buffer is cleared too early.
GotPayloadNoRewind ==
  /\ ~overran
  /\ number_of_bytes_read = number_of_bytes_needed
  /\ reader = "RIPC_REQUEST_PAYLOAD"
  /\ Len(published) < MaxPublished
  /\ published' = Append(published, AsRequest(data, SubSeq(buffer, 1, data.payload_size)))
  /\ reader' = "RIPC_REQUEST_HEADER"
  /\ UNCHANGED <<sent, stdin, closed, buffer, number_of_bytes_read,
                 number_of_bytes_needed, data, overran>>

GotPayloadStateKept ==
  /\ ~overran
  /\ number_of_bytes_read = number_of_bytes_needed
  /\ reader = "RIPC_REQUEST_PAYLOAD"
  /\ Len(published) < MaxPublished
  /\ published' = Append(published, AsRequest(data, SubSeq(buffer, 1, data.payload_size)))
  /\ Rewind
  /\ UNCHANGED <<sent, stdin, closed, reader, number_of_bytes_needed, data, overran>>

GotPayloadCleared ==
  /\ ~overran
  /\ number_of_bytes_read = number_of_bytes_needed
  /\ reader = "RIPC_REQUEST_PAYLOAD"
  /\ Len(published) < MaxPublished
  /\ Rewind
  /\ published' = Append(published, AsRequest(data, SubSeq(buffer', 1, data.payload_size)))
  /\ reader' = "RIPC_REQUEST_HEADER"
  /\ UNCHANGED <<sent, stdin, closed, number_of_bytes_needed, data, overran>>

\* The count of bytes needed is not set back to the size of a header.
GotPayload ==
  /\ ~overran
  /\ number_of_bytes_read = number_of_bytes_needed
  /\ reader = "RIPC_REQUEST_PAYLOAD"
  /\ Len(published) < MaxPublished
  /\ published' = Append(published, AsRequest(data, SubSeq(buffer, 1, data.payload_size)))
  /\ reader' = "RIPC_REQUEST_HEADER"
  /\ Rewind
  /\ UNCHANGED <<sent, stdin, closed, number_of_bytes_needed, data, overran>>

\* The Elixir side closes the port; what is in the pipe can still be read.
ClosePort ==
  /\ ~closed
  /\ closed' = TRUE
  /\ UNCHANGED <<sent, stdin, buffer, number_of_bytes_read,
                 number_of_bytes_needed, reader, data, published, overran>>

PopulateBuffer == ReadByte \/ GotHeader \/ GotPayload

Next == PopulateBuffer \/ ClosePort

Spec == Init /\ [][Next]_vars

\* The OS runs the thread; nothing makes the peer close the port.
FairSpec == Spec /\ WF_vars(PopulateBuffer)

-----------------------------------------------------------------------------
(* Properties *)

TypeOK ==
  /\ sent \in Sessions
  /\ stdin \in Seq(Byte)
  /\ closed \in BOOLEAN
  /\ buffer \in [1..HeaderSize -> Byte]
  /\ number_of_bytes_needed \in Uint16
  /\ number_of_bytes_read \in 0..(HeaderSize + 1)
  /\ number_of_bytes_read <= number_of_bytes_needed
  /\ reader \in {"RIPC_REQUEST_HEADER", "RIPC_REQUEST_PAYLOAD"}
  /\ reader = "RIPC_REQUEST_PAYLOAD" =>
       /\ data \in [channel_number : Uint16, text : [1..TextSize -> Byte], payload_size : Uint16]
       /\ number_of_bytes_needed = data.payload_size
  /\ published \in Seq(Request)
  /\ Len(published) <= MaxPublished
  /\ overran \in BOOLEAN

\* Do the first n requests have payloads exactly as long as a header?
Aligned(n) ==
  n <= Len(sent) /\ \A i \in 1..n : Len(sent[i].payload) = HeaderSize

\* A request comes out as it was sent as long as every payload before it was
\* exactly as long as a header: number_of_bytes_needed is never set back, so
\* that length is also what the next header is read with.
FramedWhileAligned ==
  \A k \in 1..Len(published) :
    Aligned(k - 1) => k <= Len(sent) /\ published[k] = sent[k]

\* populate_buffer stores past its 15-byte buffer only if some payload differed
\* in length from a header, or once the pipe is at end of file: then the 255s
\* getchar leaves behind are a header announcing 65535 bytes.
OverrunExplained ==
  overran => \/ closed /\ stdin = <<>>
             \/ ~Aligned(Len(sent))

\* The bytes read are accounted for: while every payload is as long as a
\* header, what was taken off stdin is the requests handed on, the header
\* decoded last and the bytes of the current piece, and the rest is unread.
NothingSkipped ==
  Aligned(Len(sent)) /\ (stdin # <<>> \/ ~closed) =>
    Len(Wire(sent)) - Len(stdin) =
      2 * HeaderSize * Len(published) + number_of_bytes_read
        + (IF reader = "RIPC_REQUEST_PAYLOAD" THEN HeaderSize ELSE 0)

\* A session of payloads as long as a header comes out whole.
AlignedDelivered == Aligned(Len(sent)) ~> (published = sent)

\* Framing as specifications.md states it.  It holds for sessions whose
\* payloads are as long as a header, and fails for others.
Stream == INSTANCE RequestStream
FramingFollowsHeader == Stream!Spec

=============================================================================
