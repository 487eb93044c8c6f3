------------------------------ MODULE IpcCodec ------------------------------
(***************************************************************************)
(* The packets the Elixir side and the VM exchange, byte by byte:          *)
(* Csvm.RequestPacket and Csvm.ResponsePacket on one end, celery_ipc.c on  *)
(* the other.  A byte is 0..255, a packet a sequence of bytes; ASCII text  *)
(* is its bytes.                                                           *)
(***************************************************************************)
EXTENDS Integers, Sequences

NAMESPACE_SIZE == 4
OPERATION_SIZE == 5

Byte == 0..255
Uint16 == 0..(2^16 - 1)
CRLF == <<13, 10>>

\* What 16 bits hold of a number.
Uint16Of(number) == number % 65536

\* Mutant: the mask is forgotten.
NthByteUnmasked(number, n) == number \div 256^n

\* (number >> (8*n)) & 0xff
NthByte(number, n) == (number \div 256^n) % 256

BigEndian(number) == <<NthByte(number, 1), NthByte(number, 0)>>

\* ntohs of two bytes as they lie in memory.
Ntohs(bytes) == 256 * bytes[1] + bytes[2]

HeaderSize == 2 + NAMESPACE_SIZE + OPERATION_SIZE + 2 + Len(CRLF)

-----------------------------------------------------------------------------
(* Requests *)

\* The types of RequestPacket, and of the fields of celery_ipc_request_t.
Request == [channel_number : Uint16, namespace : Seq(Byte), operation : Seq(Byte),
            payload : Seq(Byte)]

\* What RequestPacket.encode/4 accepts, binaries and an integer: the guard bounds
\* that from above only.
Encodable(request) ==
  /\ request.channel_number \in Int
  /\ request.channel_number <= 65535
  /\ {request.namespace, request.operation, request.payload} \subseteq Seq(Byte)
  /\ Len(request.namespace) = NAMESPACE_SIZE
  /\ Len(request.operation) = OPERATION_SIZE

\* Mutant: the length of the payload is written in one byte.
EncodeRequestByteSize(request) ==
  BigEndian(request.channel_number) \o request.namespace \o request.operation
    \o <<0, NthByte(Len(request.payload), 0)>> \o CRLF \o request.payload

\* RequestPacket.encode/4: both integers are truncated to 16 bits.
EncodeRequest(request) ==
  BigEndian(request.channel_number) \o request.namespace \o request.operation
    \o BigEndian(Len(request.payload)) \o CRLF \o request.payload

\* RequestPacket.decode: one clause, for exactly one whole packet.
DecodesRequest(packet) ==
  /\ Len(packet) >= HeaderSize
  /\ SubSeq(packet, HeaderSize - 1, HeaderSize) = CRLF
  /\ Len(packet) - HeaderSize = Ntohs(SubSeq(packet, 12, 13))

DecodeRequest(packet) ==
  [channel_number |-> Ntohs(SubSeq(packet, 1, 2)),
   namespace      |-> SubSeq(packet, 3, 6),
   operation      |-> SubSeq(packet, 7, 11),
   payload        |-> SubSeq(packet, HeaderSize + 1, Len(packet))]

\* ipc_request_encode: both integers are uint16_t fields of the struct.
IpcRequestEncode(struct) ==
  BigEndian(struct.channel_number) \o struct.namespace \o struct.operation
    \o BigEndian(struct.payload_size) \o CRLF \o SubSeq(struct.payload, 1, struct.payload_size)

\* The bytes stored at an offset (from 1) of a piece of memory.
Store(memory, offset, bytes) ==
  [i \in DOMAIN memory |->
     IF i \in offset..(offset + Len(bytes) - 1) THEN bytes[i - offset + 1] ELSE memory[i]]

\* The two char arrays of celery_ipc_request_t and the padding byte after them
\* lie next to each other: namespace[5] is operation[0], operation[6] is padding.
NAMESPACE == 1
OPERATION == NAMESPACE + NAMESPACE_SIZE + 1
TextSize == OPERATION + OPERATION_SIZE + 1

\* Mutant: the namespace is terminated after the operation was copied.
DecodeHeaderTerminatedLate(header, fresh) ==
  LET namespaceCopied  == Store(fresh, NAMESPACE, SubSeq(header, 3, 6))
      operationCopied  == Store(namespaceCopied, OPERATION, SubSeq(header, 7, 11))
      namespaceEnded   == Store(operationCopied, NAMESPACE + NAMESPACE_SIZE + 1, <<0>>)
  IN [channel_number |-> Ntohs(SubSeq(header, 1, 2)),
      text           |-> namespaceEnded,
      payload_size   |-> Ntohs(SubSeq(header, 12, 13))]

\* ipc_request_decode_header into malloc'ed memory with the contents "fresh".
\* Both terminators are stored one past the element reserved for them; the
\* first is overwritten by the operation, because that is copied afterwards.
DecodeHeader(header, fresh) ==
  LET namespaceCopied  == Store(fresh, NAMESPACE, SubSeq(header, 3, 6))
      namespaceEnded   == Store(namespaceCopied, NAMESPACE + NAMESPACE_SIZE + 1, <<0>>)
      operationCopied  == Store(namespaceEnded, OPERATION, SubSeq(header, 7, 11))
      operationEnded   == Store(operationCopied, OPERATION + OPERATION_SIZE + 1, <<0>>)
  IN [channel_number |-> Ntohs(SubSeq(header, 1, 2)),
      text           |-> operationEnded,
      payload_size   |-> Ntohs(SubSeq(header, 12, 13))]

\* The arrays without their terminators.
NamespaceOf(struct) == SubSeq(struct.text, NAMESPACE, NAMESPACE + NAMESPACE_SIZE - 1)
OperationOf(struct) == SubSeq(struct.text, OPERATION, OPERATION + OPERATION_SIZE - 1)

\* The request a decoded header and the payload bytes after it stand for.
AsRequest(struct, payload) ==
  [channel_number |-> struct.channel_number,
   namespace      |-> NamespaceOf(struct),
   operation      |-> OperationOf(struct),
   payload        |-> payload]

-----------------------------------------------------------------------------
(* Responses: channel number, return code and return value *)

ResponseSize == 2 + 2 + 2 + Len(CRLF)

\* Mutant: the bytes of the return value change places.
EncodeResponseSwapped(response) ==
  BigEndian(response.channel_number) \o BigEndian(response.return_code)
    \o <<NthByte(response.return_value, 0), NthByte(response.return_value, 1)>> \o CRLF

\* ipc_response_encode, and ResponsePacket.encode, which truncates to 16 bits.
EncodeResponse(response) ==
  BigEndian(response.channel_number) \o BigEndian(response.return_code)
    \o BigEndian(response.return_value) \o CRLF

\* ipc_response_decode, which does not look at the line end.
DecodeResponse(packet) ==
  [channel_number |-> Ntohs(SubSeq(packet, 1, 2)),
   return_code    |-> Ntohs(SubSeq(packet, 3, 4)),
   return_value   |-> Ntohs(SubSeq(packet, 5, 6))]

\* ResponsePacket.decode: one clause, for exactly one response.
DecodesResponse(packet) ==
  /\ Len(packet) = ResponseSize
  /\ SubSeq(packet, ResponseSize - 1, ResponseSize) = CRLF

=============================================================================
