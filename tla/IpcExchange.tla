----------------------------- MODULE IpcExchange -----------------------------
(***************************************************************************)
(* One request and its response on the wire, in either direction as        *)
(* specifications.md allows.  The Elixir side (RequestPacket and           *)
(* ResponsePacket) and the VM (celery_ipc.c) each encode what the other    *)
(* decodes.  The VM reads with get_request (main.c), a header and then the *)
(* bytes it announces; populate_buffer, which took its place, is the       *)
(* subject of IpcReader.                                                   *)
(***************************************************************************)
EXTENDS IpcCodec

CONSTANTS
  Requests,    \* the requests the Elixir side may encode
  Structs,     \* the requests the VM may encode: celery_ipc_request_t
  Responses,   \* the return codes and values to try
  Malloced     \* the contents a piece of new memory may have

ASSUME RequestsAssumption == \A request \in Requests : Encodable(request)
ASSUME StructsAssumption == \A struct \in Structs :
  /\ Encodable(struct)
  /\ struct.channel_number \in Uint16
  /\ struct.payload_size \in Uint16
  /\ struct.payload_size = Len(struct.payload)
ASSUME ResponsesAssumption == \A response \in Responses :
  response.return_code \in Uint16 /\ response.return_value \in Uint16
ASSUME MallocedAssumption == Malloced \subseteq [1..TextSize -> Byte]

VARIABLES
  at,         \* "idle", then "asked", "received", "answered", "concluded"
  client,     \* who asks: "server" for the Elixir side, "vm"
  request,    \* the request as it was given to the encoder
  wire,       \* the bytes under way
  struct,     \* what ipc_request_decode_header made of the header
  received,   \* the request as the other side decoded it
  response,   \* the response as it was given to the encoder
  answer      \* the response as it was decoded

vars == <<at, client, request, wire, struct, received, response, answer>>

None == <<>>

Init == /\ at = "idle"
        /\ client = "server"
        /\ request = None
        /\ wire = <<>>
        /\ struct = None
        /\ received = None
        /\ response = None
        /\ answer = None

ServerAsks ==
  /\ at = "idle"
  /\ request' \in Requests
  /\ wire' = EncodeRequest(request')
  /\ at' = "asked"
  /\ UNCHANGED <<client, struct, received, response, answer>>

VmAsks ==
  /\ at = "idle"
  /\ request' \in Structs
  /\ wire' = IpcRequestEncode(request')
  /\ client' = "vm"
  /\ at' = "asked"
  /\ UNCHANGED <<struct, received, response, answer>>

\* get_request: the bytes the header announces are the payload, the rest stays.
VmReceives ==
  /\ at = "asked"
  /\ client = "server"
  /\ \E fresh \in Malloced : struct' = DecodeHeader(SubSeq(wire, 1, HeaderSize), fresh)
  /\ LET end == HeaderSize + struct'.payload_size
     IN /\ received' = AsRequest(struct', SubSeq(wire, HeaderSize + 1, end))
        /\ wire' = SubSeq(wire, end + 1, Len(wire))
  /\ at' = "received"
  /\ UNCHANGED <<client, request, response, answer>>

ServerReceives ==
  /\ at = "asked"
  /\ client = "vm"
  /\ DecodesRequest(wire)
  /\ received' = DecodeRequest(wire)
  /\ wire' = <<>>
  /\ at' = "received"
  /\ UNCHANGED <<client, request, struct, response, answer>>

\* Both encoders make the same bytes of 16-bit numbers.
Answer ==
  /\ at = "received"
  /\ \E r \in Responses :
       response' = [channel_number |-> received.channel_number,
                    return_code |-> r.return_code, return_value |-> r.return_value]
  /\ wire' = EncodeResponse(response')
  /\ at' = "answered"
  /\ UNCHANGED <<client, request, struct, received, answer>>

ServerConcludes ==
  /\ at = "answered"
  /\ client = "server"
  /\ DecodesResponse(wire)
  /\ answer' = DecodeResponse(wire)
  /\ at' = "concluded"
  /\ UNCHANGED <<client, request, wire, struct, received, response>>

VmConcludes ==
  /\ at = "answered"
  /\ client = "vm"
  /\ answer' = DecodeResponse(wire)
  /\ at' = "concluded"
  /\ UNCHANGED <<client, request, wire, struct, received, response>>

Next == \/ ServerAsks \/ VmAsks
        \/ VmReceives \/ ServerReceives
        \/ Answer
        \/ ServerConcludes \/ VmConcludes

Spec == Init /\ [][Next]_vars

-----------------------------------------------------------------------------
(* Properties *)

TypeOK ==
  /\ at \in {"idle", "asked", "received", "answered", "concluded"}
  /\ client \in {"server", "vm"}
  /\ request \in Requests \cup Structs \cup {None}
  /\ \A i \in DOMAIN wire : wire[i] \in Byte
  /\ at \in {"received", "answered", "concluded"} =>
       received.channel_number \in Uint16 /\ Len(received.payload) \in Uint16
  /\ at = "concluded" => answer.return_code \in Uint16 /\ answer.return_value \in Uint16

\* A request is received as it was sent, whatever the memory it is decoded into
\* held before and although both terminators are stored past their places; but
\* its number and the length of its payload are those of 16 bits, and the bytes
\* behind that length, which encode does not bound, are left on the wire.  The
\* pattern of RequestPacket.decode takes whatever the VM encodes.
RequestArrives ==
  /\ at = "asked" /\ client = "vm" => DecodesRequest(wire)
  /\ at = "received" =>
       /\ (wire # <<>>) <=> (Len(request.payload) > 65535)
       /\ received = [channel_number |-> Uint16Of(request.channel_number),
                      namespace      |-> request.namespace,
                      operation      |-> request.operation,
                      payload        |-> SubSeq(request.payload, 1, Uint16Of(Len(request.payload)))]

\* The client can tell the response to its request by the number, and reads the
\* code and the value that were given; the pattern of ResponsePacket.decode takes
\* every response.
AnswerArrives ==
  /\ at = "answered" => DecodesResponse(wire)
  /\ at = "concluded" => /\ answer = response
                         /\ answer.channel_number = Uint16Of(request.channel_number)

\* "Add char for null byte": the arrays of the struct hold terminated strings.
\* They need not: the terminators are stored one past that char, and the first
\* of them is overwritten.
Terminated ==
  at = "received" /\ client = "server" =>
    /\ struct.text[NAMESPACE + NAMESPACE_SIZE] = 0
    /\ struct.text[OPERATION + OPERATION_SIZE] = 0

=============================================================================
