-------------------------- MODULE IpcExchange_proofs --------------------------
(***************************************************************************)
(* Proofs, for every request Csvm.RequestPacket.encode and celery_ipc.c    *)
(* may encode, every response and every contents of the memory, that the   *)
(* round trips of IpcExchange hold.  The steps of the protocol preserve    *)
(* IInv, which says what is on the wire; what the decoders make of that is *)
(* in the lemmas of IpcCodec_proofs.                                       *)
(***************************************************************************)
EXTENDS IpcExchange, IpcCodec_proofs

\* The request comes from whom "client" says, and is on the wire as that side
\* encodes it until it is received.
AskedInv ==
  /\ at = "idle" => client = "server"
  /\ at # "idle" /\ client = "server" => request \in Requests
  /\ at # "idle" /\ client = "vm" => request \in Structs
  /\ at = "asked" /\ client = "server" => wire = EncodeRequest(request)
  /\ at = "asked" /\ client = "vm" => wire = IpcRequestEncode(request)

\* The response answers the request that arrived.
AnsweredInv ==
  at = "answered" =>
    \E code, value \in Uint16 :
      /\ response = [channel_number |-> Uint16Of(request.channel_number),
                     return_code |-> code, return_value |-> value]
      /\ wire = EncodeResponse(response)

IInv == TypeOK /\ AskedInv /\ RequestArrives /\ AnsweredInv /\ AnswerArrives

\* The requests either side may encode.
LEMMA Asked ==
  ASSUME AskedInv, client \in {"server", "vm"}, at # "idle"
  PROVE  /\ Encodable(request)
         /\ client = "vm" => /\ Len(request.payload) \in Uint16
                             /\ request.payload_size = Len(request.payload)
  BY RequestsAssumption, StructsAssumption DEF AskedInv

\* RequestArrives in the terms of the lemmas.
LEMMA RequestArrivesIs ==
  RequestArrives <=>
    /\ at = "asked" /\ client = "vm" => DecodesRequest(wire)
    /\ at = "received" => /\ (wire # <<>>) <=> Oversized(Len(request.payload))
                          /\ Arrived(request, received)
  BY SMT DEF RequestArrives, Oversized, Arrived

\* Nothing is under way at first.
LEMMA InitIInv == Init => IInv
  BY DEF Init, IInv, TypeOK, AskedInv, RequestArrives, AnsweredInv, AnswerArrives, None

\* Every step preserves IInv.
LEMMA NextIInv == IInv /\ [Next]_vars => IInv'
<1> SUFFICES ASSUME IInv, [Next]_vars
             PROVE  IInv'
  OBVIOUS
<1> USE DEF IInv
<1>1. CASE ServerAsks
  <2>1. request' \in Requests /\ wire' = EncodeRequest(request') /\ at' = "asked" /\ client' = "server"
    BY <1>1 DEF ServerAsks, AskedInv
  <2>2. AskedInv'
    BY <2>1 DEF AskedInv
  <2>3. wire' \in Seq(Byte)
    <3>1. Encodable(request')
      BY <2>1, RequestsAssumption
    <3> DEFINE r == request'
    <3> HIDE DEF r
    <3>2. Encodable(r)
      BY <3>1 DEF r
    <3>3. EncodeRequest(r) \in Seq(Byte)
      BY <3>2, RequestBytes
    <3> QED
      BY <2>1, <3>3 DEF r
  <2>4. \A i \in DOMAIN wire' : wire'[i] \in Byte
    BY <2>3, BytesOf, Zenon
  <2>5. TypeOK'
    BY <2>1, <2>4 DEF TypeOK
  <2> QED
    BY <2>1, <2>2, <2>5 DEF RequestArrives, AnsweredInv, AnswerArrives
<1>2. CASE VmAsks
  <2>1. request' \in Structs /\ wire' = IpcRequestEncode(request') /\ at' = "asked" /\ client' = "vm"
    BY <1>2 DEF VmAsks
  <2>2. AskedInv'
    BY <2>1 DEF AskedInv
  <2>3. wire' \in Seq(Byte)
    <3>1. Encodable(request') /\ request'.payload_size = Len(request'.payload)
      BY <2>1, StructsAssumption
    <3> DEFINE r == request'
    <3> HIDE DEF r
    <3>2. Encodable(r) /\ r.payload_size = Len(r.payload)
      BY <3>1 DEF r
    <3>3. IpcRequestEncode(r) \in Seq(Byte)
      BY <3>2, RequestBytes
    <3> QED
      BY <2>1, <3>3 DEF r
  <2>4. \A i \in DOMAIN wire' : wire'[i] \in Byte
    BY <2>3, BytesOf, Zenon
  <2>5. TypeOK'
    BY <2>1, <2>4 DEF TypeOK
  <2>6. DecodesRequest(wire')
    <3>1. /\ Encodable(request') /\ request'.payload_size = Len(request'.payload)
          /\ Len(request'.payload) \in Uint16
      BY <2>1, StructsAssumption
    <3> DEFINE r == request'
    <3> HIDE DEF r
    <3>2. /\ Encodable(r) /\ r.payload_size = Len(r.payload) /\ Len(r.payload) \in Uint16
      BY <3>1 DEF r
    <3>3. DecodesRequest(IpcRequestEncode(r))
      BY <3>2, ServerGetsRequest
    <3> QED
      BY <2>1, <3>3 DEF r
  <2> QED
    BY <2>1, <2>2, <2>5, <2>6 DEF RequestArrives, AnsweredInv, AnswerArrives
<1>3. CASE VmReceives
  <2>1. /\ at = "asked" /\ client = "server" /\ at' = "received" /\ client' = "server"
        /\ request' = request /\ wire = EncodeRequest(request) /\ Encodable(request)
    BY <1>3, Asked DEF VmReceives, AskedInv
  <2>2. PICK fresh \in Malloced : struct' = DecodeHeader(SubSeq(wire, 1, HeaderSize), fresh)
    BY <1>3 DEF VmReceives
  <2>3. fresh \in [1..TextSize -> Byte]
    BY MallocedAssumption
  <2>4. /\ received' = AsRequest(struct', SubSeq(wire, HeaderSize + 1, HeaderSize + struct'.payload_size))
        /\ wire' = SubSeq(wire, HeaderSize + struct'.payload_size + 1, Len(wire))
    BY <1>3 DEF VmReceives
  <2>5. /\ Arrived(request, received')
        /\ wire' \in Seq(Byte)
        /\ (wire' # <<>>) <=> Oversized(Len(request.payload))
    BY <2>1, <2>2, <2>3, <2>4, VmGetsRequest
  <2>6. RequestArrives'
    BY <2>1, <2>5, SMT DEF RequestArrives, Oversized, Arrived
  <2>7. received'.channel_number \in Uint16 /\ Len(received'.payload) \in Uint16
    BY <2>1, <2>5, ArrivedTyped
  <2>8. \A i \in DOMAIN wire' : wire'[i] \in Byte
    BY <2>5, BytesOf, Zenon
  <2>9. TypeOK'
    BY <2>1, <2>7, <2>8 DEF TypeOK
  <2>10. AskedInv'
    BY <2>1 DEF AskedInv
  <2> QED
    BY <2>1, <2>6, <2>9, <2>10 DEF AnsweredInv, AnswerArrives
<1>4. CASE ServerReceives
  <2>1. /\ at = "asked" /\ client = "vm" /\ at' = "received" /\ client' = "vm"
        /\ request' = request /\ wire = IpcRequestEncode(request) /\ wire' = <<>>
        /\ received' = DecodeRequest(wire)
    BY <1>4 DEF ServerReceives, AskedInv
  <2>2. /\ Encodable(request)
        /\ Len(request.payload) \in Uint16
        /\ request.payload_size = Len(request.payload)
    BY <2>1, Asked
  <2>3. Arrived(request, received')
    BY <2>1, <2>2, ServerGetsRequest
  <2>4. ~Oversized(Len(request.payload))
    BY <2>2, SixteenBits, SMT DEF Oversized
  <2>5. RequestArrives'
    BY <2>1, <2>3, <2>4, SMT DEF RequestArrives, Oversized, Arrived
  <2>6. received'.channel_number \in Uint16 /\ Len(received'.payload) \in Uint16
    BY <2>2, <2>3, ArrivedTyped
  <2>7. TypeOK'
    BY <2>1, <2>6 DEF TypeOK
  <2>8. AskedInv'
    BY <2>1 DEF AskedInv
  <2> QED
    BY <2>1, <2>5, <2>7, <2>8 DEF AnsweredInv, AnswerArrives
<1>5. CASE Answer
  <2>1. /\ at = "received" /\ at' = "answered" /\ UNCHANGED <<client, request, received>>
        /\ wire' = EncodeResponse(response')
    BY <1>5 DEF Answer
  <2>2. PICK r \in Responses :
          response' = [channel_number |-> received.channel_number,
                       return_code |-> r.return_code, return_value |-> r.return_value]
    BY <1>5 DEF Answer
  <2>3. r.return_code \in Uint16 /\ r.return_value \in Uint16
    BY ResponsesAssumption
  <2>4. received.channel_number = Uint16Of(request.channel_number)
    BY <2>1, RequestArrivesIs DEF Arrived
  <2>5. received.channel_number \in Uint16 /\ Len(received.payload) \in Uint16
    BY <2>1 DEF TypeOK
  <2>6. wire' \in Seq(Byte) /\ DecodesResponse(wire')
    BY <2>1, <2>2, <2>3, <2>5, ResponseRoundTrip
  <2>7. \A i \in DOMAIN wire' : wire'[i] \in Byte
    BY <2>6, BytesOf, Zenon
  <2>8. TypeOK'
    BY <2>1, <2>5, <2>7 DEF TypeOK
  <2>9. AnsweredInv'
    BY <2>1, <2>2, <2>3, <2>4 DEF AnsweredInv
  <2>10. AskedInv'
    BY <2>1 DEF AskedInv
  <2> QED
    BY <2>1, <2>6, <2>8, <2>9, <2>10 DEF RequestArrives, AnswerArrives
<1>6. ASSUME at = "answered", at' = "concluded", answer' = DecodeResponse(wire),
             UNCHANGED <<client, request, wire, received, response>>
      PROVE  IInv'
  <2>1. PICK code \in Uint16, value \in Uint16 :
          /\ response = [channel_number |-> Uint16Of(request.channel_number),
                         return_code |-> code, return_value |-> value]
          /\ wire = EncodeResponse(response)
    BY <1>6 DEF AnsweredInv
  <2>2. Uint16Of(request.channel_number) \in Uint16
    <3>1. client \in {"server", "vm"} /\ at # "idle"
      BY <1>6 DEF TypeOK
    <3>2. Encodable(request)
      BY <3>1, Asked
    <3> QED
      BY <3>2, NumberTyped
  <2>3. answer' = response
    BY <1>6, <2>1, <2>2, ResponseRoundTrip
  <2>4. AnswerArrives'
    BY <1>6, <2>1, <2>3 DEF AnswerArrives
  <2>5. answer'.return_code \in Uint16 /\ answer'.return_value \in Uint16
    BY <2>1, <2>3
  <2>6. TypeOK'
    BY <1>6, <2>5 DEF TypeOK
  <2>7. AskedInv'
    BY <1>6 DEF AskedInv
  <2> QED
    BY <1>6, <2>4, <2>6, <2>7 DEF RequestArrives, AnsweredInv
<1>7. CASE ServerConcludes
  BY <1>6, <1>7 DEF ServerConcludes
<1>8. CASE VmConcludes
  BY <1>6, <1>8 DEF VmConcludes
<1>9. CASE UNCHANGED vars
  BY <1>9 DEF vars, TypeOK, AskedInv, RequestArrives, AnsweredInv, AnswerArrives
<1> QED
  BY <1>1, <1>2, <1>3, <1>4, <1>5, <1>7, <1>8, <1>9 DEF Next

\* At every point of an exchange the wire holds what the last encoder made of what
\* it was given.
THEOREM Inductive == Spec => []IInv
  BY InitIInv, NextIInv, PTL DEF Spec

\* The types of IpcExchange hold, for every set of requests and responses.
THEOREM TypeCorrect == Spec => []TypeOK
<1>1. IInv => TypeOK
  BY DEF IInv
<1> QED
  BY <1>1, Inductive, PTL

\* Every request RequestPacket.encode or ipc_request_encode takes is received as it
\* was sent but for what 16 bits do not hold, into any memory.
THEOREM RequestRoundTrip == Spec => []RequestArrives
<1>1. IInv => RequestArrives
  BY DEF IInv
<1> QED
  BY <1>1, Inductive, PTL

\* Every response of 16-bit numbers is decoded as it was given, under the number
\* of its request.
THEOREM AnswerRoundTrip == Spec => []AnswerArrives
<1>1. IInv => AnswerArrives
  BY DEF IInv
<1> QED
  BY <1>1, Inductive, PTL

=============================================================================
