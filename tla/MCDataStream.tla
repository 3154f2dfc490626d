---------------------------- MODULE MCDataStream ----------------------------
(***************************************************************************)
(* Streams for DataStream: two messages of one direction back to back,     *)
(* optionally behind a stray byte (the tail of an earlier message or a     *)
(* lost chunk), delivered as one chunk or split into two at any offset.    *)
(***************************************************************************)
EXTENDS DataStream

GetReq     == <<"GET /x", "Host: h", Marker>>
PostReq    == <<"POST /x", "Content-Length: 1", Marker, Byte>>
PostZero   == <<"POST /x", "Content-Length: 0", Marker>>
PostBoth   == <<"POST /x", "Content-Length: 1", "Transfer-Encoding: gzip", Marker, Byte>>
PatchReq   == <<"PATCH /x", Marker>>
OkResp     == <<"HTTP/1.1 200", "Content-Length: 2", Marker, Byte, Byte>>
NoContent  == <<"HTTP/1.1 204", Marker>>
Upgrade    == <<"HTTP/1.1 101", Marker>>
OldResp    == <<"HTTP/1.0 200", Marker>>

Requests  == {GetReq, PostReq, PostZero, PostBoth, PatchReq}
Responses == {OkResp, NoContent, Upgrade, OldResp}

(* A byte sequence delivered as one chunk or as two non-empty chunks. *)
Deliveries(bytes) ==
    {<<bytes>>} \cup {<<SubSeq(bytes, 1, k), SubSeq(bytes, k + 1, Len(bytes))>> :
                        k \in 1..Len(bytes) - 1}

StreamsOf(type, msgs) ==
    UNION {{[type |-> type, chunks |-> d] : d \in Deliveries(pre \o m1 \o m2)} :
             pre \in {<<>>, <<Byte>>}, m1 \in msgs, m2 \in msgs}

MCStreams == StreamsOf(MESSAGE_REQUEST, Requests) \cup StreamsOf(MESSAGE_RESPONSE, Responses)

(* The scenario streams of the design: a complete message first. *)
MCScenarioStreams ==
    {[type |-> MESSAGE_REQUEST, chunks |-> <<GetReq>>],
     [type |-> MESSAGE_RESPONSE, chunks |-> <<OkResp>>]}
=============================================================================
