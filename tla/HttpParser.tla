----------------------------- MODULE HttpParser -----------------------------
(***************************************************************************)
(* The HTTP/1.x frame parser of l7probe                                    *)
(* (l7probe/protocol/http1.x/parser/http_parser.c), as operators over a    *)
(* buffer.                                                                 *)
(*                                                                         *)
(* Bytes are abstracted to tokens.  A token is one unit of length: a start *)
(* line ("GET /x", "HTTP/1.1 200"), one header line, the blank-line marker *)
(* "\r\n\r\n" or one byte of anything else ("b").  Offsets, header block   *)
(* lengths and Content-Length values count tokens, so the cursor           *)
(* arithmetic of the code (current_pos, offset, data_len) is kept as it    *)
(* is written.  size_t arithmetic is kept modulo 2^SizeWidth: every        *)
(* comparison the code makes gives the same result for any width larger   *)
(* than the buffers, so a small width is exact here.                       *)
(*                                                                         *)
(* A parse returns a set of outcomes: the code has undefined behaviour     *)
(* (uninitialised pointers dereferenced) on some paths, and the outcome is *)
(* then a choice between a crash of the probe and carrying on.             *)
(***************************************************************************)
EXTENDS Integers, Sequences, FiniteSets, TLC

(* parse_state_t *)
SUCCESS         == "STATE_SUCCESS"
INVALID         == "STATE_INVALID"
NEEDS_MORE_DATA == "STATE_NEEDS_MORE_DATA"
IGNORE          == "STATE_IGNORE"
EOS             == "STATE_EOS"
NOT_FOUND       == "STATE_NOT_FOUND"
UNKNOWN         == "STATE_UNKNOWN"
ParseStates == {SUCCESS, INVALID, NEEDS_MORE_DATA, IGNORE, EOS, NOT_FOUND, UNKNOWN}

MESSAGE_REQUEST  == "MESSAGE_REQUEST"
MESSAGE_RESPONSE == "MESSAGE_RESPONSE"

(* size_t: values modulo 2^SizeWidth *)
SizeWidth == 8
SizeT(x) == x % (2 ^ SizeWidth)

(* PARSER_INVALID_BOUNDARY_INDEX and find_str's "not found" *)
NoPos == -1

Least(S) == CHOOSE x \in S : \A y \in S : x <= y
Greatest(S) == CHOOSE x \in S : \A y \in S : x >= y

(***************************************************************************)
(* The token alphabet.                                                     *)
(***************************************************************************)
Marker == "\r\n\r\n"                    \* kBoundaryMarker
Byte   == "b"                           \* a body byte, or any non-HTTP byte

HTTP_REQUEST_START_PATTERN_ARRAY ==
    <<"GET ", "HEAD ", "POST ", "PUT ", "DELETE ", "CONNECT ", "OPTIONS ",
      "TRACE ", "PATCH ">>
HTTP_RESPONSE_START_PATTERN_ARRAY == <<"HTTP/1.1 ", "HTTP/1.0 ">>

(* Start-line tokens and the start pattern each begins with. *)
StartPattern ==
    ("GET /x" :> "GET ") @@ ("POST /x" :> "POST ") @@ ("PATCH /x" :> "PATCH ")
    @@ ("HTTP/1.1 200" :> "HTTP/1.1 ") @@ ("HTTP/1.1 204" :> "HTTP/1.1 ")
    @@ ("HTTP/1.1 101" :> "HTTP/1.1 ") @@ ("HTTP/1.0 200" :> "HTTP/1.0 ")
RequestLines  == {t \in DOMAIN StartPattern : StartPattern[t] \in
                    {HTTP_REQUEST_START_PATTERN_ARRAY[i] :
                       i \in 1..Len(HTTP_REQUEST_START_PATTERN_ARRAY)}}
ResponseLines == DOMAIN StartPattern \ RequestLines
StatusOf == [t \in ResponseLines |-> IF t = "HTTP/1.1 204" THEN 204
                                     ELSE IF t = "HTTP/1.1 101" THEN 101
                                     ELSE 200]

(* Header lines as (key, value). *)
kContentLength    == "Content-Length"
kTransferEncoding == "Transfer-Encoding"
Header ==
    ("Content-Length: 0" :> <<kContentLength, "0">>)
    @@ ("Content-Length: 1" :> <<kContentLength, "1">>)
    @@ ("Content-Length: 2" :> <<kContentLength, "2">>)
    @@ ("Transfer-Encoding: chunked" :> <<kTransferEncoding, "chunked">>)
    @@ ("Transfer-Encoding: gzip" :> <<kTransferEncoding, "gzip">>)
    @@ ("Host: h" :> <<"Host", "h">>)
HeaderLines == DOMAIN Header

Tokens == DOMAIN StartPattern \cup HeaderLines \cup {Marker, Byte}

(* atoi and glibc's strcmp(v, "0") (the byte difference) on the values used *)
Atoi(v) == CASE v = "0" -> 0 [] v = "1" -> 1 [] v = "2" -> 2
StrcmpZero(v) == CASE v = "0" -> 0 [] v = "1" -> 1 [] v = "2" -> 2

(* A frame: the fields of http_message that the driver and matcher read. *)
NoFrame == [type |-> "none", start |-> 0, status |-> 0, body_size |-> 0]
Out(state, pos, frame) == [state |-> state, pos |-> pos, crash |-> FALSE, frame |-> frame]
Crash(pos) == [state |-> UNKNOWN, pos |-> pos, crash |-> TRUE, frame |-> NoFrame]

(***************************************************************************)
(* http_parse_request_headers / http_parse_response_headers: the header    *)
(* tokenizer wrapper (picohttpparser), which is not part of the sources.   *)
(* From offset c it returns the length of the header block up to and      *)
(* including the marker, -2 when the block is incomplete and -1 when it    *)
(* is malformed.  data is 1-indexed: the byte at offset c is data[c+1].    *)
(***************************************************************************)
StartLinesOf(type) == IF type = MESSAGE_REQUEST THEN RequestLines ELSE ResponseLines

HttpParseHeaders(data, c, type) ==
    IF data[c + 1] \notin StartLinesOf(type) THEN -1
    ELSE LET rest == {i \in c + 2..Len(data) : data[i] \notin HeaderLines}
         IN  IF rest = {} THEN -2
             ELSE IF data[Least(rest)] = Marker THEN Least(rest) - c
             ELSE -1

HeadersOf(data, c, off) == SubSeq(data, c + 2, c + off - 1)

(* get_1st_value_by_key: the value of the first header with that key, or
   "" for NULL. *)
Get1stValueByKey(hdrs, key) ==
    LET is == {i \in 1..Len(hdrs) : Header[hdrs[i]][1] = key}
    IN  IF is = {} THEN "" ELSE Header[hdrs[Least(is)]][2]

(***************************************************************************)
(* parse_chunked.  Its helpers (find_str, substr, simple_hex_atoi) are not *)
(* in the sources, and every caller dereferences an uninitialised pointer  *)
(* right after it returns, so its outcome is a choice: NEEDS_MORE_DATA or  *)
(* INVALID with the cursor untouched, or STATE_UNKNOWN with the cursor     *)
(* moved by "current_pos += data + current_pos - raw_data->data", i.e. to  *)
(* 3*current_pos plus the adv tokens the loop walked over.                 *)
(***************************************************************************)
ParseChunked(data, c) ==
    {Out(NEEDS_MORE_DATA, c, NoFrame), Out(INVALID, c, NoFrame)}
    \cup {Out(UNKNOWN, SizeT(3 * c + adv), NoFrame) : adv \in 1..(Len(data) - c)}

(* The Transfer-Encoding branch of the body parsers: "frame_data->body =
   *body" reads through the uninitialised "char **body". *)
TransferEncodingBody(data, c, frame) ==
    {[o EXCEPT !.frame = [frame EXCEPT !.body_size = 0]] : o \in ParseChunked(data, c)}
    \cup {Crash(c)}

(* The Content-Length branch shared by both body parsers. *)
ContentLengthBody(data, c, frame, cl) ==
    IF StrcmpZero(cl) # 1 /\ Atoi(cl) = 0 THEN {Out(INVALID, c, NoFrame)}
    ELSE IF Atoi(cl) > SizeT(Len(data) - c) THEN {Out(NEEDS_MORE_DATA, c, NoFrame)}
    ELSE {Out(SUCCESS, c, [frame EXCEPT !.body_size = Atoi(cl)])}

(* parse_request_body *)
ParseRequestBody(data, c, frame, hdrs) ==
    LET cl == Get1stValueByKey(hdrs, kContentLength)
        te == Get1stValueByKey(hdrs, kTransferEncoding)
    IN  IF cl # "" THEN ContentLengthBody(data, c, frame, cl)
        ELSE IF te # "" /\ te # "chunked" THEN TransferEncodingBody(data, c, frame)
        ELSE {Out(UNKNOWN, c, frame)}

(* parse_response_body.  Case 1 calls the header parser with the
   uninitialised "http_response *resp": a crash, or a non-zero size_t. *)
ParseResponseBody(data, c, frame, hdrs) ==
    LET cl == Get1stValueByKey(hdrs, kContentLength)
        te == Get1stValueByKey(hdrs, kTransferEncoding)
        st == frame.status
    IN  IF c < Len(data) /\ data[c + 1] \in ResponseLines
            THEN {Crash(c), Out(SUCCESS, c, frame)}
        ELSE IF cl # "" THEN ContentLengthBody(data, c, frame, cl)
        ELSE IF te # "" /\ te # "chunked" THEN TransferEncodingBody(data, c, frame)
        ELSE IF (st >= 100 /\ st < 200) \/ st = 204 \/ st = 304
            THEN {Out(IF st = 101 THEN EOS ELSE SUCCESS, c, frame)}
        ELSE {Out(SUCCESS, c, frame)}

(***************************************************************************)
(* parse_request_frame / parse_response_frame.  offset is a size_t, so     *)
(* "offset == -2", "offset == -1" and "offset < -2" compare it with        *)
(* SIZE_MAX-1, SIZE_MAX and SIZE_MAX-1.                                    *)
(***************************************************************************)
ParseMessageFrame(data, c, type) ==
    LET offset == SizeT(HttpParseHeaders(data, c, type))
        frame  == [type |-> type, start |-> c,
                   status |-> IF type = MESSAGE_RESPONSE THEN StatusOf[data[c + 1]] ELSE 0,
                   body_size |-> 0]
        hdrs   == HeadersOf(data, c, offset)
        pos    == SizeT(offset + offset)    \* current_pos = offset; current_pos += offset
    IN  IF offset = SizeT(-2) THEN {Out(NEEDS_MORE_DATA, c, NoFrame)}
        ELSE IF offset = SizeT(-1) \/ offset < SizeT(-2) THEN {Out(INVALID, c, NoFrame)}
        ELSE IF type = MESSAGE_REQUEST THEN ParseRequestBody(data, pos, frame, hdrs)
        ELSE ParseResponseBody(data, pos, frame, hdrs)

(* http_parse_frame *)
HttpParseFrame(msgType, data, c) ==
    IF msgType \in {MESSAGE_REQUEST, MESSAGE_RESPONSE}
    THEN ParseMessageFrame(data, c, msgType)
    ELSE {Out(INVALID, c, NoFrame)}

(***************************************************************************)
(* http_find_frame_boundary, one iteration of its loop at a time.          *)
(***************************************************************************)
StartPatterns(msgType) ==
    IF msgType = MESSAGE_REQUEST THEN HTTP_REQUEST_START_PATTERN_ARRAY
    ELSE HTTP_RESPONSE_START_PATTERN_ARRAY

(* find_str(data, kBoundaryMarker, from): 0-based offset or NoPos *)
FindMarker(data, from) ==
    LET is == {i \in from + 1..Len(data) : data[i] = Marker}
    IN  IF is = {} THEN NoPos ELSE Least(is) - 1

(* rfind_str(sub, pattern): offset of the last token beginning with it *)
RFindPattern(sub, pattern) ==
    LET is == {i \in 1..Len(sub) : sub[i] \in DOMAIN StartPattern
                                   /\ StartPattern[sub[i]] = pattern}
    IN  IF is = {} THEN NoPos ELSE Greatest(is) - 1

(* The pattern loop: "i < get_array_len(start_patterns) - 1" leaves out the
   last pattern, and the max_pos bookkeeping keeps the match of the first
   pattern (in array order) that occurs at all. *)
RECURSIVE FirstPatternMatch(_, _)
FirstPatternMatch(sub, patterns) ==
    IF patterns = <<>> THEN NoPos
    ELSE LET r == RFindPattern(sub, Head(patterns))
         IN  IF r # NoPos THEN r ELSE FirstPatternMatch(sub, Tail(patterns))

(* Variant: the substring taken one byte early (1-based index confusion). *)
BoundaryMatchShifted(msgType, data, startPos, markerPos) ==
    LET pats == StartPatterns(msgType)
    IN  FirstPatternMatch(SubSeq(data, startPos, markerPos),
                          SubSeq(pats, 1, Len(pats) - 1))

BoundaryMatch(msgType, data, startPos, markerPos) ==
    LET pats == StartPatterns(msgType)
    IN  FirstPatternMatch(SubSeq(data, startPos + 1, markerPos),
                          SubSeq(pats, 1, Len(pats) - 1))
=============================================================================
