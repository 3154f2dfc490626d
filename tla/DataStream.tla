----------------------------- MODULE DataStream -----------------------------
(***************************************************************************)
(* One direction of one connection: the pending bytes of a data_stream_s,  *)
(* its cursor (raw_data_s.current_pos), the parsed frames and the error    *)
(* counter, driven by the parse loop of data_stream_parse_frames.  The     *)
(* driver is not part of the sources (data_stream.c is absent); it follows *)
(* the design (spec section 4.2): chunks are appended to one logical byte  *)
(* sequence, the parser is invoked until it needs more data, an INVALID    *)
(* result counts an error and resynchronises from the next byte with       *)
(* http_find_frame_boundary, and only SUCCESS appends a frame.             *)
(***************************************************************************)
EXTENDS HttpParser

CONSTANTS
    Streams      \* the streams the capture feed may deliver: records of the
                 \* direction (msg_type) and the chunks in capture order

ASSUME \A s \in Streams : s.type \in {MESSAGE_REQUEST, MESSAGE_RESPONSE}
                        /\ s.chunks \in Seq(Seq(Tokens)) /\ s.chunks # <<>>

VARIABLES
    msgType,       \* the msg_type argument of data_stream_parse_frames
    data,          \* logical concatenation of the delivered chunks
    incoming,      \* chunks the capture feed has yet to deliver
    cursor,        \* raw_data_s.current_pos
    startPos,      \* start_pos of a running http_find_frame_boundary
    frames,        \* frame_buf_s: frames appended by SUCCESS
    errCount,      \* INVALID results counted by the driver
    mode,          \* "parse", "resync", "wait", "eos" or "crashed"
    lastBoundary   \* last position http_find_frame_boundary returned

vars == <<msgType, data, incoming, cursor, startPos, frames, errCount, mode, lastBoundary>>

Modes == {"parse", "resync", "wait", "eos", "crashed"}

(* The loop stops when the cursor has consumed all pending bytes. *)
ParseOrWait(pos) == IF pos < Len(data) THEN "parse" ELSE "wait"

Init ==
    /\ \E s \in Streams :
         /\ msgType = s.type
         /\ data = Head(s.chunks)
         /\ incoming = Tail(s.chunks)
    /\ cursor = 0
    /\ startPos = 0
    /\ frames = <<>>
    /\ errCount = 0
    /\ mode = "parse"
    /\ lastBoundary = NoPos

(* data_stream_add_raw_data, then the next polling cycle's parse_frames. *)
DataStreamAddRawData ==
    /\ mode = "wait"
    /\ incoming # <<>>
    /\ data' = data \o Head(incoming)
    /\ incoming' = Tail(incoming)
    /\ mode' = IF cursor < Len(data') THEN "parse" ELSE "wait"
    /\ UNCHANGED <<msgType, cursor, startPos, frames, errCount, lastBoundary>>

(* Variant: the resynchronisation starts one byte before the failed parse. *)
AfterParseBackward(o) ==
    CASE o.crash -> [mode |-> "crashed", cursor |-> cursor, errs |-> errCount]
      [] o.state = SUCCESS -> [mode |-> ParseOrWait(o.pos), cursor |-> o.pos, errs |-> errCount]
      [] o.state = NEEDS_MORE_DATA -> [mode |-> "wait", cursor |-> o.pos, errs |-> errCount]
      [] o.state = EOS -> [mode |-> "eos", cursor |-> o.pos, errs |-> errCount]
      [] OTHER -> [mode |-> "resync", cursor |-> o.pos - 1, errs |-> errCount + 1]

(* The driver's handling of one http_parse_frame result: SUCCESS appends the
   frame, NEEDS_MORE_DATA waits for the next chunk, EOS stops the direction,
   any other state counts an error and resynchronises from the next byte. *)
AfterParse(o) ==
    CASE o.crash -> [mode |-> "crashed", cursor |-> cursor, errs |-> errCount]
      [] o.state = SUCCESS -> [mode |-> ParseOrWait(o.pos), cursor |-> o.pos, errs |-> errCount]
      [] o.state = NEEDS_MORE_DATA -> [mode |-> "wait", cursor |-> o.pos, errs |-> errCount]
      [] o.state = EOS -> [mode |-> "eos", cursor |-> o.pos, errs |-> errCount]
      [] OTHER -> [mode |-> "resync", cursor |-> o.pos + 1, errs |-> errCount + 1]

(* One iteration of the parse loop: http_parse_frame and the driver's
   handling of its result. *)
DataStreamParseFrame ==
    /\ mode = "parse"
    /\ \E o \in HttpParseFrame(msgType, data, cursor) :
         /\ mode' = AfterParse(o).mode
         /\ cursor' = AfterParse(o).cursor
         /\ errCount' = AfterParse(o).errs
         /\ startPos' = AfterParse(o).cursor
         /\ frames' = IF ~o.crash /\ o.state = SUCCESS THEN Append(frames, o.frame) ELSE frames
    /\ UNCHANGED <<msgType, data, incoming, lastBoundary>>

(* Variants of one round of http_find_frame_boundary: the cursor moved one
   byte too far past the marker, or not past it at all. *)
FindBoundaryPastMarker ==
    /\ mode = "resync"
    /\ LET markerPos == FindMarker(data, cursor)
           match     == IF markerPos = NoPos THEN NoPos
                        ELSE BoundaryMatch(msgType, data, startPos, markerPos)
       IN  \/ /\ markerPos = NoPos
              /\ mode' = "wait"
              /\ UNCHANGED <<cursor, lastBoundary>>
           \/ /\ markerPos # NoPos /\ match # NoPos
              /\ cursor' = startPos + match
              /\ lastBoundary' = startPos + match
              /\ mode' = ParseOrWait(startPos + match)
           \/ /\ markerPos # NoPos /\ match = NoPos
              /\ cursor' = markerPos + 2
              /\ UNCHANGED <<mode, lastBoundary>>
    /\ UNCHANGED <<msgType, data, incoming, startPos, frames, errCount>>

FindBoundaryAtMarker ==
    /\ mode = "resync"
    /\ LET markerPos == FindMarker(data, cursor)
           match     == IF markerPos = NoPos THEN NoPos
                        ELSE BoundaryMatch(msgType, data, startPos, markerPos)
       IN  \/ /\ markerPos = NoPos
              /\ mode' = "wait"
              /\ UNCHANGED <<cursor, lastBoundary>>
           \/ /\ markerPos # NoPos /\ match # NoPos
              /\ cursor' = startPos + match
              /\ lastBoundary' = startPos + match
              /\ mode' = ParseOrWait(startPos + match)
           \/ /\ markerPos # NoPos /\ match = NoPos
              /\ cursor' = markerPos
              /\ UNCHANGED <<mode, lastBoundary>>
    /\ UNCHANGED <<msgType, data, incoming, startPos, frames, errCount>>

(* One iteration of the while loop of http_find_frame_boundary, and the
   driver's use of its result: a found boundary becomes the cursor, none
   leaves the loop waiting for more data. *)
DataStreamFindBoundary ==
    /\ mode = "resync"
    /\ LET markerPos == FindMarker(data, cursor)
           match     == IF markerPos = NoPos THEN NoPos
                        ELSE BoundaryMatch(msgType, data, startPos, markerPos)
       IN  \/ /\ markerPos = NoPos
              /\ mode' = "wait"
              /\ UNCHANGED <<cursor, lastBoundary>>
           \/ /\ markerPos # NoPos /\ match # NoPos
              /\ cursor' = startPos + match
              /\ lastBoundary' = startPos + match
              /\ mode' = ParseOrWait(startPos + match)
           \/ /\ markerPos # NoPos /\ match = NoPos
              /\ cursor' = markerPos + 1      \* marker_pos + strlen(kBoundaryMarker)
              /\ UNCHANGED <<mode, lastBoundary>>
    /\ UNCHANGED <<msgType, data, incoming, startPos, frames, errCount>>

Next ==
    \/ DataStreamAddRawData
    \/ DataStreamParseFrame
    \/ DataStreamFindBoundary

Spec == Init /\ [][Next]_vars /\ WF_vars(DataStreamParseFrame) /\ WF_vars(DataStreamFindBoundary)

-----------------------------------------------------------------------------
TypeOK ==
    /\ msgType \in {MESSAGE_REQUEST, MESSAGE_RESPONSE}
    /\ data \in Seq(Tokens)
    /\ incoming \in Seq(Seq(Tokens))
    /\ cursor \in Nat
    /\ startPos \in Nat
    /\ errCount \in Nat
    /\ mode \in Modes
    /\ lastBoundary \in Nat \cup {NoPos}
    /\ \A i \in 1..Len(frames) : frames[i].type \in {MESSAGE_REQUEST, MESSAGE_RESPONSE}

(* raw_data_s: "current_pos has valid values [0, data_len - 1];
   current_pos = data_len means data[] is fully parsed".  The cursor the
   parse loop and http_find_frame_boundary leave behind never passes the end
   of the pending bytes, whatever the bytes are and however they are split
   into chunks (a cursor past data_len makes data_len - current_pos wrap). *)
CursorWithinData == cursor <= Len(data)

(* A position http_find_frame_boundary returns is the start of a start line
   of the stream's direction (a request method for requests, a protocol
   version for responses), so the parse after a resynchronisation starts at
   a message and not inside one. *)
BoundaryIsStartLine ==
    lastBoundary # NoPos =>
        /\ lastBoundary < Len(data)
        /\ data[lastBoundary + 1] \in StartLinesOf(msgType)

(* The while loop of http_find_frame_boundary terminates on a buffer that
   does not grow: every round either returns or moves current_pos past a
   boundary marker (spec: resynchronisation termination). *)
ResyncTerminates == mode = "resync" ~> mode # "resync"

(* The stream begins with a complete message in the sense of the design
   (a header block the tokenizer accepts, and as many body bytes as its
   Content-Length says).  Once the parse loop has stopped to wait for more
   data, that message is a frame (spec: "Scenario - simple GET"). *)
CompleteAtStart ==
    LET h == HttpParseHeaders(data, 0, msgType)
    IN  /\ h > 0
        /\ LET cl == Get1stValueByKey(HeadersOf(data, 0, h), kContentLength)
           IN  cl = "" \/ h + Atoi(cl) <= Len(data)

FirstMessageFramed == (mode = "wait" /\ CompleteAtStart) => frames # <<>>
=============================================================================
