---------------------------- MODULE BinaryDecoder ----------------------------
(***************************************************************************)
(* The binary decoder of l7probe (protocol/utils/binary_decoder.c): typed  *)
(* extraction from a raw_data_s buffer at its cursor.  A behaviour is one  *)
(* buffer and any sequence of decoder calls on it; every call records its  *)
(* result in out, which the properties compare with reference definitions *)
(* written independently of the code's loops.                            *)
(* Bytes are the values 0..255 of a small set; C char is signed (x86), so *)
(* a byte read as char is its two's-complement value.  parser_raw_data_   *)
(* offset is not among the sources: it advances current_pos and takes the *)
(* same count from unconsumed_len.                                         *)
(***************************************************************************)
EXTENDS Integers, Sequences, SequencesExt

CONSTANTS
    ByteBits,     \* bits of a byte: 8 (a smaller width keeps 4-byte values
                  \* within TLC's integers; the arithmetic is the same)
    Bytes,        \* the byte values a buffer is made of
    MaxLen,       \* bound on data_len
    Delims,       \* search_str arguments (non-empty byte sequences)
    MallocFails   \* whether malloc in extract_prefix_bytes_string may fail

SUCCESS         == "STATE_SUCCESS"
INVALID         == "STATE_INVALID"
NEEDS_MORE_DATA == "STATE_NEEDS_MORE_DATA"
NOT_FOUND       == "STATE_NOT_FOUND"

(* The integer types DECODER_EXTRACT_INT is instantiated for. *)
(* One more than the largest byte, and the least byte whose top bit is set. *)
ByteRange == 2 ^ ByteBits
TopBit == 2 ^ (ByteBits - 1)

ASSUME Bytes \subseteq 0..(ByteRange - 1)

IntTypes == [w : {1, 2, 4}, signed : BOOLEAN]

(* The value of x converted to an integer type: modulo 2^(8w), and for a
   signed type the upper half is negative (gcc's conversion, and its result
   for the shifts of signed values the standard leaves undefined). *)
ToType(x, t) ==
    LET m == x % (ByteRange ^ t.w)
    IN  IF t.signed /\ m >= (ByteRange ^ t.w) \div 2 THEN m - ByteRange ^ t.w ELSE m

(* A byte read as (signed) char. *)
AsChar(b) == IF b >= TopBit THEN b - ByteRange ELSE b

VARIABLES
    data,         \* raw_data->data[0 .. data_len - 1]
    pos,          \* raw_data->current_pos
    unconsumed,   \* raw_data->unconsumed_len
    out           \* the last call: operation, state, start, result

vars == <<data, pos, unconsumed, out>>

NoOut == [op |-> "none", st |-> SUCCESS, from |-> 0, t |-> [w |-> 1, signed |-> FALSE],
          ival |-> 0, sval |-> <<>>, arg |-> <<>>]

(* The bytes from the cursor on. *)
Window == SubSeq(data, pos + 1, pos + unconsumed)

(* parser_raw_data_offset *)
Offset(n) ==
    /\ pos' = pos + n
    /\ unconsumed' = unconsumed - n

Result(op, st, t, iv, sv, arg) ==
    out' = [op |-> op, st |-> st, from |-> pos, t |-> t, ival |-> iv, sval |-> sv, arg |-> arg]

AnyType == [w |-> 1, signed |-> FALSE]

Init ==
    /\ data \in BoundedSeq(Bytes, MaxLen)
    /\ pos = 0
    /\ unconsumed = Len(data)
    /\ out = NoOut

-----------------------------------------------------------------------------
(* Variant: the byte is not cast to uint8_t before it is or-ed in, so a
   byte with its top bit set is sign-extended over the bits already accumulated. *)
RECURSIVE BeFoldNoCast(_, _, _)
BeFoldNoCast(s, res, t) ==
    IF s = <<>> THEN res
    ELSE BeFoldNoCast(Tail(s),
                      IF Head(s) >= TopBit THEN ToType(AsChar(Head(s)), t)
                      ELSE ToType(res * ByteRange + Head(s), t), t)

(* big_endian_bytes_to_<INT_TYPE>: res = (uint8_t)byte | (res << 8) over
   sizeof(INT_TYPE) bytes, res kept in INT_TYPE. *)
RECURSIVE BeFold(_, _, _)
BeFold(s, res, t) ==
    IF s = <<>> THEN res
    ELSE BeFold(Tail(s), ToType(res * ByteRange + Head(s), t), t)

(* decoder_extract_char *)
ExtractChar ==
    IF unconsumed < 1
    THEN Result("char", NEEDS_MORE_DATA, AnyType, 0, <<>>, <<>>) /\ UNCHANGED <<data, pos, unconsumed>>
    ELSE Result("char", SUCCESS, AnyType, AsChar(data[pos + 1]), <<>>, <<>>)
         /\ Offset(1) /\ UNCHANGED data

(* decoder_extract_<INT_TYPE> *)
ExtractInt(t) ==
    IF unconsumed < t.w
    THEN Result("int", NEEDS_MORE_DATA, t, 0, <<>>, <<>>) /\ UNCHANGED <<data, pos, unconsumed>>
    ELSE Result("int", SUCCESS, t, BeFold(SubSeq(data, pos + 1, pos + t.w), 0, t), <<>>, <<>>)
         /\ Offset(t.w) /\ UNCHANGED data

(* Variant: the cursor is moved before malloc is checked. *)
ExtractPrefixBytesStringEarly(op, len, off, arg) ==
    \E ok \in IF MallocFails THEN BOOLEAN ELSE {TRUE} :
       /\ Offset(off)
       /\ Result(op, IF ok THEN SUCCESS ELSE INVALID, AnyType, 0,
                 IF ok THEN SubSeq(data, pos + 1, pos + len) ELSE <<>>, arg)
       /\ UNCHANGED data

(* extract_prefix_bytes_string: malloc(len + 1) (a failure returns false
   and the caller STATE_INVALID), the first len bytes copied, the cursor
   moved by off. *)
ExtractPrefixBytesString(op, len, off, arg) ==
    \E ok \in IF MallocFails THEN BOOLEAN ELSE {TRUE} :
       IF ok
       THEN Offset(off) /\ Result(op, SUCCESS, AnyType, 0, SubSeq(data, pos + 1, pos + len), arg)
            /\ UNCHANGED data
       ELSE Result(op, INVALID, AnyType, 0, <<>>, arg) /\ UNCHANGED <<data, pos, unconsumed>>

(* decoder_extract_string *)
ExtractString(len) ==
    IF unconsumed < len
    THEN Result("string", NEEDS_MORE_DATA, AnyType, 0, <<>>, <<>>) /\ UNCHANGED <<data, pos, unconsumed>>
    ELSE ExtractPrefixBytesString("string", len, len, <<>>)

(* The first index i >= current_pos with data[i] = c, as the loop of
   decoder_extract_str_until_char finds it, or -1. *)
SearchChar(c) ==
    LET hits == {i \in pos..(Len(data) - 1) : data[i + 1] = c}
    IN  IF hits = {} THEN -1 ELSE CHOOSE i \in hits : \A j \in hits : i <= j

(* Variant: the delimiter is not consumed. *)
ExtractStrUntilCharKeep(c) ==
    LET at == SearchChar(c) IN
    IF at = -1
    THEN Result("until", NOT_FOUND, AnyType, 0, <<>>, <<c>>) /\ UNCHANGED <<data, pos, unconsumed>>
    ELSE ExtractPrefixBytesString("until", at - pos, at - pos, <<c>>)

(* decoder_extract_str_until_char *)
ExtractStrUntilChar(c) ==
    LET at == SearchChar(c) IN
    IF at = -1
    THEN Result("until", NOT_FOUND, AnyType, 0, <<>>, <<c>>) /\ UNCHANGED <<data, pos, unconsumed>>
    ELSE ExtractPrefixBytesString("until", at - pos, at - pos + 1, <<c>>)

(* memmem over the unconsumed bytes: the least offset of s, or -1. *)
MemMem(s) ==
    LET hits == {k \in 0..(unconsumed - Len(s)) : SubSeq(Window, k + 1, k + Len(s)) = s}
    IN  IF hits = {} THEN -1 ELSE CHOOSE k \in hits : \A j \in hits : k <= j

(* decoder_extract_str_until_str *)
ExtractStrUntilStr(s) ==
    LET at == MemMem(s) IN
    IF at = -1
    THEN Result("until", NOT_FOUND, AnyType, 0, <<>>, s) /\ UNCHANGED <<data, pos, unconsumed>>
    ELSE ExtractPrefixBytesString("until", at, at + Len(s), s)

(* Variant: the length test is missing. *)
ExtractPrefixIgnoreUnchecked(len) ==
    Result("skip", SUCCESS, AnyType, 0, <<>>, <<>>) /\ Offset(len) /\ UNCHANGED data

(* decoder_extract_prefix_ignore *)
ExtractPrefixIgnore(len) ==
    IF unconsumed < len
    THEN Result("skip", NEEDS_MORE_DATA, AnyType, 0, <<>>, <<>>) /\ UNCHANGED <<data, pos, unconsumed>>
    ELSE Result("skip", SUCCESS, AnyType, 0, <<>>, <<>>) /\ Offset(len) /\ UNCHANGED data

Lens == 0..(MaxLen + 1)

Next ==
    \/ ExtractChar
    \/ \E t \in IntTypes : ExtractInt(t)
    \/ \E n \in Lens : ExtractString(n) \/ ExtractPrefixIgnore(n)
    \/ \E c \in Bytes : ExtractStrUntilChar(c)
    \/ \E s \in Delims : ExtractStrUntilStr(s)

Spec == Init /\ [][Next]_vars
-----------------------------------------------------------------------------
TypeOK ==
    /\ data \in BoundedSeq(Bytes, MaxLen)
    /\ pos \in 0..MaxLen /\ unconsumed \in 0..MaxLen
    /\ pos + unconsumed = Len(data)
    /\ out.st \in {SUCCESS, INVALID, NEEDS_MORE_DATA, NOT_FOUND}

(* The reference value of a big-endian byte string in an integer type: the
   sum of each byte times its positional weight, converted to the type. *)
RefInt(s, t) == ToType(SumFunction([i \in 1..Len(s) |-> s[i] * ByteRange ^ (Len(s) - i)]), t)

(* Occurrences of the delimiter d in s starting before offset n. *)
OccursBefore(d, s, n) ==
    \E k \in 0..(n - 1) : k + Len(d) <= Len(s) /\ SubSeq(s, k + 1, k + Len(d)) = d

(* Every integer big_endian_bytes_to_<INT_TYPE> returns is the big-endian
   value of the bytes under the cursor in that type, including a negative
   value of a signed type, and the cursor moved past exactly those bytes. *)
IntMatchesReference ==
    (out.op = "int" /\ out.st = SUCCESS) =>
        /\ out.ival = RefInt(SubSeq(data, out.from + 1, out.from + out.t.w), out.t)
        /\ pos = out.from + out.t.w

(* decoder_extract_str_until_char and _until_str return the bytes before
   the first occurrence of the delimiter and leave the cursor just past
   it; NOT_FOUND only when the delimiter is nowhere in the unconsumed
   bytes. *)
DelimitedMatchesReference ==
    LET rest == SubSeq(data, out.from + 1, Len(data)) IN
    /\ (out.op = "until" /\ out.st = SUCCESS) =>
           /\ IsPrefix(out.sval \o out.arg, rest)
           /\ ~OccursBefore(out.arg, rest, Len(out.sval))
           /\ pos = out.from + Len(out.sval) + Len(out.arg)
    /\ (out.op = "until" /\ out.st = NOT_FOUND) =>
           ~OccursBefore(out.arg, rest, Len(rest))

(* A decoder call that does not succeed leaves current_pos and
   unconsumed_len as they were, so the caller can retry once more bytes
   have arrived. *)
FailureLeavesCursor ==
    [][out'.st # SUCCESS => UNCHANGED <<pos, unconsumed>>]_vars
====
