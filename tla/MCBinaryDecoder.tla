-------------------------- MODULE MCBinaryDecoder --------------------------
EXTENDS BinaryDecoder

(* 4-bit bytes: "\r" (13) and "\n" (10), and 3, whose top bit is clear;
   13 and 10 have it set, so both signs of every type are reached. *)
MCBytes == {3, 10, 13}
MCDelims == {<<13, 10>>, <<10>>}
====
