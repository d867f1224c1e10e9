------------------------------ MODULE CodingMath ------------------------------
(* Sizes are divided into blocks, shards and stripes. *)
EXTENDS Integers

CeilDiv(a, b) == (a + b - 1) \div b
LesserOf(a, b) == IF a < b THEN a ELSE b
=============================================================================
