------------------------------ MODULE MCAes128Key ------------------------------
(* Aes128Key for TLC: keys of two bytes, digits 0, 1, 10 and 15. *)
EXTENDS Aes128Key

MCInput == UNION {[1..n -> {0, 1, 10, 15, NotHex}] : n \in 3..5}
===============================================================================
