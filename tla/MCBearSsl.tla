------------------------------- MODULE MCBearSsl -------------------------------
(* Aes128GcmBearSsl for TLC: two keys, two authentication keys, two nonces. *)
EXTENDS Aes128GcmBearSsl, IdealGcm
===============================================================================
