------------------------------- MODULE MCMbedTls -------------------------------
(* Aes128GcmMbedTls for TLC: two keys, two authentication keys, two nonces. *)
EXTENDS Aes128GcmMbedTls, IdealGcm
===============================================================================
