-------------------------------- MODULE MCTfPsa --------------------------------
(* Aes128GcmTfPsa for TLC, with ids for two keys in the library's store. *)
EXTENDS Aes128GcmTfPsa, IdealGcm
===============================================================================
