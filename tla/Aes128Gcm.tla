------------------------------- MODULE Aes128Gcm -------------------------------
(***************************************************************************)
(* What an Aes128GcmDecryptor promises DlmsPacketDecryptor, whichever      *)
(* library implements it.                                                  *)
(***************************************************************************)
EXTENDS Aes128GcmDecryptor

VARIABLES
    key,    \* the key decrypt_inplace uses, nullopt if there is none
    alive   \* the decryptor has not been destroyed

vars == <<key, alive, aad, content, result>>

Init ==
    /\ key = nullopt
    /\ alive = TRUE
    /\ aad = nullopt
    /\ content \in Packet
    /\ result = FALSE

\* The key replaces the previous one, even if the library refuses it.
set_encryption_key(k) ==
    /\ key' = k \/ (LibraryFails /\ key' = nullopt)
    /\ UNCHANGED <<aad, content, result>>

Authentic(nonce, tag) ==
    aad # nullopt => tag = TagOf(key, nonce, aad, content)

\* content is deciphered.
Succeed(nonce, tag) ==
    /\ key # nullopt
    /\ Authentic(nonce, tag)
    /\ content' = Crypt(key, nonce, content)
    /\ result' = TRUE
    /\ UNCHANGED <<key, aad>>

\* content may hold anything afterwards.
Fail(nonce, tag) ==
    /\ LibraryFails \/ key = nullopt \/ ~Authentic(nonce, tag)
    /\ content' \in Content
    /\ result' = FALSE
    /\ UNCHANGED <<key, aad>>

Destroy ==
    /\ key' = nullopt
    /\ alive' = FALSE
    /\ UNCHANGED <<aad, content, result>>

Call ==
    \/ \E k \in Key : set_encryption_key(k)
    \/ \E a \in AuthKey : set_authentication_key(a) /\ UNCHANGED key
    \/ \E c \in Packet : NextPacket(c) /\ UNCHANGED key
    \/ \E n \in Nonce, t \in Tag : Succeed(n, t) \/ Fail(n, t)

Next == alive /\ (Destroy \/ (Call /\ UNCHANGED alive))

Spec == Init /\ [][Next]_vars
===============================================================================
