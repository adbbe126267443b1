--------------------------- MODULE Aes128GcmMbedTls ----------------------------
(***************************************************************************)
(* Aes128GcmMbedTls (aes128gcm_mbedtls.h): two calls of Mbed TLS, chosen   *)
(* by whether there is an authentication key.  It keeps no flag of its own *)
(* and leaves it to the library to refuse a context without a key.         *)
(***************************************************************************)
EXTENDS Aes128GcmDecryptor

VARIABLES
    gcm,    \* the key in the mbedtls_gcm_context, nullopt if it has none
    alive   \* the decryptor has not been destroyed

vars == <<gcm, alive, aad, content, result>>

-------------------------------------------------------------------------------
(* Mbed TLS.  A call that fails may leave anything in its output. *)

\* The key the context has before is freed first.
mbedtls_gcm_setkey(k) == gcm' = k \/ (LibraryFails /\ gcm' = nullopt)

Works(nonce) ==
    /\ gcm # nullopt
    /\ content' = Crypt(gcm, nonce, content)
    /\ result' = TRUE

Refuses == content' \in Content /\ result' = FALSE

mbedtls_gcm_auth_decrypt(nonce, tag) ==
    \/ tag = TagOf(gcm, nonce, aad, content) /\ Works(nonce)
    \/ /\ LibraryFails \/ gcm = nullopt \/ tag # TagOf(gcm, nonce, aad, content)
       /\ Refuses

mbedtls_gcm_crypt_and_tag(nonce) ==
    \/ Works(nonce)
    \/ (LibraryFails \/ gcm = nullopt) /\ Refuses

-------------------------------------------------------------------------------
Init ==
    /\ gcm = nullopt
    /\ alive = TRUE
    /\ aad = nullopt
    /\ content \in Packet
    /\ result = FALSE

\* The status of mbedtls_gcm_setkey is ignored.
set_encryption_key(k) ==
    /\ mbedtls_gcm_setkey(k)
    /\ UNCHANGED <<aad, content, result>>

DecryptVerified(nonce, tag) ==
    /\ aad # nullopt
    /\ mbedtls_gcm_auth_decrypt(nonce, tag)
    /\ UNCHANGED <<gcm, aad>>

\* Mutant: the branch is taken with an authentication key as well.
DecryptAlwaysUnverified(nonce) ==
    /\ mbedtls_gcm_crypt_and_tag(nonce)
    /\ UNCHANGED <<gcm, aad>>

DecryptUnverified(nonce) ==
    /\ aad = nullopt
    /\ mbedtls_gcm_crypt_and_tag(nonce)
    /\ UNCHANGED <<gcm, aad>>

decrypt_inplace(nonce, tag) ==
    \/ DecryptVerified(nonce, tag)
    \/ DecryptUnverified(nonce)

\* mbedtls_gcm_free wipes the key.
Destroy ==
    /\ gcm' = nullopt
    /\ alive' = FALSE
    /\ UNCHANGED <<aad, content, result>>

Call ==
    \/ \E k \in Key : set_encryption_key(k)
    \/ \E a \in AuthKey : set_authentication_key(a) /\ UNCHANGED gcm
    \/ \E c \in Packet : NextPacket(c) /\ UNCHANGED gcm
    \/ \E n \in Nonce, t \in Tag : decrypt_inplace(n, t)

Next == alive /\ (Destroy \/ (Call /\ UNCHANGED alive))

Spec == Init /\ [][Next]_vars

-------------------------------------------------------------------------------
Contract == INSTANCE Aes128Gcm WITH key <- gcm

\* decrypt_inplace returns true only for content it has deciphered with the key
\* set last and, with an authentication key, only if the tag is right; in a
\* context whose setkey failed it never does.
ContractSpec == Contract!Spec
===============================================================================
