-------------------------- MODULE Aes128GcmDecryptor ---------------------------
(***************************************************************************)
(* The part of Aes128GcmDecryptor (aes128gcm.h) that its implementations   *)
(* share, and its client.                                                  *)
(*                                                                         *)
(* AES-GCM is external.  It is used through two functions: Crypt applies   *)
(* the key stream, the same for both directions, and TagOf is the tag of a *)
(* ciphertext.                                                             *)
(***************************************************************************)
CONSTANTS
    Key,            \* encryption keys
    AuthKey,        \* authentication keys
    Nonce, Tag,     \* the other arguments of decrypt_inplace
    Content,        \* what the bytes of the ciphertext argument may be
    Packet,         \* contents the client may bring
    Crypt(_, _, _),     \* Crypt(key, nonce, content)
    TagOf(_, _, _, _),  \* TagOf(key, nonce, aad, content)
    nullopt,
    LibraryFails    \* may calls of the crypto library fail on good arguments?

ASSUME GcmAssumption ==
    /\ nullopt \notin Key \cup AuthKey
    /\ Packet \subseteq Content
    /\ \A k \in Key, n \in Nonce, c \in Content : Crypt(k, n, c) \in Content
    /\ LibraryFails \in BOOLEAN

VARIABLES
    aad,        \* the authentication key in aad, nullopt if there is none
    content,    \* the memory of the client that the ciphertext argument spans
    result      \* what the latest decrypt_inplace returned

set_authentication_key(a) ==
    /\ aad' = a
    /\ UNCHANGED <<content, result>>

\* The client has received another packet.
NextPacket(c) ==
    /\ content' = c
    /\ UNCHANGED <<aad, result>>
===============================================================================
