--------------------------- MODULE Aes128GcmBearSsl ----------------------------
(***************************************************************************)
(* Aes128GcmBearSsl (aes128gcm_bearssl.h).  The GCM context lives as long  *)
(* as the decryptor: it keeps the hash key of the latest set_encryption_   *)
(* key and what the latest decrypt_inplace has put into it.                *)
(***************************************************************************)
EXTENDS Aes128GcmDecryptor

VARIABLES
    aes,            \* the expanded key; nullopt: memory not yet written
    gcm,            \* br_gcm_context
    initialized

own == <<aes, gcm, initialized>>
vars == <<own, aad, content, result>>

-------------------------------------------------------------------------------
(* BearSSL *)

\* hash_key is computed from the key when the context is made; nonce, ad and
\* hashed are what the tag is computed over.
br_gcm_init(k) == [hash_key |-> k, nonce |-> nullopt, ad |-> nullopt, hashed |-> nullopt]

br_gcm_reset(g, nonce) == [br_gcm_init(g.hash_key) EXCEPT !.nonce = nonce]

br_gcm_aad_inject(g, a) == [g EXCEPT !.ad = a]

br_gcm_hash(g, c) == [g EXCEPT !.hashed = c]

br_gcm_check_tag(g, tag) == tag = TagOf(g.hash_key, g.nonce, g.ad, g.hashed)

-------------------------------------------------------------------------------
Init ==
    /\ aes = nullopt
    /\ gcm = br_gcm_init(nullopt)
    /\ initialized = FALSE
    /\ aad = nullopt
    /\ content \in Packet
    /\ result = FALSE

\* Mutant: the context is only made once.
SetKeyKeepsContext(k) ==
    /\ aes' = k
    /\ gcm' = IF initialized THEN gcm ELSE br_gcm_init(k)
    /\ initialized' = TRUE
    /\ UNCHANGED <<aad, content, result>>

set_encryption_key(k) ==
    /\ aes' = k
    /\ gcm' = br_gcm_init(k)
    /\ initialized' = TRUE
    /\ UNCHANGED <<aad, content, result>>

NotInitialized ==
    /\ ~initialized
    /\ result' = FALSE
    /\ UNCHANGED <<own, aad, content>>

\* Without an authentication key: no additional data, the tag is not compared.
DecryptUnverified(nonce) ==
    /\ initialized
    /\ aad = nullopt
    /\ gcm' = br_gcm_hash(br_gcm_reset(gcm, nonce), content)
    /\ content' = Crypt(aes, nonce, content)
    /\ result' = TRUE
    /\ UNCHANGED <<aes, initialized, aad>>

\* The tag is compared after content has been overwritten.
DecryptVerified(nonce, tag) ==
    /\ initialized
    /\ aad # nullopt
    /\ gcm' = br_gcm_hash(br_gcm_aad_inject(br_gcm_reset(gcm, nonce), aad), content)
    /\ content' = Crypt(aes, nonce, content)
    /\ result' = br_gcm_check_tag(gcm', tag)
    /\ UNCHANGED <<aes, initialized, aad>>

decrypt_inplace(nonce, tag) ==
    \/ NotInitialized
    \/ DecryptUnverified(nonce)
    \/ DecryptVerified(nonce, tag)

Next ==
    \/ \E k \in Key : set_encryption_key(k)
    \/ \E a \in AuthKey : set_authentication_key(a) /\ UNCHANGED own
    \/ \E c \in Packet : NextPacket(c) /\ UNCHANGED own
    \/ \E n \in Nonce, t \in Tag : decrypt_inplace(n, t)

Spec == Init /\ [][Next]_vars

-------------------------------------------------------------------------------
Contract == INSTANCE Aes128Gcm WITH
    key <- IF initialized THEN aes ELSE nullopt,
    alive <- TRUE

\* A packet is deciphered exactly if a key is set and, with an authentication
\* key, its tag is right: whatever earlier packets, failures and changes of keys
\* have left in the context.
ContractSpec == Contract!Spec
===============================================================================
