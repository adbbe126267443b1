---------------------------- MODULE Aes128GcmProofs ----------------------------
(***************************************************************************)
(* Two decryptors implement the contract of Aes128GcmDecryptor, for every  *)
(* cipher.  Aes128GcmBearSsl: nothing an earlier key or packet has left in *)
(* the GCM context reaches a later one.  Aes128GcmMbedTls, whichever calls *)
(* of the library fail: the status of mbedtls_gcm_setkey, which its        *)
(* set_encryption_key ignores, is not needed.                              *)
(***************************************************************************)
EXTENDS Aes128GcmBearSsl, TLAPS

VARIABLES mbed_gcm, alive   \* of Aes128GcmMbedTls; it shares aad, content and result

Mbed == INSTANCE Aes128GcmMbedTls WITH gcm <- mbed_gcm

-------------------------------------------------------------------------------
(* Aes128GcmBearSsl *)

\* The context was made from the key that deciphers.
IInv ==
    /\ initialized \in BOOLEAN
    /\ result \in BOOLEAN
    /\ content \in Content
    /\ aad \in AuthKey \cup {nullopt}
    /\ gcm \in [hash_key : Key \cup {nullopt}, nonce : Nonce \cup {nullopt},
                ad : AuthKey \cup {nullopt}, hashed : Content \cup {nullopt}]
    /\ initialized => aes \in Key /\ gcm.hash_key = aes

LEMMA InitIInv == Init => IInv
<1> SUFFICES ASSUME Init PROVE IInv
  OBVIOUS
<1>1. gcm = [hash_key |-> nullopt, nonce |-> nullopt, ad |-> nullopt, hashed |-> nullopt]
  BY DEF Init, br_gcm_init
<1>2. initialized = FALSE /\ result = FALSE /\ aad = nullopt /\ content \in Content
  BY GcmAssumption DEF Init
<1> QED
  BY <1>1, <1>2 DEF IInv

\* What decrypt_inplace leaves in the context, whatever was in it.
LEMMA ContextAfter ==
    ASSUME IInv, initialized, NEW n \in Nonce
    PROVE  /\ br_gcm_hash(br_gcm_reset(gcm, n), content)
                = [hash_key |-> aes, nonce |-> n, ad |-> nullopt, hashed |-> content]
           /\ br_gcm_hash(br_gcm_aad_inject(br_gcm_reset(gcm, n), aad), content)
                = [hash_key |-> aes, nonce |-> n, ad |-> aad, hashed |-> content]
<1>1. br_gcm_reset(gcm, n)
        = [hash_key |-> aes, nonce |-> n, ad |-> nullopt, hashed |-> nullopt]
  BY DEF IInv, br_gcm_reset, br_gcm_init
<1>2. br_gcm_aad_inject(br_gcm_reset(gcm, n), aad)
        = [hash_key |-> aes, nonce |-> n, ad |-> aad, hashed |-> nullopt]
  BY <1>1 DEF br_gcm_aad_inject
<1> QED
  BY <1>1, <1>2 DEF br_gcm_hash

LEMMA NextIInv == IInv /\ [Next]_vars => IInv'
<1> SUFFICES ASSUME IInv, [Next]_vars PROVE IInv'
  OBVIOUS
<1>1. ASSUME NEW k \in Key, set_encryption_key(k) PROVE IInv'
  BY <1>1 DEF IInv, set_encryption_key, br_gcm_init
<1>2. ASSUME NEW a \in AuthKey, set_authentication_key(a) /\ UNCHANGED own PROVE IInv'
  BY <1>2 DEF IInv, set_authentication_key, own
<1>3. ASSUME NEW c \in Packet, NextPacket(c) /\ UNCHANGED own PROVE IInv'
  BY <1>3, GcmAssumption DEF IInv, NextPacket, own
<1>4. CASE NotInitialized
  BY <1>4 DEF IInv, NotInitialized, own
<1>5. ASSUME NEW n \in Nonce, DecryptUnverified(n) PROVE IInv'
  BY <1>5, ContextAfter, GcmAssumption DEF IInv, DecryptUnverified
<1>6. ASSUME NEW n \in Nonce, NEW t \in Tag, DecryptVerified(n, t) PROVE IInv'
  <2>1. result' \in BOOLEAN
    BY <1>6, Zenon DEF DecryptVerified, br_gcm_check_tag
  <2> QED
    BY <2>1, <1>6, ContextAfter, GcmAssumption DEF IInv, DecryptVerified
<1>7. CASE UNCHANGED vars
  BY <1>7 DEF IInv, vars, own
<1> QED
  BY <1>1, <1>2, <1>3, <1>4, <1>5, <1>6, <1>7 DEF Next, decrypt_inplace

\* The context always belongs to the key that deciphers.
THEOREM Invariance == Spec => []IInv
<1> QED
  BY InitIInv, NextIInv, PTL DEF Spec

-------------------------------------------------------------------------------
LEMMA InitContract == Init => Contract!Init
BY DEF Init, Contract!Init

LEMMA StepContract == IInv /\ [Next]_vars => [Contract!Next]_(Contract!vars)
<1> SUFFICES ASSUME IInv, [Next]_vars PROVE [Contract!Next]_(Contract!vars)
  OBVIOUS
<1> USE DEF Contract!Next, Contract!Call, Contract!vars
<1>1. ASSUME NEW k \in Key, set_encryption_key(k) PROVE Contract!Next
  BY <1>1 DEF set_encryption_key, Contract!set_encryption_key
<1>2. ASSUME NEW a \in AuthKey, set_authentication_key(a) /\ UNCHANGED own
      PROVE  Contract!Next
  BY <1>2 DEF set_authentication_key, Contract!set_authentication_key, own
<1>3. ASSUME NEW c \in Packet, NextPacket(c) /\ UNCHANGED own PROVE Contract!Next
  BY <1>3 DEF NextPacket, Contract!NextPacket, own
<1>4. ASSUME NEW n \in Nonce, NEW t \in Tag, NotInitialized PROVE Contract!Next
  <2>1. Contract!Fail(n, t)
    BY <1>4 DEF IInv, NotInitialized, Contract!Fail, own
  <2> QED
    BY <2>1, <1>4 DEF NotInitialized
<1>5. ASSUME NEW n \in Nonce, NEW t \in Tag, DecryptUnverified(n) PROVE Contract!Next
  <2>1. Contract!Succeed(n, t)
    BY <1>5, GcmAssumption
    DEF IInv, DecryptUnverified, Contract!Succeed, Contract!Authentic
  <2> QED
    BY <2>1
<1>6. ASSUME NEW n \in Nonce, NEW t \in Tag, DecryptVerified(n, t) PROVE Contract!Next
  <2>1. gcm' = [hash_key |-> aes, nonce |-> n, ad |-> aad, hashed |-> content]
    BY <1>6, ContextAfter DEF DecryptVerified
  <2>2. br_gcm_check_tag(gcm', t) <=> t = TagOf(aes, n, aad, content)
    BY <2>1 DEF br_gcm_check_tag
  <2>3. CASE t = TagOf(aes, n, aad, content)
    <3>1. result' = TRUE
      BY <1>6, <2>2, <2>3, Zenon DEF DecryptVerified, br_gcm_check_tag
    <3>2. Contract!Succeed(n, t)
      BY <1>6, <2>3, <3>1, GcmAssumption
      DEF IInv, DecryptVerified, Contract!Succeed, Contract!Authentic
    <3> QED
      BY <3>2
  <2>4. CASE t # TagOf(aes, n, aad, content)
    <3>1. result' = FALSE
      BY <1>6, <2>2, <2>4, Zenon DEF DecryptVerified, br_gcm_check_tag
    <3>2. Contract!Fail(n, t)
      BY <1>6, <2>4, <3>1, GcmAssumption
      DEF IInv, DecryptVerified, Contract!Fail, Contract!Authentic
    <3> QED
      BY <3>2
  <2> QED
    BY <2>3, <2>4
<1>7. CASE UNCHANGED vars
  BY <1>7 DEF vars, own
<1> QED
  BY <1>1, <1>2, <1>3, <1>4, <1>5, <1>6, <1>7 DEF Next, decrypt_inplace

\* The decryptor keeps the contract: after any sequence of keys, packets and
\* failures, a packet is deciphered exactly if it should be.
THEOREM Implementation == Spec => ContractSpec
<1> QED
  BY Invariance, InitContract, StepContract, PTL DEF Spec, ContractSpec, Contract!Spec

-------------------------------------------------------------------------------
(* Aes128GcmMbedTls *)

\* The types; content is what the library may be asked to decipher.
MbedIInv ==
    /\ mbed_gcm \in Key \cup {nullopt}
    /\ alive \in BOOLEAN
    /\ aad \in AuthKey \cup {nullopt}
    /\ content \in Content
    /\ result \in BOOLEAN

LEMMA MbedInitIInv == Mbed!Init => MbedIInv
BY GcmAssumption DEF Mbed!Init, MbedIInv

\* What a call of decrypt_inplace does, in the words of the contract.
LEMMA MbedDecryptKeepsContract ==
    ASSUME MbedIInv, NEW n \in Nonce, NEW t \in Tag, Mbed!decrypt_inplace(n, t)
    PROVE  Mbed!Contract!Succeed(n, t) \/ Mbed!Contract!Fail(n, t)
<1>1. CASE Mbed!DecryptVerified(n, t)
  <2>1. CASE t = TagOf(mbed_gcm, n, aad, content) /\ Mbed!Works(n)
    <3>1. Mbed!Contract!Succeed(n, t)
      BY <1>1, <2>1
      DEF Mbed!DecryptVerified, Mbed!Works, Mbed!Contract!Succeed, Mbed!Contract!Authentic
    <3> QED
      BY <3>1
  <2>2. CASE /\ LibraryFails \/ mbed_gcm = nullopt \/ t # TagOf(mbed_gcm, n, aad, content)
             /\ Mbed!Refuses
    <3>1. Mbed!Contract!Fail(n, t)
      BY <1>1, <2>2
      DEF Mbed!DecryptVerified, Mbed!Refuses, Mbed!Contract!Fail, Mbed!Contract!Authentic
    <3> QED
      BY <3>1
  <2> QED
    BY <1>1, <2>1, <2>2 DEF Mbed!DecryptVerified, Mbed!mbedtls_gcm_auth_decrypt
<1>2. CASE Mbed!DecryptUnverified(n)
  <2>1. CASE Mbed!Works(n)
    <3>1. Mbed!Contract!Succeed(n, t)
      BY <1>2, <2>1
      DEF Mbed!DecryptUnverified, Mbed!Works, Mbed!Contract!Succeed, Mbed!Contract!Authentic
    <3> QED
      BY <3>1
  <2>2. CASE (LibraryFails \/ mbed_gcm = nullopt) /\ Mbed!Refuses
    <3>1. Mbed!Contract!Fail(n, t)
      BY <1>2, <2>2
      DEF Mbed!DecryptUnverified, Mbed!Refuses, Mbed!Contract!Fail, Mbed!Contract!Authentic
    <3> QED
      BY <3>1
  <2> QED
    BY <1>2, <2>1, <2>2 DEF Mbed!DecryptUnverified, Mbed!mbedtls_gcm_crypt_and_tag
<1> QED
  BY <1>1, <1>2 DEF Mbed!decrypt_inplace

LEMMA MbedNextIInv == MbedIInv /\ [Mbed!Next]_(Mbed!vars) => MbedIInv'
<1> SUFFICES ASSUME MbedIInv, [Mbed!Next]_(Mbed!vars) PROVE MbedIInv'
  OBVIOUS
<1>1. CASE Mbed!Destroy
  BY <1>1 DEF MbedIInv, Mbed!Destroy
<1>2. ASSUME NEW k \in Key, Mbed!set_encryption_key(k), UNCHANGED alive PROVE MbedIInv'
  BY <1>2 DEF MbedIInv, Mbed!set_encryption_key, Mbed!mbedtls_gcm_setkey
<1>3. ASSUME NEW a \in AuthKey, Mbed!set_authentication_key(a), UNCHANGED mbed_gcm,
             UNCHANGED alive
      PROVE  MbedIInv'
  BY <1>3 DEF MbedIInv, Mbed!set_authentication_key
<1>4. ASSUME NEW c \in Packet, Mbed!NextPacket(c), UNCHANGED mbed_gcm, UNCHANGED alive
      PROVE  MbedIInv'
  BY <1>4, GcmAssumption DEF MbedIInv, Mbed!NextPacket
<1>5. ASSUME NEW n \in Nonce, NEW t \in Tag, Mbed!decrypt_inplace(n, t), UNCHANGED alive
      PROVE  MbedIInv'
  <2>1. CASE Mbed!Contract!Succeed(n, t)
    BY <1>5, <2>1, GcmAssumption DEF MbedIInv, Mbed!Contract!Succeed
  <2>2. CASE Mbed!Contract!Fail(n, t)
    BY <1>5, <2>2 DEF MbedIInv, Mbed!Contract!Fail
  <2> QED
    BY <1>5, <2>1, <2>2, MbedDecryptKeepsContract
<1>6. CASE UNCHANGED Mbed!vars
  BY <1>6 DEF MbedIInv, Mbed!vars
<1> QED
  BY <1>1, <1>2, <1>3, <1>4, <1>5, <1>6 DEF Mbed!Next, Mbed!Call

\* The context holds a key of the client, or none.
THEOREM MbedInvariance == Mbed!Spec => []MbedIInv
<1> QED
  BY MbedInitIInv, MbedNextIInv, PTL DEF Mbed!Spec

-------------------------------------------------------------------------------
LEMMA MbedInitContract == Mbed!Init => Mbed!Contract!Init
BY DEF Mbed!Init, Mbed!Contract!Init

LEMMA MbedStepContract ==
    MbedIInv /\ [Mbed!Next]_(Mbed!vars) => [Mbed!Contract!Next]_(Mbed!Contract!vars)
<1> SUFFICES ASSUME MbedIInv, [Mbed!Next]_(Mbed!vars)
      PROVE  [Mbed!Contract!Next]_(Mbed!Contract!vars)
  OBVIOUS
<1> USE DEF Mbed!Contract!Next, Mbed!Contract!Call, Mbed!Contract!vars
<1>1. CASE alive /\ Mbed!Destroy
  BY <1>1 DEF Mbed!Destroy, Mbed!Contract!Destroy
<1>2. ASSUME NEW k \in Key, alive, Mbed!set_encryption_key(k), UNCHANGED alive
      PROVE  Mbed!Contract!Next
  BY <1>2
  DEF Mbed!set_encryption_key, Mbed!mbedtls_gcm_setkey, Mbed!Contract!set_encryption_key
<1>3. ASSUME NEW a \in AuthKey, alive, Mbed!set_authentication_key(a),
             UNCHANGED <<mbed_gcm, alive>>
      PROVE  Mbed!Contract!Next
  BY <1>3 DEF Mbed!set_authentication_key, Mbed!Contract!set_authentication_key
<1>4. ASSUME NEW c \in Packet, alive, Mbed!NextPacket(c), UNCHANGED <<mbed_gcm, alive>>
      PROVE  Mbed!Contract!Next
  BY <1>4 DEF Mbed!NextPacket, Mbed!Contract!NextPacket
<1>5. ASSUME NEW n \in Nonce, NEW t \in Tag, alive, Mbed!decrypt_inplace(n, t),
             UNCHANGED alive
      PROVE  Mbed!Contract!Next
  BY <1>5, MbedDecryptKeepsContract
<1>6. CASE UNCHANGED Mbed!vars
  BY <1>6 DEF Mbed!vars
<1> QED
  BY <1>1, <1>2, <1>3, <1>4, <1>5, <1>6 DEF Mbed!Next, Mbed!Call

\* The decryptor keeps the contract, and without a key it deciphers nothing.
THEOREM MbedImplementation == Mbed!Spec => Mbed!ContractSpec
<1> QED
  BY MbedInvariance, MbedInitContract, MbedStepContract, PTL
  DEF Mbed!Spec, Mbed!ContractSpec, Mbed!Contract!Spec
===============================================================================
