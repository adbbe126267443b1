------------------------- MODULE Aes128GcmTfPsaProofs --------------------------
(***************************************************************************)
(* Aes128GcmTfPsa for every cipher and whichever of its library calls      *)
(* fail: no operation and no key is left behind but those the library      *)
(* failed to give up, and the calls that make up a decrypt_inplace do what *)
(* the contract has as one step.                                           *)
(***************************************************************************)
EXTENDS Aes128GcmTfPsa, TLAPS

\* The operation with what it has been given so far.
Given(nonce, ad, hashed) ==
    [key |-> store[key_id], nonce |-> nonce, ad |-> ad, hashed |-> hashed]

Types ==
    /\ initialized \in BOOLEAN
    /\ key_id \in KeyId \cup {None}
    /\ None \notin DOMAIN store \cup undestroyed
    /\ \A i \in DOMAIN store : store[i] \in Key
    /\ pc \in {"idle", "destroyed", "set_nonce", "update_ad", "update", "verify", "skip_verify"}
    /\ aad \in AuthKey \cup {nullopt}
    /\ content \in Content
    /\ result \in BOOLEAN

\* A decryptor that could not be initialised has no key; one that returned TRUE
\* has been called with a nonce and a tag.
History ==
    /\ ~initialized => key_id = None
    /\ result => \E n \in Nonce, t \in Tag : TRUE

\* Within decrypt_inplace.
Called ==
    pc \notin {"idle", "destroyed"} =>
        /\ key_id # None
        /\ args.nonce \in Nonce /\ args.tag \in Tag
        /\ called_with \in Content

\* What the operation has been given before each of its calls, and that the
\* content is deciphered as soon as it has been hashed.
Stage ==
    /\ pc = "set_nonce" => op = Given(nullopt, nullopt, nullopt) /\ content = called_with
    /\ pc = "update_ad" =>
        op = Given(args.nonce, nullopt, nullopt) /\ content = called_with /\ aad # nullopt
    /\ pc = "update" => op = Given(args.nonce, aad, nullopt) /\ content = called_with
    /\ pc \in {"verify", "skip_verify"} =>
        /\ op = Given(args.nonce, aad, called_with)
        /\ content = Crypt(store[key_id], args.nonce, called_with)
        /\ aad # nullopt <=> pc = "verify"

IInv ==
    /\ OperationReleased
    /\ KeysHeld
    /\ Types
    /\ History
    /\ Called
    /\ Stage

LEMMA InitIInv == Init => IInv
<1> SUFFICES ASSUME Init PROVE IInv
  OBVIOUS
<1>1. OperationReleased
  BY DEF Init, OperationReleased
<1>2. KeysHeld
  BY DEF Init, KeysHeld
<1>3. Types
  BY GcmAssumption DEF Init, Types
<1>4. History /\ Called /\ Stage
  BY DEF Init, History, Called, Stage
<1> QED
  BY <1>1, <1>2, <1>3, <1>4 DEF IInv

\* The key the contract speaks of.
CurrentKey == IF pc = "destroyed" \/ key_id = None THEN nullopt ELSE store[key_id]

LEMMA KeyOfCall ==
    ASSUME IInv, pc # "destroyed"
    PROVE  /\ key_id # None => CurrentKey = store[key_id] /\ CurrentKey \in Key
           /\ key_id = None => CurrentKey = nullopt
BY DEF IInv, KeysHeld, Types, CurrentKey

-------------------------------------------------------------------------------
(* Each operation keeps the invariant *)

\* A call that ends leaves nothing of its operation.
LEMMA ReturnIInv ==
    ASSUME IInv, NEW res \in BOOLEAN, Return(res), op' = Inactive \/ unaborted', UNCHANGED <<own, aad>>,
           content' \in Content, res => \E n \in Nonce, t \in Tag : TRUE, pc # "destroyed"
    PROVE  IInv'
<1> USE DEF Return, own
<1>1. OperationReleased' /\ KeysHeld'
  BY DEF IInv, OperationReleased, KeysHeld, Inactive
<1>2. Types'
  BY DEF IInv, Types
<1>3. History' /\ Called' /\ Stage'
  BY DEF IInv, History, Called, Stage
<1> QED
  BY <1>1, <1>2, <1>3 DEF IInv

LEMMA NonceOfCall ==
    ASSUME IInv, pc \notin {"idle", "destroyed"}
    PROVE  \E n \in Nonce, t \in Tag : TRUE
BY DEF IInv, Called

\* What psa_destroy_key leaves are the keys it failed to destroy, now or before.
LEMMA DestroyKeyLeaves ==
    ASSUME IInv, pc # "destroyed", NEW left, DestroyKey(left)
    PROVE  /\ DOMAIN left = undestroyed'
           /\ \A i \in DOMAIN left : left[i] \in Key
<1>1. /\ DOMAIN store = ({key_id} \ {None}) \cup undestroyed
      /\ ({key_id} \ {None}) \cap undestroyed = {}
  BY DEF IInv, KeysHeld
<1>2. CASE left = Held(DOMAIN store \ {key_id}) /\ UNCHANGED undestroyed
  <2>1. DOMAIN left = DOMAIN store \ {key_id} /\ \A i \in DOMAIN left : left[i] = store[i]
    BY <1>2 DEF Held
  <2>2. None \notin DOMAIN store
    BY DEF IInv, Types
  <2> QED
    BY <1>1, <1>2, <2>1, <2>2 DEF IInv, Types
<1>3. CASE left = store /\ key_id # None /\ undestroyed' = undestroyed \cup {key_id}
  BY <1>1, <1>3 DEF IInv, Types
<1> QED
  BY <1>2, <1>3 DEF DestroyKey

LEMMA SetKeyIInv ==
    ASSUME IInv, NEW k \in Key, set_encryption_key(k)
    PROVE  IInv'
<1>1. PICK left : DestroyKey(left) /\ Import(left, k)
  BY DEF set_encryption_key
<1>2. /\ pc = "idle" /\ initialized
      /\ UNCHANGED <<initialized, call, aad, content, result>>
  BY DEF set_encryption_key
<1>3. DOMAIN left = undestroyed' /\ \A i \in DOMAIN left : left[i] \in Key
  BY <1>1, <1>2, DestroyKeyLeaves
<1>4. None \notin undestroyed'
  BY <1>1 DEF DestroyKey, IInv, Types
<1>5. /\ KeysHeld'
      /\ key_id' \in KeyId \cup {None} /\ None \notin DOMAIN store'
      /\ \A i \in DOMAIN store' : store'[i] \in Key
  <2>1. ASSUME NEW i \in KeyId \ DOMAIN left, key_id' = i,
               store' = [j \in DOMAIN left \cup {i} |-> IF j = i THEN k ELSE left[j]]
        PROVE  /\ KeysHeld'
               /\ key_id' \in KeyId \cup {None} /\ None \notin DOMAIN store'
               /\ \A j \in DOMAIN store' : store'[j] \in Key
    <3>1. i # None
      BY KeyIdAssumption
    <3>2. DOMAIN store' = {i} \cup undestroyed' /\ {i} \cap undestroyed' = {}
      BY <1>3, <2>1
    <3>3. KeysHeld'
      BY <1>2, <2>1, <3>1, <3>2 DEF KeysHeld, call
    <3> QED
      BY <1>3, <1>4, <2>1, <3>1, <3>2, <3>3
  <2>2. CASE key_id' = None /\ store' = left
    BY <1>2, <1>3, <1>4, <2>2 DEF KeysHeld, call
  <2> QED
    BY <1>1, <2>1, <2>2 DEF Import
<1>6. OperationReleased' /\ Called' /\ Stage' /\ History'
  BY <1>2 DEF IInv, OperationReleased, Called, Stage, History, call, Inactive
<1>7. Types'
  BY <1>2, <1>4, <1>5 DEF IInv, Types, call
<1> QED
  BY <1>5, <1>6, <1>7 DEF IInv

\* An operation between two packets that touches neither key nor operation.
LEMMA IdleIInv ==
    ASSUME IInv, pc = "idle", UNCHANGED <<own, call>>,
           aad' \in AuthKey \cup {nullopt}, content' \in Content,
           result' = result \/ result' = FALSE
    PROVE  IInv'
<1> USE DEF own, call
<1>1. OperationReleased' /\ KeysHeld'
  BY DEF IInv, OperationReleased, KeysHeld, Inactive
<1>2. Types'
  BY DEF IInv, Types
<1>3. History' /\ Called' /\ Stage'
  BY DEF IInv, History, Called, Stage
<1> QED
  BY <1>1, <1>2, <1>3 DEF IInv

\* A call that goes on to its next stage.
LEMMA ProceedIInv ==
    ASSUME IInv, pc \notin {"idle", "destroyed"},
           pc' \in {"set_nonce", "update_ad", "update", "verify", "skip_verify"},
           UNCHANGED <<own, aad, args, called_with, result>>,
           content' \in Content, Stage'
    PROVE  IInv'
<1> USE DEF own
<1>1. OperationReleased' /\ KeysHeld'
  BY DEF IInv, OperationReleased, KeysHeld
<1>2. Types'
  BY DEF IInv, Types
<1>3. History' /\ Called'
  BY DEF IInv, History, Called
<1> QED
  BY <1>1, <1>2, <1>3 DEF IInv

LEMMA SetupIInv ==
    ASSUME IInv, NEW n \in Nonce, NEW t \in Tag, Setup(n, t)
    PROVE  IInv'
<1>1. CASE op' = Inactive /\ Return(FALSE)
  BY <1>1, ReturnIInv DEF Setup, IInv, Types
<1>2. CASE /\ op' = [Inactive EXCEPT !.key = store[key_id]]
           /\ pc' = "set_nonce"
           /\ args' = [nonce |-> n, tag |-> t]
           /\ called_with' = content
           /\ UNCHANGED result
  <2> USE <1>2 DEF Setup, own
  <2>1. OperationReleased' /\ KeysHeld'
    BY DEF IInv, OperationReleased, KeysHeld
  <2>2. Types' /\ History' /\ Called'
    BY DEF IInv, Types, History, Called
  <2>3. Stage'
    BY DEF Stage, Given, Inactive
  <2> QED
    BY <2>1, <2>2, <2>3 DEF IInv
<1> QED
  BY <1>1, <1>2 DEF Setup

LEMMA SetNonceIInv ==
    ASSUME IInv, SetNonce
    PROVE  IInv'
<1>1. CASE AbortAndFail
  BY <1>1, ReturnIInv DEF SetNonce, AbortAndFail, Abort, IInv, Types
<1>2. CASE /\ op' = [op EXCEPT !.nonce = args.nonce]
           /\ Proceed(IF aad # nullopt THEN "update_ad" ELSE "update")
  <2>1. Stage'
    BY <1>2 DEF SetNonce, Proceed, IInv, Stage, Given, own
  <2> QED
    BY <1>2, <2>1, ProceedIInv DEF SetNonce, Proceed, IInv, Types
<1> QED
  BY <1>1, <1>2 DEF SetNonce

LEMMA UpdateAdIInv ==
    ASSUME IInv, UpdateAd
    PROVE  IInv'
<1>1. CASE AbortAndFail
  BY <1>1, ReturnIInv DEF UpdateAd, AbortAndFail, Abort, IInv, Types
<1>2. CASE op' = [op EXCEPT !.ad = aad] /\ Proceed("update")
  <2>1. Stage'
    BY <1>2 DEF UpdateAd, Proceed, IInv, Stage, Given, own
  <2> QED
    BY <1>2, <2>1, ProceedIInv DEF UpdateAd, Proceed, IInv, Types
<1> QED
  BY <1>1, <1>2 DEF UpdateAd

LEMMA UpdateIInv ==
    ASSUME IInv, Update
    PROVE  IInv'
<1>1. CASE content' \in Content /\ AbortAndFail
  BY <1>1, ReturnIInv DEF Update, AbortAndFail, Abort
<1>2. CASE UpdateInFull
  <2>1. store[key_id] \in Key /\ args.nonce \in Nonce /\ called_with \in Content
    BY KeyOfCall DEF Update, IInv, Called
  <2>2. op = Given(args.nonce, aad, nullopt) /\ content = called_with
    BY DEF Update, IInv, Stage
  <2>3. content' = Crypt(store[key_id], args.nonce, called_with)
    BY <1>2, <2>2 DEF UpdateInFull, Given
  <2>4. content' \in Content
    BY <2>1, <2>3, GcmAssumption
  <2>5. op' = Given(args.nonce, aad, called_with)
    BY <1>2, <2>2 DEF UpdateInFull, Given
  <2>6. Stage'
    BY <1>2, <2>3, <2>5 DEF Update, UpdateInFull, Proceed, Stage, Given, own
  <2> QED
    BY <1>2, <2>4, <2>6, ProceedIInv DEF Update, UpdateInFull, Proceed
<1> QED
  BY <1>1, <1>2 DEF Update

LEMMA EndIInv ==
    ASSUME IInv, SkipVerify \/ Verify
    PROVE  IInv'
<1>1. (\E res \in BOOLEAN : Return(res)) /\ (op' = Inactive \/ unaborted')
  BY DEF SkipVerify, Verify, AbortAndFail, Abort
<1>2. pc \notin {"idle", "destroyed"} /\ UNCHANGED <<own, aad, content>>
  BY DEF SkipVerify, Verify
<1> QED
  BY <1>1, <1>2, ReturnIInv, NonceOfCall DEF IInv, Types

LEMMA DestroyIInv ==
    ASSUME IInv, Destroy
    PROVE  IInv'
<1>1. /\ pc = "idle" /\ pc' = "destroyed" /\ DestroyKey(store')
      /\ UNCHANGED <<initialized, key_id, op, unaborted, args, called_with, aad, content, result>>
  BY DEF Destroy
<1>2. DOMAIN store' = undestroyed' /\ \A i \in DOMAIN store' : store'[i] \in Key
  BY <1>1, DestroyKeyLeaves
<1>3. OperationReleased' /\ KeysHeld'
  BY <1>1, <1>2 DEF IInv, OperationReleased, KeysHeld, Inactive
<1>4. Types'
  <2>1. None \notin undestroyed'
    BY <1>1 DEF DestroyKey, IInv, Types
  <2> QED
    BY <1>1, <1>2, <2>1 DEF IInv, Types
<1>5. History' /\ Called' /\ Stage'
  BY <1>1 DEF IInv, History, Called, Stage
<1> QED
  BY <1>3, <1>4, <1>5 DEF IInv

LEMMA NextIInv == IInv /\ [Next]_vars => IInv'
<1> SUFFICES ASSUME IInv, [Next]_vars PROVE IInv'
  OBVIOUS
<1>1. CASE SetKeyRefused \/ UNCHANGED vars
  BY <1>1 DEF SetKeyRefused, vars, own, call, IInv, OperationReleased, KeysHeld, Types, History,
              Called, Stage, Given, Inactive
<1>2. ASSUME NEW k \in Key, set_encryption_key(k) PROVE IInv'
  BY <1>2, SetKeyIInv
<1>3. ASSUME NEW a \in AuthKey, pc = "idle", set_authentication_key(a), UNCHANGED <<own, call>>
      PROVE  IInv'
  BY <1>3, IdleIInv DEF set_authentication_key, IInv, Types
<1>4. ASSUME NEW c \in Packet, pc = "idle", NextPacket(c), UNCHANGED <<own, call>>
      PROVE  IInv'
  BY <1>4, IdleIInv, GcmAssumption DEF NextPacket, IInv, Types
<1>5. CASE KeyNotSet
  BY <1>5, IdleIInv DEF KeyNotSet, IInv, Types
<1>6. ASSUME NEW n \in Nonce, NEW t \in Tag, Setup(n, t) PROVE IInv'
  BY <1>6, SetupIInv
<1>7. CASE SetNonce
  BY <1>7, SetNonceIInv
<1>8. CASE UpdateAd
  BY <1>8, UpdateAdIInv
<1>9. CASE Update
  BY <1>9, UpdateIInv
<1>10. CASE SkipVerify \/ Verify
  BY <1>10, EndIInv
<1>11. CASE Destroy
  BY <1>11, DestroyIInv
<1> QED
  BY <1>1, <1>2, <1>3, <1>4, <1>5, <1>6, <1>7, <1>8, <1>9, <1>10, <1>11 DEF Next

\* In every state the operation has been given what its next call needs, and
\* nothing of an earlier packet.
THEOREM Invariance == Spec => []IInv
<1> QED
  BY InitIInv, NextIInv, PTL DEF Spec

\* Whichever call fails, no operation outlives decrypt_inplace, but one that
\* psa_aead_abort itself fails on.
THEOREM OperationsAreReleased == Spec => []OperationReleased
<1>1. IInv => OperationReleased
  BY DEF IInv
<1> QED
  BY <1>1, Invariance, PTL

\* The library holds the key in use and those that psa_destroy_key failed on, and no
\* other, however often set_encryption_key is called and whichever imports fail.
THEOREM NoOtherKeyIsHeld == Spec => []KeysHeld
<1>1. IInv => KeysHeld
  BY DEF IInv
<1> QED
  BY <1>1, Invariance, PTL

-------------------------------------------------------------------------------
(* The contract *)

\* What the contract takes for content: what was there when the call began.
CallContent == IF pc \in {"idle", "destroyed"} THEN content ELSE called_with

LEMMA InitContract == Init => Contract!Init
BY GcmAssumption DEF Init, Contract!Init

\* A step in the middle of a call is none of the contract.
LEMMA ProceedContract ==
    ASSUME pc # "destroyed", pc' # "destroyed",
           UNCHANGED <<own, aad, result>>, CallContent' = CallContent
    PROVE  UNCHANGED Contract!vars
BY DEF own, CallContent, Contract!vars

\* A call that fails where the contract lets it.
LEMMA FailContract ==
    ASSUME IInv, NEW n \in Nonce, NEW t \in Tag, pc # "destroyed", pc' = "idle",
           UNCHANGED <<own, aad>>, result' = FALSE, content' \in Content,
           \/ LibraryFails
           \/ key_id = None
           \/ aad # nullopt /\ t # TagOf(store[key_id], n, aad, CallContent)
    PROVE  Contract!Fail(n, t)
<1>1. LibraryFails \/ CurrentKey = nullopt \/ (aad # nullopt /\ t # TagOf(CurrentKey, n, aad, CallContent))
  BY KeyOfCall
<1>2. key_id' = key_id /\ store' = store /\ aad' = aad
  BY DEF own
<1> QED
  BY <1>1, <1>2 DEF CurrentKey, CallContent, Contract!Fail, Contract!Authentic

LEMMA NextContract ==
    ASSUME pc # "destroyed", pc' # "destroyed",
           \E n \in Nonce, t \in Tag : Contract!Succeed(n, t) \/ Contract!Fail(n, t)
    PROVE  Contract!Next
BY DEF Contract!Next, Contract!Call

\* An abort within a call.
LEMMA AbortContract ==
    ASSUME IInv, pc \notin {"idle", "destroyed"}, AbortAndFail, UNCHANGED <<own, aad>>,
           content' \in Content
    PROVE  Contract!Next
<1>1. PICK n \in Nonce, t \in Tag : TRUE
  BY NonceOfCall
<1>2. Contract!Fail(n, t)
  BY FailContract DEF AbortAndFail, Return
<1>3. pc # "destroyed" /\ pc' # "destroyed"
  BY DEF AbortAndFail, Return
<1> QED
  BY <1>2, <1>3, NextContract

\* The last step of a call that deciphered content.
LEMMA SucceedContract ==
    ASSUME IInv, pc \in {"verify", "skip_verify"}, Return(TRUE), UNCHANGED <<own, aad, content>>,
           pc = "verify" => args.tag = TagOf(op.key, op.nonce, op.ad, op.hashed)
    PROVE  Contract!Next
<1> DEFINE n == args.nonce
           t == args.tag
<1>1. n \in Nonce /\ t \in Tag /\ key_id # None
  BY DEF IInv, Called
<1>2. CurrentKey = store[key_id] /\ CurrentKey # nullopt
  BY <1>1, KeyOfCall, GcmAssumption
<1>3. /\ op = Given(n, aad, called_with)
      /\ content = Crypt(CurrentKey, n, called_with)
      /\ aad # nullopt <=> pc = "verify"
  BY <1>2 DEF IInv, Stage
<1>4. aad # nullopt => t = TagOf(CurrentKey, n, aad, called_with)
  BY <1>2, <1>3 DEF Given
<1>5. /\ CallContent = called_with
      /\ CallContent' = content
      /\ CurrentKey' = CurrentKey
      /\ aad' = aad /\ result' = TRUE /\ pc # "destroyed" /\ pc' # "destroyed"
  BY DEF CallContent, CurrentKey, Return, own
<1>6. Contract!Succeed(n, t)
  BY <1>2, <1>3, <1>4, <1>5 DEF CurrentKey, CallContent, Contract!Succeed, Contract!Authentic
<1> QED
  BY <1>1, <1>5, <1>6, NextContract

LEMMA SetKeyContract ==
    ASSUME IInv, NEW k \in Key, set_encryption_key(k)
    PROVE  Contract!Next
<1>1. PICK left : DestroyKey(left) /\ Import(left, k)
  BY DEF set_encryption_key
<1>2. /\ pc = "idle" /\ pc' = "idle"
      /\ UNCHANGED <<aad, content, result>>
  BY DEF set_encryption_key, call
<1>3. CurrentKey' = k \/ (LibraryFails /\ CurrentKey' = nullopt)
  BY <1>1, <1>2, KeyIdAssumption DEF Import, CurrentKey
<1>4. Contract!set_encryption_key(k)
  BY <1>2, <1>3 DEF CurrentKey, Contract!set_encryption_key
<1> QED
  BY <1>2, <1>4 DEF Contract!Next, Contract!Call

LEMMA VerifyContract ==
    ASSUME IInv, Verify
    PROVE  Contract!Next
<1> USE DEF Verify
<1>1. CASE AbortAndFail
  BY <1>1, AbortContract DEF IInv, Types
<1>2. CASE args.tag = TagOf(op.key, op.nonce, op.ad, op.hashed) /\ Return(TRUE)
  BY <1>2, SucceedContract
<1>3. CASE args.tag # TagOf(op.key, op.nonce, op.ad, op.hashed) /\ Return(FALSE)
  <2>1. args.nonce \in Nonce /\ args.tag \in Tag
    BY DEF IInv, Called
  <2>2. op = Given(args.nonce, aad, called_with) /\ aad # nullopt
    BY DEF IInv, Stage
  <2>3. args.tag # TagOf(store[key_id], args.nonce, aad, CallContent)
    BY <1>3, <2>2 DEF Given, CallContent
  <2>4. Contract!Fail(args.nonce, args.tag)
    BY <1>3, <2>1, <2>2, <2>3, FailContract DEF Return, IInv, Types
  <2> QED
    BY <1>3, <2>1, <2>4, NextContract DEF Return
<1> QED
  BY <1>1, <1>2, <1>3

\* Without a key result was FALSE already, or a nonce and a tag are at hand.
LEMMA KeyNotSetContract ==
    ASSUME IInv, KeyNotSet
    PROVE  Contract!Next \/ UNCHANGED Contract!vars
<1> USE DEF KeyNotSet
<1>1. key_id = None
  BY DEF IInv, History
<1>2. CASE result = FALSE
  BY <1>2, ProceedContract DEF call, CallContent
<1>3. CASE result # FALSE
  <2>1. PICK n \in Nonce, t \in Tag : TRUE
    BY <1>3 DEF IInv, History, Types
  <2>2. Contract!Fail(n, t)
    BY <1>1, FailContract DEF call, IInv, Types
  <2> QED
    BY <2>2, NextContract DEF call
<1> QED
  BY <1>2, <1>3

LEMMA SetupContract ==
    ASSUME IInv, NEW n \in Nonce, NEW t \in Tag, Setup(n, t)
    PROVE  Contract!Next \/ UNCHANGED Contract!vars
<1> USE DEF Setup
<1>1. CASE LibraryFails /\ Return(FALSE)
  <2>1. Contract!Fail(n, t)
    BY <1>1, FailContract DEF Return, IInv, Types
  <2> QED
    BY <1>1, <2>1, NextContract DEF Return
<1>2. CASE pc' = "set_nonce" /\ called_with' = content /\ UNCHANGED result
  BY <1>2, ProceedContract DEF CallContent
<1> QED
  BY <1>1, <1>2

\* A library call within decrypt_inplace that is not its last.
LEMMA InnerContract ==
    ASSUME IInv, SetNonce \/ UpdateAd \/ Update
    PROVE  Contract!Next \/ UNCHANGED Contract!vars
<1>1. pc \notin {"idle", "destroyed"} /\ UNCHANGED <<own, aad>>
  BY DEF SetNonce, UpdateAd, Update
<1>2. CASE AbortAndFail
  <2>1. content' \in Content
    BY <1>1, <1>2 DEF SetNonce, UpdateAd, Update, UpdateInFull, Proceed, AbortAndFail, Return, IInv, Types
  <2> QED
    BY <1>1, <1>2, <2>1, AbortContract
<1>3. CASE /\ pc' \in {"update_ad", "update", "verify", "skip_verify"}
           /\ UNCHANGED <<called_with, result>>
  BY <1>1, <1>3, ProceedContract DEF CallContent
<1> QED
  BY <1>2, <1>3 DEF SetNonce, UpdateAd, Update, UpdateInFull, Proceed

LEMMA StepContract == IInv /\ [Next]_vars => [Contract!Next]_(Contract!vars)
<1> SUFFICES ASSUME IInv, [Next]_vars PROVE Contract!Next \/ UNCHANGED Contract!vars
  OBVIOUS
<1>1. CASE SetKeyRefused \/ UNCHANGED vars
  BY <1>1 DEF SetKeyRefused, vars, own, call, Contract!vars
<1>2. ASSUME NEW k \in Key, set_encryption_key(k) PROVE Contract!Next
  BY <1>2, SetKeyContract
<1>3. ASSUME NEW a \in AuthKey, pc = "idle", set_authentication_key(a), UNCHANGED <<own, call>>
      PROVE  Contract!Next
  BY <1>3 DEF set_authentication_key, own, call, Contract!Next, Contract!Call,
              Contract!set_authentication_key
<1>4. ASSUME NEW c \in Packet, pc = "idle", NextPacket(c), UNCHANGED <<own, call>>
      PROVE  Contract!Next
  BY <1>4 DEF NextPacket, own, call, Contract!Next, Contract!Call, Contract!NextPacket
<1>5. CASE KeyNotSet
  BY <1>5, KeyNotSetContract
<1>6. ASSUME NEW n \in Nonce, NEW t \in Tag, Setup(n, t)
      PROVE  Contract!Next \/ UNCHANGED Contract!vars
  BY <1>6, SetupContract
<1>7. CASE SetNonce \/ UpdateAd \/ Update
  BY <1>7, InnerContract
<1>8. CASE SkipVerify
  BY <1>8, SucceedContract DEF SkipVerify
<1>9. CASE Verify
  BY <1>9, VerifyContract
<1>10. CASE Destroy
  BY <1>10 DEF Destroy, Contract!Next, Contract!Destroy
<1> QED
  BY <1>1, <1>2, <1>3, <1>4, <1>5, <1>6, <1>7, <1>8, <1>9, <1>10 DEF Next

\* The calls of decrypt_inplace do together what the contract has as one step.
THEOREM Implementation == Spec => ContractSpec
<1> QED
  BY Invariance, InitContract, StepContract, PTL DEF Spec, ContractSpec, Contract!Spec
===============================================================================
