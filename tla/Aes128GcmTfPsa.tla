---------------------------- MODULE Aes128GcmTfPsa -----------------------------
(***************************************************************************)
(* Aes128GcmTfPsa (aes128gcm_tfpsa.h): the PSA Crypto API.  The library    *)
(* keeps the keys, the decryptor an id; one packet takes up to five calls  *)
(* on an operation object.  Each call may fail, those that clean up too:   *)
(* psa_destroy_key, whose status is ignored, and psa_aead_abort, whose     *)
(* status is only logged.                                                  *)
(*                                                                         *)
(* A step of decrypt_inplace is one call of the library with the branch on *)
(* its status, the abort on that branch included.                          *)
(***************************************************************************)
EXTENDS Aes128GcmDecryptor

CONSTANTS
    KeyId,      \* ids psa_import_key may give, none of them 0
    None        \* the key_id 0

ASSUME KeyIdAssumption == None \notin KeyId

VARIABLES
    initialized,
    key_id,
    store,      \* the keys the library holds for this decryptor, by id
    undestroyed,    \* history: ids whose psa_destroy_key failed
    op,         \* psa_aead_operation_t, as the library has it
    unaborted,  \* history: the psa_aead_abort of op failed
    pc,         \* the next call of decrypt_inplace; "idle" outside of it,
                \* "destroyed" once the decryptor is
    args,       \* the arguments nonce and tag of decrypt_inplace
    called_with     \* history: content when decrypt_inplace was called;
                    \* like args, nullopt outside of it

own == <<initialized, key_id, store, undestroyed>>
call == <<op, unaborted, pc, args, called_with>>
vars == <<own, call, aad, content, result>>

\* What an operation has been given; all of it nullopt when it is not active.
Inactive == [key |-> nullopt, nonce |-> nullopt, ad |-> nullopt, hashed |-> nullopt]

Held(key_ids) == [i \in key_ids |-> store[i]]

-------------------------------------------------------------------------------
Init ==
    /\ initialized = TRUE \/ (LibraryFails /\ initialized = FALSE)
    /\ key_id = None
    /\ store = [i \in {} |-> nullopt]
    /\ undestroyed = {}
    /\ op = Inactive
    /\ unaborted = FALSE
    /\ pc = "idle"
    /\ args = nullopt
    /\ aad = nullopt
    /\ content \in Packet
    /\ called_with = nullopt
    /\ result = FALSE

SetKeyRefused ==
    /\ pc = "idle"
    /\ ~initialized
    /\ UNCHANGED vars

\* psa_destroy_key(key_id) leaves the library with the keys in left.
DestroyKey(left) ==
    \/ left = Held(DOMAIN store \ {key_id}) /\ UNCHANGED undestroyed
    \/ /\ LibraryFails /\ key_id # None
       /\ left = store
       /\ undestroyed' = undestroyed \cup {key_id}

Import(others, k) ==
    \/ \E i \in KeyId \ DOMAIN others :
        /\ key_id' = i
        /\ store' = [j \in DOMAIN others \cup {i} |-> IF j = i THEN k ELSE others[j]]
    \/ /\ LibraryFails
       /\ key_id' = None
       /\ store' = others

\* Mutant: the old key is not destroyed.
SetKeyKeepsOld(k) ==
    /\ pc = "idle"
    /\ initialized
    /\ Import(store, k)
    /\ UNCHANGED <<initialized, undestroyed, call, aad, content, result>>

\* The old key is destroyed first: if the import fails there is none.  Its id is
\* forgotten whether it could be destroyed or not.
set_encryption_key(k) ==
    /\ pc = "idle"
    /\ initialized
    /\ \E left \in {store, Held(DOMAIN store \ {key_id})} : DestroyKey(left) /\ Import(left, k)
    /\ UNCHANGED <<initialized, call, aad, content, result>>

-------------------------------------------------------------------------------
(* decrypt_inplace *)

\* psa_aead_abort(&op); the caller goes on as if it had succeeded.
Abort ==
    \/ op' = Inactive /\ unaborted' = FALSE
    \/ LibraryFails /\ op' = op /\ unaborted' = TRUE

Return(res) ==
    /\ pc' = "idle"
    /\ result' = res
    /\ args' = nullopt
    /\ called_with' = nullopt

Proceed(next) ==
    /\ pc' = next
    /\ UNCHANGED <<unaborted, args, called_with, result>>

\* The call fails: abort_and_fail.
AbortAndFail == LibraryFails /\ Abort /\ Return(FALSE)

KeyNotSet ==
    /\ pc = "idle"
    /\ ~initialized \/ key_id = None
    /\ result' = FALSE
    /\ UNCHANGED <<own, call, aad, content>>

\* Every call has an operation object of its own.  Where its setup fails there is
\* nothing the abort has to undo.
Setup(nonce, tag) ==
    /\ pc = "idle"
    /\ initialized /\ key_id # None
    /\ \/ /\ op' = [Inactive EXCEPT !.key = store[key_id]]
          /\ unaborted' = FALSE
          /\ pc' = "set_nonce"
          /\ args' = [nonce |-> nonce, tag |-> tag]
          /\ called_with' = content
          /\ UNCHANGED result
       \/ LibraryFails /\ op' = Inactive /\ unaborted' = FALSE /\ Return(FALSE)
    /\ UNCHANGED <<own, aad, content>>

SetNonce ==
    /\ pc = "set_nonce"
    /\ \/ /\ op' = [op EXCEPT !.nonce = args.nonce]
          /\ Proceed(IF aad # nullopt THEN "update_ad" ELSE "update")
       \/ AbortAndFail
    /\ UNCHANGED <<own, aad, content>>

UpdateAd ==
    /\ pc = "update_ad"
    /\ \/ op' = [op EXCEPT !.ad = aad] /\ Proceed("update")
       \/ AbortAndFail
    /\ UNCHANGED <<own, aad, content>>

\* The call succeeds and has written all of content.
UpdateInFull ==
    /\ op' = [op EXCEPT !.hashed = content]
    /\ content' = Crypt(op.key, op.nonce, content)
    /\ Proceed(IF aad # nullopt THEN "verify" ELSE "skip_verify")

\* Mutants: what has been produced is not compared; it is, without an abort.
UpdateUnchecked ==
    /\ pc = "update"
    /\ \/ UpdateInFull
       \/ content' \in Content /\ AbortAndFail
       \/ /\ content' \in Content /\ LibraryFails
          /\ Proceed("skip_verify")
          /\ UNCHANGED op
    /\ UNCHANGED <<own, aad>>

UpdateWithoutAbort ==
    /\ pc = "update"
    /\ \/ UpdateInFull
       \/ /\ content' \in Content /\ LibraryFails
          /\ Return(FALSE)
          /\ UNCHANGED <<op, unaborted>>
    /\ UNCHANGED <<own, aad>>

\* It fails, or produces another number of bytes: content may hold anything.
Update ==
    /\ pc = "update"
    /\ \/ UpdateInFull
       \/ content' \in Content /\ AbortAndFail
    /\ UNCHANGED <<own, aad>>

\* Without an authentication key the operation is aborted, not finished.
SkipVerify ==
    /\ pc = "skip_verify"
    /\ Abort
    /\ Return(TRUE)
    /\ UNCHANGED <<own, aad, content>>

\* A call that succeeds ends the operation.  It fails on a wrong tag, and
\* tail_len # 0 counts as a failure too.
Verify ==
    /\ pc = "verify"
    /\ \/ /\ args.tag = TagOf(op.key, op.nonce, op.ad, op.hashed)
          /\ op' = Inactive /\ UNCHANGED unaborted
          /\ Return(TRUE)
       \/ /\ args.tag # TagOf(op.key, op.nonce, op.ad, op.hashed)
          /\ Abort
          /\ Return(FALSE)
       \/ AbortAndFail
    /\ UNCHANGED <<own, aad, content>>

Destroy ==
    /\ pc = "idle"
    /\ pc' = "destroyed"
    /\ DestroyKey(store')
    /\ UNCHANGED <<initialized, key_id, op, unaborted, args, called_with, aad, content, result>>

Next ==
    \/ SetKeyRefused
    \/ \E k \in Key : set_encryption_key(k)
    \/ \E a \in AuthKey : pc = "idle" /\ set_authentication_key(a) /\ UNCHANGED <<own, call>>
    \/ \E c \in Packet : pc = "idle" /\ NextPacket(c) /\ UNCHANGED <<own, call>>
    \/ KeyNotSet
    \/ \E n \in Nonce, t \in Tag : Setup(n, t)
    \/ SetNonce
    \/ UpdateAd
    \/ Update
    \/ SkipVerify
    \/ Verify
    \/ Destroy

Spec == Init /\ [][Next]_vars

-------------------------------------------------------------------------------
(* Properties *)

\* Whatever call fails, decrypt_inplace finishes or aborts its operation before it
\* returns: unless the abort itself fails, the library's memory for operations is not
\* used up by failing packets.
OperationReleased == pc \in {"idle", "destroyed"} => op = Inactive \/ unaborted

\* Of all the keys that were ever set the library holds the one of key_id, until the
\* destructor, and those it failed to destroy: no other is left behind, and the key
\* in use is none that was to be destroyed.
KeysHeld ==
    LET in_use == IF pc = "destroyed" THEN {} ELSE {key_id} \ {None}
    IN  DOMAIN store = in_use \cup undestroyed /\ in_use \cap undestroyed = {}

Contract == INSTANCE Aes128Gcm WITH
    key <- IF pc = "destroyed" \/ key_id = None THEN nullopt ELSE store[key_id],
    content <- IF pc \in {"idle", "destroyed"} THEN content ELSE called_with,
    alive <- pc # "destroyed"

\* The calls of decrypt_inplace together do what the contract has as one step,
\* whichever of them fails: true is only returned for content that was deciphered
\* in full with the latest key and verified if there is an authentication key.
ContractSpec == Contract!Spec
===============================================================================
