------------------------------- MODULE IdealGcm --------------------------------
(***************************************************************************)
(* AES-GCM for TLC.  A content is a text under a set of key streams, each  *)
(* named by the key and the nonce it comes from; to apply a key stream a   *)
(* second time takes it off again.  The tag of a ciphertext is the tuple   *)
(* of everything it depends on: no two ciphertexts share one.              *)
(***************************************************************************)
CONSTANTS k1, k2, a1, a2, n1, n2

IdealKey == {k1, k2}
IdealAuthKey == {a1, a2}
IdealNonce == {n1, n2}

IdealContent == [text : {"telegram", "damaged"}, streams : SUBSET (IdealKey \X IdealNonce)]

IdealCrypt(key, nonce, content) ==
    [content EXCEPT !.streams = (@ \ {<<key, nonce>>}) \cup ({<<key, nonce>>} \ @)]

IdealTagOf(key, nonce, aad, content) == <<key, nonce, aad, content>>

\* What the meter sends under one of its keys, and the same damaged on the way.
IdealPacket == {[text |-> t, streams |-> {<<k1, n>>}] : t \in {"telegram", "damaged"}, n \in IdealNonce}

\* The tags the meter sends, and those of a meter with other keys.
IdealTag ==
    {IdealTagOf(k, n, a, [text |-> "telegram", streams |-> {<<k, n>>}]) :
        k \in IdealKey, n \in IdealNonce, a \in IdealAuthKey}
===============================================================================
