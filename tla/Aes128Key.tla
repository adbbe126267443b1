------------------------------- MODULE Aes128Key -------------------------------
(***************************************************************************)
(* Aes128Key::from_hex (aes128gcm.h): a key is read from hexadecimal       *)
(* digits, two for a byte.  A step is one turn of the loop.                *)
(***************************************************************************)
EXTENDS Integers, Sequences

CONSTANTS
    KeyLength,  \* bytes of a key: 16 in the code
    NotHex,     \* a character that is no hexadecimal digit
    nullopt,
    Input       \* strings the client may pass: a digit is its value, 0..15

VARIABLES
    hex,        \* the argument
    i, arr,
    key         \* what from_hex returned: the bytes, or nullopt; <<>> until then

vars == <<hex, i, arr, key>>

\* std::from_chars on two characters, base 16: it takes the digits there are, and
\* fails only if there are none.
from_chars(first, second) ==
    IF first = NotHex THEN nullopt
    ELSE IF second = NotHex THEN first
    ELSE 16 * first + second

Init ==
    /\ hex \in Input
    /\ i = 0
    /\ arr = [n \in 1..KeyLength |-> 0]
    /\ key = <<>>

Running == key = <<>> /\ Len(hex) = 2 * KeyLength

WrongLength ==
    /\ key = <<>>
    /\ Len(hex) # 2 * KeyLength
    /\ key' = nullopt
    /\ UNCHANGED <<hex, i, arr>>

\* Only the error code of from_chars is looked at, not how far it got.
ReadByte ==
    /\ Running
    /\ i < KeyLength
    /\ LET byte == from_chars(hex[2 * i + 1], hex[2 * i + 2])
       IN  IF byte = nullopt
           THEN key' = nullopt /\ UNCHANGED <<i, arr>>
           ELSE /\ arr' = [arr EXCEPT ![i + 1] = byte]
                /\ i' = i + 1
                /\ UNCHANGED key
    /\ UNCHANGED hex

ReturnKey ==
    /\ Running
    /\ i = KeyLength
    /\ key' = arr
    /\ UNCHANGED <<hex, i, arr>>

Next == WrongLength \/ ReadByte \/ ReturnKey

Spec == Init /\ [][Next]_vars

\* A string with symbols that are not hexadecimal digits is no key, as the test
\* of from_hex says (dlms_packet_decryptor_test.cpp:30): a mistyped key is
\* reported, not replaced by another one.
NonHexIsRejected ==
    key \notin {<<>>, nullopt} => \A n \in 1..Len(hex) : hex[n] # NotHex
===============================================================================
