------------------------------- MODULE HexKey -------------------------------
(***************************************************************************)
(* src/deconet/Efficiency/epic_process/encryption/generate_key.rs:        *)
(* generate_key(key_length) rejects a length that is not a multiple of 8 *)
(* and otherwise draws key_length bytes from ChaCha20Rng;                 *)
(* generate_hex_key formats each byte with "{:02X}".  A hex digit is      *)
(* kept as its value 0..15 (the letter 0-9A-F it prints is a bijection).  *)
(***************************************************************************)
EXTENDS Naturals, Sequences

CONSTANTS
    Lengths,        \* key_length arguments
    RandomBytes,    \* values rng.gen::<u8>() may return
    None, Err

ASSUME Lengths \subseteq Nat /\ RandomBytes \subseteq 0..255

VARIABLE last       \* the last generate_hex_key call: [len, key, out], or None

vars == <<last>>

(* generate_key: Err unless key_length % 8 == 0 *)
KeyLengthOk(n) == n % 8 = 0

(* Fault: the byte pushed as one digit, unformatted. *)
FormatByteRaw(b) == <<b>>

(* Fault: "{:X}", without the zero padding to two digits. *)
FormatByteUnpadded(b) == IF b < 16 THEN <<b>> ELSE <<b \div 16, b % 16>>

(* format!("{:02X}", b): two hex digits, the high one first. *)
FormatByte(b) == <<b \div 16, b % 16>>

RECURSIVE HexOf(_)
(* key.iter().map(|&b| format!("{:02X}", b)).collect() *)
HexOf(key) == IF key = <<>> THEN <<>> ELSE FormatByte(Head(key)) \o HexOf(Tail(key))

TypeOK ==
    \/ last = None
    \/ /\ last \in [len : Lengths, key : Seq(RandomBytes), out : {last.out}]
       /\ last.out = Err \/ last.out \in Seq(0..15)

Init == last = None

(* generate_hex_key(key_length): generate_key(key_length)? then the hex. *)
GenerateHexKey(n) ==
    \/ /\ ~KeyLengthOk(n)
       /\ last' = [len |-> n, key |-> <<>>, out |-> Err]
    \/ /\ KeyLengthOk(n)
       /\ \E key \in [1..n -> RandomBytes] :
             last' = [len |-> n, key |-> key, out |-> HexOf(key)]

Next == \E n \in Lengths : GenerateHexKey(n)

Spec == Init /\ [][Next]_vars

-----------------------------------------------------------------------------
(* Properties *)

(* The hex key is 2 * key_length digits and decodes, pair by pair, to the *)
(* key that was drawn (every byte, below 16 included).                    *)
HexDecodesToKey ==
    (last # None /\ last.out # Err) =>
        /\ Len(last.out) = 2 * last.len
        /\ \A i \in 1..last.len : 16 * last.out[2 * i - 1] + last.out[2 * i] = last.key[i]
=============================================================================
