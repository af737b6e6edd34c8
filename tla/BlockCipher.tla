----------------------------- MODULE BlockCipher -----------------------------
(***************************************************************************)
(* The block-cipher layer the repository takes from the aes and           *)
(* block_modes crates, abstracted for model checking.                      *)
(*                                                                         *)
(* A block is BlockLen bytes (16 in AES) and a byte is a value below      *)
(* Radix (256 in Rust).  AES is used only as a keyed permutation of       *)
(* blocks, so it is modelled by one: Encipher(k, _) rotates the block and *)
(* adds the key to every byte, and Decipher(k, _) is its inverse.  Which  *)
(* permutation it is does not matter to the properties, only that        *)
(* Decipher(k, Encipher(k, b)) = b and that another key gives another     *)
(* block.  PKCS7 padding and CBC chaining are the crates' algorithms and  *)
(* are modelled by what they do.                                          *)
(***************************************************************************)
EXTENDS Naturals, Sequences, SequencesExt, Bitwise

CONSTANTS
    BlockLen,       \* bytes per block (AES: 16)
    Radix           \* byte values 0..Radix-1 (Rust: 256); a power of two

ASSUME /\ BlockLen \in Nat \ {0}
       /\ Radix \in {2^i : i \in 1..8}
       /\ Radix > BlockLen      \* a padding length fits in a byte

ByteVal == 0..(Radix - 1)
Block == [1..BlockLen -> ByteVal]

ZeroBlock == [i \in 1..BlockLen |-> 0]

Rotl(i) == (i % BlockLen) + 1
Rotr(i) == ((i - 2) % BlockLen) + 1

(* The keyed permutation standing for AES. *)
Encipher(k, b) == [i \in 1..BlockLen |-> (b[Rotl(i)] + k) % Radix]
Decipher(k, c) == [i \in 1..BlockLen |-> (c[Rotr(i)] - k) % Radix]

XorBlock(a, b) == [i \in 1..BlockLen |-> a[i] ^^ b[i]]

(* The blocks of a byte string whose length is a multiple of BlockLen. *)
Blocks(s) == [j \in 1..(Len(s) \div BlockLen) |->
                 SubSeq(s, (j - 1) * BlockLen + 1, j * BlockLen)]

(* Pkcs7::pad: n = BlockLen - len % BlockLen bytes of value n, so an      *)
(* aligned message gets a whole block of padding.                          *)
Pkcs7Pad(m) ==
    LET n == BlockLen - (Len(m) % BlockLen)
    IN  m \o [i \in 1..n |-> n]

(* Pkcs7::unpad (block-padding 0.2) accepts a non-empty string whose     *)
(* last byte n is neither 0 nor above the length and whose last n bytes   *)
(* all equal n.                                                            *)
Pkcs7PadOk(p) ==
    IF Len(p) = 0 THEN FALSE
    ELSE LET n == p[Len(p)] IN
         /\ n # 0
         /\ n <= Len(p)
         /\ \A i \in (Len(p) - n + 1)..Len(p) : p[i] = n

Pkcs7Unpad(p) == SubSeq(p, 1, Len(p) - p[Len(p)])

(* CBC chaining over a sequence of blocks, from the chaining value prev. *)
RECURSIVE CbcEncrypt(_, _, _)
CbcEncrypt(k, prev, bs) ==
    IF Len(bs) = 0 THEN <<>>
    ELSE LET c == Encipher(k, XorBlock(Head(bs), prev))
         IN  <<c>> \o CbcEncrypt(k, c, Tail(bs))

RECURSIVE CbcDecrypt(_, _, _)
CbcDecrypt(k, prev, bs) ==
    IF Len(bs) = 0 THEN <<>>
    ELSE <<XorBlock(Decipher(k, Head(bs)), prev)>> \o CbcDecrypt(k, Head(bs), Tail(bs))
=============================================================================
