------------------------------ MODULE XorCipher ------------------------------
(***************************************************************************)
(* The placeholder cipher of src/deconet/Efficiency/epic_process/         *)
(* encryption/encrypt_data.rs and decrypt_data.rs (the two files define   *)
(* the same encrypt_data and decrypt_data): every byte of the data is     *)
(* XORed with key[0], the first byte of the key.  Byte strings are TLA+   *)
(* sequences of naturals below 256; Rust's key[0] is key[1] here.          *)
(***************************************************************************)
EXTENDS Naturals, Sequences, Bitwise

Bytes == 0..255

(* encrypt_data: data.iter().map(|&x| x ^ key[0]).collect() *)
EncryptData(data, key) == [i \in DOMAIN data |-> data[i] ^^ key[1]]

(* Fault: the last key byte instead of the first. *)
DecryptDataLastByte(data, key) == [i \in DOMAIN data |-> data[i] ^^ key[Len(key)]]

(* decrypt_data: the same map, so it is its own inverse. *)
DecryptData(data, key) == [i \in DOMAIN data |-> data[i] ^^ key[1]]

(* key[0] on an empty Vec panics (index out of bounds). *)
KeyIndexPanics(key) == Len(key) = 0
=============================================================================
