-------------------------------- MODULE AesCbc --------------------------------
(***************************************************************************)
(* The AES-128-CBC layer of src/deconet/Efficiency/epic_auth/            *)
(* encryption.rs: encrypt_data and decrypt_data over Cbc<Aes128, Pkcs7>   *)
(* with an all-zero IV, called by one thread (main and the tests) with   *)
(* keys from generate_key.  A caller encrypts messages, and decrypts     *)
(* ciphertexts it produced or copies of them altered in transit, under   *)
(* any key it holds.  decrypt_data unwraps the result of decrypt_vec, so *)
(* a padding error panics and ends the process.                           *)
(***************************************************************************)
EXTENDS Naturals, Sequences, SequencesExt, BlockCipher

CONSTANTS
    Keys,           \* keys generate_key may return (one byte value stands for 16)
    Messages,       \* plaintexts given to encrypt_data
    MaxEncrypt,     \* bound on encrypt_data calls
    None, Panic

ASSUME /\ Keys \subseteq ByteVal
       /\ MaxEncrypt \in Nat

VARIABLES
    encryptions,    \* every encrypt_data call in order: [key, iv, plain, c]
    lastDecrypt,    \* the last decrypt_data call: [c, key, out], out = Panic on unwrap
    panicked

vars == <<encryptions, lastDecrypt, panicked>>

(* let iv = [0u8; 16] *)
Iv == ZeroBlock

(* Fault: the message enciphered without padding. *)
EncryptDataNoPad(data, key) ==
    FlattenSeq(CbcEncrypt(key, Iv, Blocks(data)))

(* encrypt_data: Aes128Cbc::new_from_slices(key, &iv), encrypt_vec(data) *)
EncryptData(data, key) ==
    FlattenSeq(CbcEncrypt(key, Iv, Blocks(Pkcs7Pad(data))))

(* decrypt_vec succeeds: whole blocks, and valid padding after CBC. *)
DecryptOk(data, key) ==
    /\ Len(data) % BlockLen = 0
    /\ Pkcs7PadOk(FlattenSeq(CbcDecrypt(key, Iv, Blocks(data))))

(* decrypt_data when DecryptOk: the unpadded CBC decryption. *)
DecryptData(data, key) ==
    Pkcs7Unpad(FlattenSeq(CbcDecrypt(key, Iv, Blocks(data))))

(* A ciphertext as it may arrive: intact, or with its first byte altered. *)
Arrivals(c) ==
    IF Len(c) = 0 THEN {c}
    ELSE {c, [c EXCEPT ![1] = (@ + 1) % Radix]}

Produced == {encryptions[i].c : i \in DOMAIN encryptions}

TypeOK ==
    /\ encryptions \in Seq([key : Keys, iv : Block, plain : Messages, c : Seq(ByteVal)])
    /\ lastDecrypt = None \/ lastDecrypt \in [c : Seq(ByteVal), key : Keys,
                                              out : Seq(ByteVal) \cup {Panic}]
    /\ panicked \in BOOLEAN

Init ==
    /\ encryptions = <<>>
    /\ lastDecrypt = None
    /\ panicked = FALSE

(* encrypt_data(data, &key) *)
Encrypt(m, k) ==
    /\ ~panicked
    /\ Len(encryptions) < MaxEncrypt
    /\ encryptions' = Append(encryptions,
                             [key |-> k, iv |-> Iv, plain |-> m, c |-> EncryptData(m, k)])
    /\ UNCHANGED <<lastDecrypt, panicked>>

(* Fault: a failed decrypt_vec mapped to a missing result, not a panic. *)
DecryptSwallowed(c, k) ==
    /\ ~panicked
    /\ lastDecrypt' = [c |-> c, key |-> k,
                       out |-> IF DecryptOk(c, k) THEN DecryptData(c, k) ELSE None]
    /\ UNCHANGED <<encryptions, panicked>>

(* decrypt_data(&ciphertext, &key): the plaintext, or the panic of       *)
(* cipher.decrypt_vec(data).unwrap().                                     *)
Decrypt(c, k) ==
    /\ ~panicked
    /\ \/ /\ DecryptOk(c, k)
          /\ lastDecrypt' = [c |-> c, key |-> k, out |-> DecryptData(c, k)]
          /\ UNCHANGED panicked
       \/ /\ ~DecryptOk(c, k)
          /\ lastDecrypt' = [c |-> c, key |-> k, out |-> Panic]
          /\ panicked' = TRUE
    /\ UNCHANGED encryptions

Next ==
    \/ \E m \in Messages, k \in Keys : Encrypt(m, k)
    \/ \E c \in UNION {Arrivals(p) : p \in Produced}, k \in Keys : Decrypt(c, k)

Spec == Init /\ [][Next]_vars

-----------------------------------------------------------------------------
(* Properties *)

(* test_encrypt_decrypt: decrypt_data of an unaltered ciphertext under  *)
(* the key that encrypted it returns the plaintext, for every message    *)
(* length (padding added by encrypt_vec, removed by decrypt_vec).        *)
RoundTrip ==
    lastDecrypt # None =>
        \A i \in DOMAIN encryptions :
            (encryptions[i].c = lastDecrypt.c /\ encryptions[i].key = lastDecrypt.key)
                => lastDecrypt.out = encryptions[i].plain

(* Spec 4.5: decryption is fail-closed: plaintext is returned only for a *)
(* ciphertext encrypted under the key used, never for an altered one.    *)
DecryptFailsClosed ==
    (lastDecrypt # None /\ lastDecrypt.out # Panic) =>
        \E i \in DOMAIN encryptions :
            encryptions[i].c = lastDecrypt.c /\ encryptions[i].key = lastDecrypt.key
=============================================================================
