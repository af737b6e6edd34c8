---------------------------- MODULE SecureMessage ----------------------------
(***************************************************************************)
(* src/deconet/Efficiency/epic_process/encryption/secure_communication.rs *)
(* encrypt_message draws a random IV, enciphers the message as ONE AES    *)
(* block (GenericArray::from_slice panics unless the message is exactly  *)
(* one block) and returns iv || block; decrypt_message slices the first   *)
(* block off as the IV (panicking below one block), deciphers the rest   *)
(* as one block (panicking unless it is exactly one) and ignores the IV.  *)
(* pad_message pads to a multiple of the block size.  A caller encrypts  *)
(* messages, raw (as main does) or padded, and decrypts what arrives:    *)
(* the message intact or cut short by one byte.                          *)
(***************************************************************************)
EXTENDS Naturals, Sequences, SequencesExt, BlockCipher

CONSTANTS
    Keys,           \* keys generate_aes_key may return (one byte value stands for 32)
    IVs,            \* IVs rng.fill may produce
    Messages,       \* messages the caller wants to send
    MaxEncrypt,     \* bound on encrypt_message calls
    None, Panic

ASSUME /\ Keys \subseteq ByteVal
       /\ IVs \subseteq Block
       /\ MaxEncrypt \in Nat

VARIABLES
    encryptions,    \* encrypt_message calls that returned: [key, plain, c]
    lastDecrypt,    \* the last decrypt_message call: [c, key, out]
    panicked

vars == <<encryptions, lastDecrypt, panicked>>

(* pad_message: padding_len = 16 - len % 16 bytes of value padding_len. *)
PadMessage(m) ==
    LET padding_len == BlockLen - (Len(m) % BlockLen)
    IN  m \o [i \in 1..padding_len |-> padding_len]

(* What the caller hands to encrypt_message. *)
Inputs == Messages \cup {PadMessage(m) : m \in Messages}

(* GenericArray::from_slice(message) asserts the length of one block. *)
EncryptPanics(m) == Len(m) # BlockLen

(* Fault: the IV pushed as one element instead of its bytes. *)
EncryptMessageNested(m, k, iv) == <<iv>> \o Encipher(k, m)

(* encrypt_message: iv.to_vec() extended with encrypt_block(message). *)
EncryptMessage(m, k, iv) == iv \o Encipher(k, m)

(* &encrypted_message[..16] panics below one block; from_slice(&[16..]) *)
(* panics unless exactly one block remains.                               *)
DecryptPanics(em) == Len(em) # 2 * BlockLen

(* Fault: the ciphertext sliced from one byte too early. *)
DecryptMessageOffByOne(em, k) == Decipher(k, SubSeq(em, BlockLen, Len(em)))

(* decrypt_message: decrypt_block of the bytes after the IV. *)
DecryptMessage(em, k) == Decipher(k, SubSeq(em, BlockLen + 1, Len(em)))

(* What may arrive of a sent message: all of it, or all but the last byte. *)
Arrivals(c) == {c, SubSeq(c, 1, Len(c) - 1)}

Sent == {encryptions[i].c : i \in DOMAIN encryptions}

(* Every ciphertext sent is an IV followed by one block. *)
TypeOK ==
    /\ \A i \in DOMAIN encryptions : Len(encryptions[i].c) = 2 * BlockLen
    /\ encryptions \in Seq([key : Keys, plain : Inputs, c : Seq(ByteVal)])
    /\ lastDecrypt = None \/ lastDecrypt \in [c : Seq(ByteVal), key : Keys,
                                              out : Seq(ByteVal) \cup {Panic}]
    /\ panicked \in BOOLEAN

Init ==
    /\ encryptions = <<>>
    /\ lastDecrypt = None
    /\ panicked = FALSE

(* encrypt_message(message, &key) *)
Encrypt(m, k) ==
    /\ ~panicked
    /\ Len(encryptions) < MaxEncrypt
    /\ \/ /\ EncryptPanics(m)
          /\ panicked' = TRUE
          /\ UNCHANGED encryptions
       \/ /\ ~EncryptPanics(m)
          /\ \E iv \in IVs :
                encryptions' = Append(encryptions,
                                      [key |-> k, plain |-> m, c |-> EncryptMessage(m, k, iv)])
          /\ UNCHANGED panicked
    /\ UNCHANGED lastDecrypt

(* decrypt_message(&encrypted_message, &key) *)
Decrypt(em, k) ==
    /\ ~panicked
    /\ \/ /\ DecryptPanics(em)
          /\ lastDecrypt' = [c |-> em, key |-> k, out |-> Panic]
          /\ panicked' = TRUE
       \/ /\ ~DecryptPanics(em)
          /\ lastDecrypt' = [c |-> em, key |-> k, out |-> DecryptMessage(em, k)]
          /\ UNCHANGED panicked
    /\ UNCHANGED encryptions

Next ==
    \/ \E m \in Inputs, k \in Keys : Encrypt(m, k)
    \/ \E em \in UNION {Arrivals(c) : c \in Sent}, k \in Keys : Decrypt(em, k)

Spec == Init /\ [][Next]_vars

-----------------------------------------------------------------------------
(* Properties *)

(* decrypt_message of what encrypt_message returned, under the same key, *)
(* gives the message back (main's round trip), whichever IV was drawn.   *)
RoundTrip ==
    lastDecrypt # None =>
        \A i \in DOMAIN encryptions :
            (encryptions[i].c = lastDecrypt.c /\ encryptions[i].key = lastDecrypt.key)
                => lastDecrypt.out = encryptions[i].plain
=============================================================================
