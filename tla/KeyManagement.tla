---------------------------- MODULE KeyManagement ----------------------------
(***************************************************************************)
(* The key life cycle of src/deconet/Efficiency/epic_process/encryption/  *)
(* key_management.rs, driven by one caller (its main) and composed with   *)
(* the XOR cipher of encrypt_data.rs / decrypt_data.rs (XorCipher).        *)
(*                                                                         *)
(* Key bytes.  derive_key_from_password returns the bytes of argon2's     *)
(* *encoded* hash, the ASCII string                                        *)
(*     $argon2id$v=19$m=65536,t=10,p=4$<b64 salt>$<b64 hash>               *)
(* A key is abstracted to three fields of that layout: the parameter      *)
(* prefix (identical for every derived key, first byte '$'), the salt     *)
(* field and the hash field.  rotate_key XORs two keys position by        *)
(* position, so the abstraction keeps what XOR does to each field.  Keys  *)
(* from generate_key are RandomBytes sequences of a length in KeyLengths. *)
(*                                                                         *)
(* The program is single threaded: stretch_key runs its loop to the end   *)
(* before the caller does anything else, which the Idle guard expresses.  *)
(***************************************************************************)
EXTENDS Naturals, Sequences, FiniteSets, XorCipher

CONSTANTS
    Passwords,      \* passwords given to derive/rotate (strings)
    Salts,          \* salts given to derive/rotate (strings)
    HashField(_, _),\* the b64 hash field of argon2's output for (password, salt), ASCII
    SaltField(_),   \* the b64 salt field of argon2's output for a salt, ASCII
    RandomBytes,    \* byte values rand::random may produce (a sample)
    KeyLengths,     \* key_length arguments of generate_key
    StretchTargets, \* target_length arguments of stretch_key
    Plaintexts,     \* data given to encrypt_data
    NoKey, NoFile, None

ASSUME /\ RandomBytes \subseteq Bytes
       /\ \A p \in Passwords, s \in Salts : HashField(p, s) \in 0..127
       /\ \A s \in Salts : SaltField(s) \in 0..127

VARIABLES
    key,            \* the caller's key: Vec<u8>, or NoKey before the first one
    origin,         \* ghost: "derived" if key came from derive and rotations only
    keyFile,        \* contents of the key file, or NoFile
    lastSaved,      \* ghost: the last key save_key_to_file reported written, or None
    stretch,        \* a running stretch_key: [buf, target], or None
    lastCipher,     \* the last encrypt_data call: [plain, cipher, key]
    lastDecrypt,    \* the last decrypt_data call of lastCipher: [c, plain, key]
    lastResult,     \* Ok/Err of the last call: "none", "ok", "err"
    panicked        \* the process panicked (index out of bounds)

vars == <<key, origin, keyFile, lastSaved, stretch, lastCipher, lastDecrypt,
          lastResult, panicked>>

-----------------------------------------------------------------------------
(* argon2 (rust-argon2) *)

Dollar == 36            \* '$', the first byte of every encoded hash
MinSaltLen == 8         \* argon2::MIN_SALT_LEN; shorter salts give SaltTooShort

SaltTooShort(s) == Len(s) < MinSaltLen

(* Fault: argon2::hash_raw instead of hash_encoded, raw bytes out. *)
EncodedHashRaw(p, s) == <<200, SaltField(s), HashField(p, s)>>

(* argon2::hash_encoded(password, salt, config).as_bytes() when Ok *)
EncodedHash(p, s) == <<Dollar, SaltField(s), HashField(p, s)>>

(* std::str::from_utf8 succeeds: the bytes are well-formed UTF-8. *)
Utf8Width(b) ==
    CASE b < 128         -> 1
      [] b \in 194..223  -> 2
      [] b \in 224..239  -> 3
      [] b \in 240..244  -> 4
      [] OTHER           -> 0
Utf8Second(b) ==
    CASE b = 224 -> 160..191
      [] b = 237 -> 128..159
      [] b = 240 -> 144..191
      [] b = 244 -> 128..143
      [] OTHER   -> 128..191
RECURSIVE Utf8Valid(_)
Utf8Valid(s) ==
    IF Len(s) = 0 THEN TRUE
    ELSE LET w == Utf8Width(s[1]) IN
         /\ w > 0
         /\ Len(s) >= w
         /\ w > 1 => s[2] \in Utf8Second(s[1])
         /\ \A i \in 3..w : s[i] \in 128..191
         /\ Utf8Valid(SubSeq(s, w + 1, Len(s)))

(* a.bytes().zip(b).map(|(a, b)| a ^ b): stops at the shorter input. *)
XorZip(a, b) ==
    [i \in 1..(IF Len(a) < Len(b) THEN Len(a) ELSE Len(b)) |-> a[i] ^^ b[i]]

-----------------------------------------------------------------------------

Idle == stretch = None /\ ~panicked

Ok     == lastResult' = "ok"
Err    == lastResult' = "err"

TypeOK ==
    /\ key \in Seq(Bytes) \cup {NoKey}
    /\ origin \in {"none", "derived", "random", "file"}
    /\ keyFile \in Seq(Bytes) \cup {NoFile}
    /\ lastSaved \in Seq(Bytes) \cup {None}
    /\ stretch = None \/ stretch \in [buf : Seq(Bytes), target : StretchTargets]
    /\ lastCipher = None \/ lastCipher \in [plain : Plaintexts, cipher : Seq(Bytes), key : Seq(Bytes)]
    /\ lastDecrypt = None \/ lastDecrypt \in [c : [plain : Plaintexts, cipher : Seq(Bytes), key : Seq(Bytes)],
                                              plain : Seq(Bytes), key : Seq(Bytes)]
    /\ lastResult \in {"none", "ok", "err"}
    /\ panicked \in BOOLEAN

Init ==
    /\ key = NoKey
    /\ origin = "none"
    /\ keyFile = NoFile
    /\ lastSaved = None
    /\ stretch = None
    /\ lastCipher = None
    /\ lastDecrypt = None
    /\ lastResult = "none"
    /\ panicked = FALSE

(* generate_key(key_length): key_length random bytes, any length accepted. *)
GenerateKey(n) ==
    /\ Idle
    /\ \E bytes \in [1..n -> RandomBytes] : key' = bytes
    /\ origin' = "random"
    /\ Ok
    /\ UNCHANGED <<keyFile, lastSaved, stretch, lastCipher, lastDecrypt, panicked>>

(* derive_key_from_password(password, salt): the encoded Argon2id hash. *)
DeriveKeyFromPassword(p, s) ==
    /\ Idle
    /\ \/ /\ SaltTooShort(s)
          /\ Err
          /\ UNCHANGED <<key, origin>>
       \/ /\ ~SaltTooShort(s)
          /\ key' = EncodedHash(p, s)
          /\ origin' = "derived"
          /\ Ok
    /\ UNCHANGED <<keyFile, lastSaved, stretch, lastCipher, lastDecrypt, panicked>>

(* rotate_key(old_key, new_password, salt): from_utf8(old_key)?, then    *)
(* derive_key_from_password(new_password, salt)?, then XOR the two.       *)
RotateKey(p, s) ==
    /\ Idle
    /\ key # NoKey
    /\ \/ /\ ~Utf8Valid(key)
          /\ Err
          /\ UNCHANGED key
       \/ /\ Utf8Valid(key)
          /\ SaltTooShort(s)
          /\ Err
          /\ UNCHANGED key
       \/ /\ Utf8Valid(key)
          /\ ~SaltTooShort(s)
          /\ key' = XorZip(key, EncodedHash(p, s))
          /\ Ok
    /\ UNCHANGED <<origin, keyFile, lastSaved, stretch, lastCipher, lastDecrypt, panicked>>

(* stretch_key(key, target_length): entry, copying the key into the buffer. *)
StretchKeyStart(n) ==
    /\ Idle
    /\ key # NoKey
    /\ stretch' = [buf |-> key, target |-> n]
    /\ UNCHANGED <<key, origin, keyFile, lastSaved, lastCipher, lastDecrypt, lastResult, panicked>>

(* One iteration of the while loop: hash_encoded(&stretched_key, b"",    *)
(* &Config::default()), and on Err unwrap_or_else gives an empty String. *)
(* The salt b"" is always shorter than MinSaltLen.                        *)
StretchSalt == ""
StretchKeyLoop ==
    /\ stretch # None
    /\ Len(stretch.buf) < stretch.target
    /\ LET extra == IF SaltTooShort(StretchSalt) THEN <<>>
                    ELSE <<Dollar, SaltField(StretchSalt)>>
       IN stretch' = [stretch EXCEPT !.buf = @ \o extra]
    /\ UNCHANGED <<key, origin, keyFile, lastSaved, lastCipher, lastDecrypt, lastResult, panicked>>

(* Loop exit: truncate(target_length) and return. *)
StretchKeyReturn ==
    /\ stretch # None
    /\ Len(stretch.buf) >= stretch.target
    /\ stretch' = None
    /\ Ok
    /\ UNCHANGED <<key, origin, keyFile, lastSaved, lastCipher, lastDecrypt, panicked>>

(* save_key_to_file: File::create truncates, then write_all; either may  *)
(* fail with an io::Error that ? returns.                                  *)
SaveKeyToFile ==
    /\ Idle
    /\ key # NoKey
    /\ \/ /\ Err                                   \* File::create fails
          /\ UNCHANGED <<keyFile, lastSaved>>
       \/ /\ keyFile' = key                        \* both succeed
          /\ lastSaved' = key
          /\ Ok
       \/ /\ keyFile' = <<>>                       \* write_all fails
          /\ Err
          /\ UNCHANGED lastSaved
    /\ UNCHANGED <<key, origin, stretch, lastCipher, lastDecrypt, panicked>>

(* Fault: File::open's error not checked; a missing file read as the key. *)
LoadKeyFromFileUnchecked ==
    /\ Idle
    /\ key' = keyFile
    /\ origin' = "file"
    /\ Ok
    /\ UNCHANGED <<keyFile, lastSaved, stretch, lastCipher, lastDecrypt, panicked>>

(* load_key_from_file: File::open? then read_to_end. *)
LoadKeyFromFile ==
    /\ Idle
    /\ \/ /\ keyFile = NoFile
          /\ Err
          /\ UNCHANGED <<key, origin>>
       \/ /\ keyFile # NoFile
          /\ key' = keyFile
          /\ origin' = "file"
          /\ Ok
    /\ UNCHANGED <<keyFile, lastSaved, stretch, lastCipher, lastDecrypt, panicked>>

(* encrypt_data(data, &key) with the caller's current key. *)
Encrypt(m) ==
    /\ Idle
    /\ key # NoKey
    /\ \/ /\ KeyIndexPanics(key)
          /\ panicked' = TRUE
          /\ UNCHANGED lastCipher
       \/ /\ ~KeyIndexPanics(key)
          /\ lastCipher' = [plain |-> m, cipher |-> EncryptData(m, key), key |-> key]
          /\ UNCHANGED panicked
    /\ UNCHANGED <<key, origin, keyFile, lastSaved, stretch, lastDecrypt, lastResult>>

(* decrypt_data(&ciphertext, &key) of the last ciphertext, current key. *)
Decrypt ==
    /\ Idle
    /\ key # NoKey
    /\ lastCipher # None
    /\ \/ /\ KeyIndexPanics(key)
          /\ panicked' = TRUE
          /\ UNCHANGED lastDecrypt
       \/ /\ ~KeyIndexPanics(key)
          /\ lastDecrypt' = [c |-> lastCipher,
                             plain |-> DecryptData(lastCipher.cipher, key),
                             key |-> key]
          /\ UNCHANGED panicked
    /\ UNCHANGED <<key, origin, keyFile, lastSaved, stretch, lastCipher, lastResult>>

Next ==
    \/ \E n \in KeyLengths : GenerateKey(n)
    \/ \E p \in Passwords, s \in Salts : DeriveKeyFromPassword(p, s) \/ RotateKey(p, s)
    \/ \E n \in StretchTargets : StretchKeyStart(n)
    \/ StretchKeyLoop
    \/ StretchKeyReturn
    \/ SaveKeyToFile
    \/ LoadKeyFromFile
    \/ \E m \in Plaintexts : Encrypt(m)
    \/ Decrypt

Spec == Init /\ [][Next]_vars

-----------------------------------------------------------------------------
(* Properties *)

(* rotate_key starts with from_utf8(old_key)?.  A key obtained from      *)
(* derive_key_from_password and any chain of rotate_key calls stays valid *)
(* UTF-8, so rotating it never fails there: derive returns the ASCII      *)
(* encoded hash and XOR of ASCII bytes is ASCII.                          *)
DerivedKeysRotatable ==
    origin = "derived" => Utf8Valid(key)

(* decrypt_data with the key that encrypt_data used returns the plaintext. *)
DecryptWithSameKeyRoundTrips ==
    (lastDecrypt # None /\ lastDecrypt.key = lastDecrypt.c.key)
        => lastDecrypt.plain = lastDecrypt.c.plain

(* Spec 4.4: rotation yields a new independent key, so encryption under  *)
(* the current key never leaves the plaintext as it is.  encrypt_data    *)
(* uses key[0] only, and rotate_key XORs two encoded hashes whose first  *)
(* bytes are both '$'.                                                    *)
CiphertextHidesPlaintext ==
    lastCipher # None => lastCipher.cipher # lastCipher.plain

(* Spec 7: errors are recoverable results.  A failed save_key_to_file    *)
(* after a successful one leaves the key file holding the saved key.     *)
SavedKeySurvivesFailedSave ==
    lastSaved # None => keyFile = lastSaved

(* Spec 4.3: stretch(key, n) returns n bytes for every n >= len(key).    *)
(* A stretch_key call eventually returns.                                  *)
StretchTerminates ==
    stretch # None ~> stretch = None
=============================================================================
