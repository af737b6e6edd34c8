-------------------------- MODULE MCAuthentication --------------------------
(***************************************************************************)
(* The identity, network and cipher programs, checked together.  Every file of the repository *)
(* is a program of its own (its own main), and none calls another, so     *)
(* this model is their disjoint union: Init chooses the program that runs *)
(* and only that program's variables change.  The state space is the sum, *)
(* not the product, of the programs' state spaces.                        *)
(*                                                                         *)
(*   auth     epic_auth/authentication.rs           AuthManager           *)
(*   session  epic_process/authentication/logout.rs Session               *)
(*   users    epic_process/authentication/login.rs  UserDirectory         *)
(*   account  register.rs, verify.rs, reset_password.rs   Account         *)
(*   echo     epic_auth/communication.rs            EchoExchange          *)
(*   tcp      epic_process/network/establish_connection.rs   TcpServer    *)
(*   keys     encryption/key_management.rs, encrypt_data.rs, decrypt_data.rs *)
(*                                                  KeyManagement         *)
(*   aes      epic_auth/encryption.rs               AesCbc                *)
(*   message  encryption/secure_communication.rs    SecureMessage         *)
(*   hex      encryption/generate_key.rs            HexKey                *)
(*   stream   encryption/encrypt_data.rs, decrypt_data.rs   XorStream     *)
(*                                                                         *)
(* One cipher block is 2 bytes of 4 values (BlockLen, Radix of           *)
(* BlockCipher), so messages below, at and above a block and keys that   *)
(* differ all occur.                                                       *)
(***************************************************************************)
EXTENDS Naturals, Sequences, FiniteSets, TLC

CONSTANTS
    c1, c2,                 \* callers of the AuthManager
    s1, s2, s3,             \* Session values
    cred,                   \* a fingerprint, token or smart-card id
    e1, e2,                 \* email addresses
    u1, u2, u3,             \* account usernames
    t1, t2,                 \* clients of listen_for_tcp_connections
    None, Panic, Err, NoKey, NoFile

VARIABLES
    program,
    users, tokens, returned, registered, presented, lastValidate,
    logged_in, user_id,
    user_map, lastLogin,
    username, email, password, verified, accountRegistered, verificationSent,
    srv, port, cli, conn, pending, serverGot, response, resets,
    key, origin, keyFile, lastSaved, stretch, lastCipher, lastDecrypt, lastResult, panicked,
    aesEncryptions, aesLastDecrypt, aesPanicked,
    msgEncryptions, msgLastDecrypt, msgPanicked,
    hexLast,
    streamKey, sent, inbox, peer, buffer, bytesRead, received, streamPc,
    tcpSrv, tcpCur, backlog, tcpCli, tcpSide, tcpSent, readN, greeted, tcpGot

amVars == <<users, tokens, returned, registered, presented, lastValidate>>
seVars == <<logged_in, user_id>>
udVars == <<user_map, lastLogin>>
acVars == <<username, email, password, verified, accountRegistered, verificationSent>>
ecVars == <<srv, port, cli, conn, pending, serverGot, response, resets>>
kmVars == <<key, origin, keyFile, lastSaved, stretch, lastCipher, lastDecrypt, lastResult, panicked>>
aesVars == <<aesEncryptions, aesLastDecrypt, aesPanicked>>
msgVars == <<msgEncryptions, msgLastDecrypt, msgPanicked>>
xsVars == <<streamKey, sent, inbox, peer, buffer, bytesRead, received, streamPc>>
tsVars == <<tcpSrv, tcpCur, backlog, tcpCli, tcpSide, tcpSent, readN, greeted, tcpGot>>
vars == <<program, amVars, seVars, udVars, acVars, ecVars, kmVars, aesVars, msgVars, hexLast, xsVars,
          tsVars>>

(* Two users whose names format to distinct tokens, the right and a wrong *)
(* password, two callers and three successful logins.                     *)
AM == INSTANCE AuthManager WITH
        Usernames <- {"alice", "bob"}, Passwords <- {"hunter2", "wrong"},
        Callers <- {c1, c2}, BogusToken <- "nobody", MaxAuth <- 3

(* Three sessions; user ids 1 (the admin id) to 4 that the fixed logins  *)
(* assign and 7; the one accepted credential pair and a wrong password.  *)
SE == INSTANCE Session WITH
        Sessions <- {s1, s2, s3}, UserIds <- {1, 2, 3, 4, 7},
        Usernames <- {"admin", "eve"}, Passwords <- {"password", "guess"},
        Credentials <- {cred}

(* main's admin and a second user, main's password and another. *)
UD == INSTANCE UserDirectory WITH
        Usernames <- {"admin", "bob"}, Passwords <- {"password", "hunter2"},
        Emails <- {e1, e2}

(* Passwords of 4, 11 and 7 bytes around the minimum of 8; a reset token *)
(* below and one above validate_reset_token's minimum of 10.             *)
AC == INSTANCE Account WITH
        Usernames <- {u1, u2, u3}, Emails <- {e1, e2},
        Passwords <- {"pass", "password123", "hunter2"},
        Tokens <- {"tok", "valid_reset_token"},
        registered <- accountRegistered

(* "Hello, server!" in three chunks, "Message received" in two, so reads *)
(* and writes can be partial; one connection reset.                       *)
EC == INSTANCE EchoExchange WITH MsgLen <- 3, RespLen <- 2, MaxResets <- 1

(* Two clients, so one can hold up or bring down the server for the     *)
(* other; requests of two bytes, so a read can be short; a greeting of    *)
(* two bytes, so a receive can be; one client that dies.                  *)
TS == INSTANCE TcpServer WITH
        Clients <- {t1, t2}, MsgLen <- 2, GreetLen <- 2, MaxResets <- 1,
        srv <- tcpSrv, cur <- tcpCur, cli <- tcpCli, side <- tcpSide, sent <- tcpSent,
        got <- tcpGot

(* "mysalt" is the salt of key_management.rs main (6 bytes, too short    *)
(* for argon2), "saltsalt" one argon2 accepts.  Hash fields are distinct *)
(* ASCII letters per password; random bytes are 0xC8, a UTF-8 lead byte  *)
(* that is invalid unless a continuation byte follows.                    *)
MCHashField(p, s) == IF p = "pw-a" THEN 65 ELSE 66        \* 'A', 'B'
MCSaltField(s) == 99                                       \* 'c'

KM == INSTANCE KeyManagement WITH
        Passwords <- {"pw-a", "pw-b"}, Salts <- {"mysalt", "saltsalt"},
        HashField <- MCHashField, SaltField <- MCSaltField,
        RandomBytes <- {200}, KeyLengths <- {0, 3}, StretchTargets <- {2, 4},
        Plaintexts <- {<<72, 105>>}                          \* "Hi"

(* Messages of 0 to 3 bytes: below, at and above one block. *)
AES == INSTANCE AesCbc WITH
        BlockLen <- 2, Radix <- 4, Keys <- {1, 2},
        Messages <- {<<>>, <<1>>, <<2, 3>>, <<1, 2, 3>>}, MaxEncrypt <- 2,
        encryptions <- aesEncryptions, lastDecrypt <- aesLastDecrypt,
        panicked <- aesPanicked

(* A message of one block, one shorter (main's case) and one longer. *)
MSG == INSTANCE SecureMessage WITH
        BlockLen <- 2, Radix <- 4, Keys <- {1, 2}, IVs <- {<<0, 0>>, <<1, 2>>},
        Messages <- {<<1>>, <<2, 3>>, <<1, 2, 3>>}, MaxEncrypt <- 2,
        encryptions <- msgEncryptions, lastDecrypt <- msgLastDecrypt,
        panicked <- msgPanicked

(* main's length is 32; 0 and 8 are the smallest accepted, 4 is refused; *)
(* byte values below and above 16 show the zero padding.                 *)
HEX == INSTANCE HexKey WITH
        Lengths <- {0, 4, 8}, RandomBytes <- {10, 171}, last <- hexLast

(* The empty key and a key of one byte; sends of one and two bytes into *)
(* a two-byte buffer, so reads are short, full and leave stale bytes.     *)
XS == INSTANCE XorStream WITH
        Keys <- {<<>>, <<3>>}, Chunks <- {<<1>>, <<2, 3>>}, BufLen <- 2, MaxSent <- 3,
        key <- streamKey, pc <- streamPc

Programs == {"auth", "session", "users", "account", "echo", "tcp",
             "keys", "aes", "message", "hex", "stream"}

(* A program that does not run stays in one of its initial states. *)
Init ==
    /\ program \in Programs
    /\ AM!Init /\ SE!Init /\ UD!Init /\ AC!Init /\ EC!Init /\ TS!Init
    /\ KM!Init /\ AES!Init /\ MSG!Init /\ HEX!Init /\ XS!Init
    /\ program # "account" => username = u1 /\ email = e1 /\ password = "pass"
    /\ program # "echo" => port = "free"
    /\ program # "stream" => streamKey = <<3>>

(* A step of program p: A, with every other program's variables left   *)
(* alone.                                                                 *)
AuthStep(A) ==
    program = "auth" /\ A /\ UNCHANGED <<program, seVars, udVars, acVars, ecVars, tsVars, kmVars, aesVars, msgVars, hexLast, xsVars>>
SessionStep(A) ==
    program = "session" /\ A /\ UNCHANGED <<program, amVars, udVars, acVars, ecVars, tsVars, kmVars, aesVars, msgVars, hexLast, xsVars>>
UsersStep(A) ==
    program = "users" /\ A /\ UNCHANGED <<program, amVars, seVars, acVars, ecVars, tsVars, kmVars, aesVars, msgVars, hexLast, xsVars>>
AccountStep(A) ==
    program = "account" /\ A /\ UNCHANGED <<program, amVars, seVars, udVars, ecVars, tsVars, kmVars, aesVars, msgVars, hexLast, xsVars>>
EchoStep(A) ==
    program = "echo" /\ A /\ UNCHANGED <<program, amVars, seVars, udVars, acVars, tsVars, kmVars, aesVars, msgVars, hexLast, xsVars>>
TcpStep(A) ==
    program = "tcp" /\ A /\ UNCHANGED <<program, amVars, seVars, udVars, acVars, ecVars, kmVars, aesVars, msgVars, hexLast, xsVars>>
KeysStep(A) ==
    program = "keys" /\ A /\ UNCHANGED <<program, amVars, seVars, udVars, acVars, ecVars, tsVars, aesVars, msgVars, hexLast, xsVars>>
AesStep(A) ==
    program = "aes" /\ A /\ UNCHANGED <<program, amVars, seVars, udVars, acVars, ecVars, tsVars, kmVars, msgVars, hexLast, xsVars>>
MessageStep(A) ==
    program = "message" /\ A /\ UNCHANGED <<program, amVars, seVars, udVars, acVars, ecVars, tsVars, kmVars, aesVars, hexLast, xsVars>>
HexStep(A) ==
    program = "hex" /\ A /\ UNCHANGED <<program, amVars, seVars, udVars, acVars, ecVars, tsVars, kmVars, aesVars, msgVars, xsVars>>
StreamStep(A) ==
    program = "stream" /\ A /\ UNCHANGED <<program, amVars, seVars, udVars, acVars, ecVars, tsVars, kmVars, aesVars, msgVars, hexLast>>

Next ==
    \/ AuthStep(AM!Next)
    \/ SessionStep(SE!Next)
    \/ UsersStep(UD!Next)
    \/ AccountStep(AC!Next)
    \/ EchoStep(EC!Next)
    \/ TcpStep(TS!Next)
    \/ KeysStep(KM!Next)
    \/ AesStep(AES!Next)
    \/ MessageStep(MSG!Next)
    \/ HexStep(HEX!Next)
    \/ StreamStep(XS!Next)

Spec == Init /\ [][Next]_vars

(* The echo program's two threads: the OS scheduler runs every runnable *)
(* thread; nothing is assumed of a process holding the port, nor of     *)
(* resets.  key_management.rs is single threaded: once stretch_key runs, *)
(* its loop is the only step the program can take.  The                  *)
(* stream loop is the only thread of its program; its peer is not assumed *)
(* to do anything.  The listen_for_tcp_connections thread is scheduled    *)
(* whenever it can run; its clients are not assumed to do anything.  The  *)
(* other programs need no fairness.                                        *)
FairSpec ==
    /\ Spec
    /\ WF_vars(EchoStep(EC!Server)) /\ WF_vars(EchoStep(EC!Client))
    /\ WF_vars(KeysStep(KM!StretchKeyLoop)) /\ WF_vars(KeysStep(KM!StretchKeyReturn))
    /\ WF_vars(StreamStep(XS!Loop))
    /\ WF_vars(TcpStep(TS!Server))

-----------------------------------------------------------------------------
(* The properties, stated and explained in the programs' modules. *)

(* authentication.rs: the AuthManager maps stay well formed. *)
AuthTypeOK == AM!TypeOK

(* validate_token accepts a token only if its user authenticated with   *)
(* the password register_user stored, whoever presents it.               *)
ValidatedTokenBackedByCredential == AM!ValidatedTokenBackedByCredential

(* Spec 9: only a caller to whom authenticate_user returned a token can *)
(* present a token validate_token accepts.                               *)
TokensUnforgeable == AM!TokensUnforgeable

(* Spec 4.2 and 8: authentication implements the abstract TokenIssuer,  *)
(* whose every issue returns a token never issued before.                *)
ImplementsTokenIssuer == AM!ImplementsTokenIssuer

(* logout.rs: each session holds a flag and an optional user id. *)
SessionTypeOK == SE!TypeOK

(* is_admin holds only of a session that is logged in. *)
AdminOnlyWhenLoggedIn == SE!AdminOnlyWhenLoggedIn

(* login.rs: the user map holds well-formed User records. *)
UserDirectoryTypeOK == UD!TypeOK

(* register.rs, verify.rs, reset_password.rs: the account fields stay *)
(* well formed under every method.                                       *)
AccountTypeOK == AC!TypeOK

(* communication.rs: both threads and the connection stay well formed. *)
EchoTypeOK == EC!TypeOK

(* The client finishes an exchange with its own server only after the  *)
(* server's read returned and its response was written.                 *)
ExchangeOrdered == EC!ExchangeOrdered

(* The echo program's main always returns or panics when port 8080 is  *)
(* free at start.                                                         *)
MainTerminates ==
    (program = "echo" /\ port = "free") => <>(cli \in {"done", "panicked"})

(* key_management.rs: keys, the key file and the results stay well formed. *)
KeysTypeOK == KM!TypeOK

(* A key derived by derive_key_from_password stays valid UTF-8 through *)
(* rotate_key, so rotation never fails on a derived key.                *)
DerivedKeysRotatable == KM!DerivedKeysRotatable

(* decrypt_data under the key that encrypted returns the plaintext. *)
DecryptWithSameKeyRoundTrips == KM!DecryptWithSameKeyRoundTrips

(* Spec 4.4: encrypt_data never returns the plaintext itself, whatever *)
(* sequence of derive, rotate and generate produced the key.            *)
CiphertextHidesPlaintext == KM!CiphertextHidesPlaintext

(* Spec 7: a failed save_key_to_file leaves the saved key in the file. *)
SavedKeySurvivesFailedSave == KM!SavedKeySurvivesFailedSave

(* Spec 4.3: a stretch_key call eventually returns. *)
StretchTerminates == KM!StretchTerminates

(* encryption.rs: the encryptions and the last decryption stay well formed. *)
AesTypeOK == AES!TypeOK

(* decrypt_data of an unaltered ciphertext under its key gives the message. *)
AesRoundTrip == AES!RoundTrip

(* Spec 4.5 and 8: a ciphertext altered in transit, or decrypted under   *)
(* another key, never yields plaintext.                                   *)
DecryptFailsClosed == AES!DecryptFailsClosed

(* secure_communication.rs: the messages stay well formed. *)
MessageTypeOK == MSG!TypeOK

(* decrypt_message of encrypt_message's output under its key gives the  *)
(* message back, whichever IV was drawn.                                 *)
MessageRoundTrip == MSG!RoundTrip

(* generate_key.rs: the result is Err or a sequence of hex digits. *)
HexTypeOK == HEX!TypeOK

(* The hex key has two digits per byte and decodes to the key drawn. *)
HexDecodesToKey == HEX!HexDecodesToKey

(* encrypt_data_from_stream: the stream state stays well formed. *)
StreamTypeOK == XS!TypeOK

(* The peer receives the XOR of what it sent, in order, whatever the     *)
(* sizes of the reads; all of it when the loop ends at end of stream.    *)
EchoesWhatWasSent == XS!EchoesWhatWasSent

(* Once the peer has closed or reset, the stream loop returns or panics; *)
(* it never waits on a read that cannot end.                              *)
StreamEnds == XS!StreamEnds

(* establish_connection.rs: the server, its backlog and the clients'     *)
(* connections stay well formed.                                          *)
TcpTypeOK == TS!TypeOK

(* A client that connected and sent its request is eventually greeted,  *)
(* whatever the other clients do, unless it reset its own connection.    *)
EveryRequestAnswered == TS!EveryRequestAnswered
=============================================================================
