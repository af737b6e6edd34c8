------------------------------ MODULE XorStream ------------------------------
(***************************************************************************)
(* encrypt_data_from_stream and decrypt_data_from_stream, the identical    *)
(* loops of src/deconet/Efficiency/epic_process/encryption/encrypt_data.rs *)
(* and decrypt_data.rs, run against the peer at the other end of a duplex  *)
(* stream (a TcpStream).  Each iteration reads up to a buffer's worth      *)
(* into the one buffer declared before the loop, XORs the bytes read with *)
(* key[0] and writes them back with write_all(..).unwrap().  The loop      *)
(* breaks on Ok(0) (the peer shut its write half) and on Err (the peer    *)
(* reset the connection, which discards what it had sent and not yet     *)
(* been read).  A read may return fewer bytes than are waiting.           *)
(***************************************************************************)
EXTENDS Naturals, Sequences, SequencesExt, XorCipher

CONSTANTS
    Keys,           \* key arguments (only key[0] is used; <<>> panics)
    Chunks,         \* what one send of the peer may carry
    BufLen,         \* the buffer's length (1024 in the code)
    MaxSent         \* bound on the bytes the peer sends

ASSUME BufLen \in Nat \ {0} /\ MaxSent \in Nat

VARIABLES
    key,            \* the key argument
    sent,           \* ghost: every byte the peer sent, in order
    inbox,          \* bytes sent and not yet read
    peer,           \* "open", "closed" (write half shut) or "reset"
    buffer,         \* let mut buffer = [0; 1024]
    bytesRead,      \* the count of the read being written back
    received,       \* what the peer received from the write_all calls
    pc              \* "read", "write", "returned" or "panicked"

vars == <<key, sent, inbox, peer, buffer, bytesRead, received, pc>>

TypeOK ==
    /\ key \in Keys
    /\ sent \in Seq(Bytes) /\ inbox \in Seq(Bytes) /\ received \in Seq(Bytes)
    /\ peer \in {"open", "closed", "reset"}
    /\ buffer \in [1..BufLen -> Bytes]
    /\ bytesRead \in 0..BufLen
    /\ pc \in {"read", "write", "returned", "panicked"}

Init ==
    /\ key \in Keys
    /\ sent = <<>> /\ inbox = <<>> /\ received = <<>>
    /\ peer = "open"
    /\ buffer = [i \in 1..BufLen |-> 0]
    /\ bytesRead = 0
    /\ pc = "read"

(* The peer. *)
PeerSend(c) ==
    /\ peer = "open"
    /\ Len(sent) + Len(c) <= MaxSent
    /\ sent' = sent \o c
    /\ inbox' = inbox \o c
    /\ UNCHANGED <<key, peer, buffer, bytesRead, received, pc>>

PeerClose ==
    /\ peer = "open"
    /\ peer' = "closed"
    /\ UNCHANGED <<key, sent, inbox, buffer, bytesRead, received, pc>>

PeerReset ==
    /\ peer # "reset"
    /\ peer' = "reset"
    /\ inbox' = <<>>
    /\ UNCHANGED <<key, sent, buffer, bytesRead, received, pc>>

(* Fault: the bytes read appended to a growing Vec, not written in place. *)
FillAppend(buf, data, n) == buf \o SubSeq(data, 1, n)

(* read(&mut buffer): the first n bytes overwritten, the rest kept. *)
Fill(buf, data, n) == [i \in 1..BufLen |-> IF i <= n THEN data[i] ELSE buf[i]]

(* stream.read(&mut buffer) returning Ok(bytes_read), bytes_read > 0. *)
ReadData ==
    /\ pc = "read"
    /\ inbox # <<>>
    /\ \E n \in 1..BufLen :
          /\ n <= Len(inbox)
          /\ buffer' = Fill(buffer, inbox, n)
          /\ inbox' = SubSeq(inbox, n + 1, Len(inbox))
          /\ bytesRead' = n
    /\ pc' = "write"
    /\ UNCHANGED <<key, sent, peer, received>>

(* Fault: Ok(0) taken as "nothing yet" and the loop continued. *)
ReadEofContinue ==
    /\ pc = "read"
    /\ inbox = <<>>
    /\ peer = "closed"
    /\ UNCHANGED vars

(* Ok(0) => break: end of stream. *)
ReadEof ==
    /\ pc = "read"
    /\ inbox = <<>>
    /\ peer = "closed"
    /\ pc' = "returned"
    /\ UNCHANGED <<key, sent, inbox, peer, buffer, bytesRead, received>>

(* Err(_) => break: the error is dropped and the function returns (). *)
ReadErr ==
    /\ pc = "read"
    /\ peer = "reset"
    /\ pc' = "returned"
    /\ UNCHANGED <<key, sent, inbox, peer, buffer, bytesRead, received>>

(* Fault: the whole buffer written back instead of buffer[..bytes_read]. *)
WriteChunkWholeBuffer(buf, n) == buf

(* buffer[..bytes_read] *)
WriteChunk(buf, n) == SubSeq(buf, 1, n)

(* map(|&x| x ^ key[0]) panics on an empty key; write_all(..).unwrap()  *)
(* panics when the peer has reset the connection.                         *)
WriteBack ==
    /\ pc = "write"
    /\ \/ /\ KeyIndexPanics(key)
          /\ pc' = "panicked"
          /\ UNCHANGED received
       \/ /\ ~KeyIndexPanics(key)
          /\ peer = "reset"
          /\ pc' = "panicked"
          /\ UNCHANGED received
       \/ /\ ~KeyIndexPanics(key)
          /\ peer # "reset"
          /\ received' = received \o EncryptData(WriteChunk(buffer, bytesRead), key)
          /\ pc' = "read"
    /\ UNCHANGED <<key, sent, inbox, peer, buffer, bytesRead>>

(* The steps of the loop's own thread. *)
Loop == ReadData \/ ReadEof \/ ReadErr \/ WriteBack

Next ==
    \/ \E c \in Chunks : PeerSend(c)
    \/ PeerClose \/ PeerReset
    \/ Loop

Spec == Init /\ [][Next]_vars

-----------------------------------------------------------------------------
(* Properties *)

(* Whatever sizes the reads return, the peer receives the XOR of what it *)
(* sent, in order and without bytes left in the buffer by an earlier read: *)
(* always a prefix of it, and all of it when the loop ends at Ok(0).     *)
EchoesWhatWasSent ==
    ~KeyIndexPanics(key) =>
        /\ IsPrefix(received, EncryptData(sent, key))
        /\ (pc = "returned" /\ peer = "closed") => received = EncryptData(sent, key)

(* The loop has no timeout and ends only on Ok(0) or Err: once the peer  *)
(* has shut its write half or reset, the function returns (or panics),   *)
(* however the bytes still in flight are split across short reads, and   *)
(* even when the reset comes after the close.                             *)
StreamEnds == (peer # "open") ~> (pc \in {"returned", "panicked"})
=============================================================================
