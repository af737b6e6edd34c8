---------------------------- MODULE EchoExchange ----------------------------
(***************************************************************************)
(* src/deconet/Efficiency/epic_auth/communication.rs: main spawns a      *)
(* server thread (bind 127.0.0.1:8080, then for each incoming stream:    *)
(* read once, write "Message received", drop the stream), sleeps one     *)
(* second and runs the client on the main thread (connect, write the    *)
(* message, read_to_string until EOF).  Both threads run concurrently;   *)
(* the sleep gives no ordering guarantee, so it is a step like any other. *)
(* When main returns the process exits.                                   *)
(*                                                                         *)
(* The environment: port 8080 may already be held by another process     *)
(* (Foreign), which then answers the client; an established connection  *)
(* may be reset, at most MaxResets times.  A message is MsgLen chunks    *)
(* and the response RespLen chunks: Read::read and Write::write may move *)
(* fewer bytes than asked, and the code ignores the counts they return.  *)
(* A panic in the server thread ends that thread only (its listener is   *)
(* dropped); a panic in main ends the process.                            *)
(***************************************************************************)
EXTENDS Naturals

CONSTANTS
    MsgLen,             \* chunks of "Hello, server!"
    RespLen,            \* chunks of "Message received"
    MaxResets,          \* bound on connection resets
    None

ASSUME MsgLen \in Nat \ {0} /\ RespLen \in Nat \ {0} /\ MaxResets \in Nat

VARIABLES
    srv,        \* server thread: "start", "listening", "accepted", "read", "dead"
    port,       \* who listens on 8080: "free", "ours", "foreign"
    cli,        \* main thread: "sleep", "connect", "write", "read", "done", "panicked"
    conn,       \* the client's connection: None or [peer, sent, answered, closed, reset]
    pending,    \* the connection waits in our listener's backlog
    serverGot,  \* chunks the server's read returned, or None
    response,   \* what read_to_string returned: [peer, len], or None
    resets      \* connection resets so far

vars == <<srv, port, cli, conn, pending, serverGot, response, resets>>

Conn == [peer : {"ours", "foreign"}, sent : 0..MsgLen, answered : 0..RespLen,
         closed : BOOLEAN, reset : BOOLEAN]

TypeOK ==
    /\ srv \in {"start", "listening", "accepted", "read", "dead"}
    /\ port \in {"free", "ours", "foreign"}
    /\ cli \in {"sleep", "connect", "write", "read", "done", "panicked"}
    /\ conn = None \/ conn \in Conn
    /\ pending \in BOOLEAN
    /\ serverGot \in {None} \cup 1..MsgLen
    /\ response \in {None} \cup [peer : {"ours", "foreign"}, len : 0..RespLen]
    /\ resets \in 0..MaxResets

(* main: thread::spawn(start_server), then sleep; 8080 free or taken. *)
Init ==
    /\ srv = "start"
    /\ port \in {"free", "foreign"}
    /\ cli = "sleep"
    /\ conn = None
    /\ pending = FALSE
    /\ serverGot = None
    /\ response = None
    /\ resets = 0

(* TcpListener::bind(...).expect("Failed to bind") *)
ServerBind ==
    /\ srv = "start"
    /\ \/ /\ port = "free"
          /\ port' = "ours"
          /\ srv' = "listening"
       \/ /\ port = "foreign"
          /\ srv' = "dead"
          /\ UNCHANGED port
    /\ UNCHANGED <<cli, conn, pending, serverGot, response, resets>>

(* listener.incoming() yields the queued connection: Ok(stream). *)
ServerAccept ==
    /\ srv = "listening"
    /\ pending
    /\ srv' = "accepted"
    /\ pending' = FALSE
    /\ UNCHANGED <<port, cli, conn, serverGot, response, resets>>

(* Fault: a read of zero bytes taken as data. *)
ServerReadZero ==
    /\ srv = "accepted"
    /\ ~conn.reset
    /\ \E got \in 0..conn.sent : serverGot' = got
    /\ srv' = "read"
    /\ UNCHANGED <<conn, port, cli, pending, response, resets>>

(* stream.read(&mut buffer): blocks until data or an error.  On Err it   *)
(* prints, the stream is dropped and the loop takes the next connection. *)
ServerRead ==
    /\ srv = "accepted"
    /\ \/ /\ conn.reset
          /\ srv' = "listening"
          /\ UNCHANGED <<conn, serverGot>>
       \/ /\ ~conn.reset
          /\ conn.sent > 0
          /\ \E got \in 1..conn.sent : serverGot' = got
          /\ srv' = "read"
          /\ UNCHANGED conn
    /\ UNCHANGED <<port, cli, pending, response, resets>>

(* Fault: the stream kept open after the response is written. *)
ServerWriteKeepOpen ==
    /\ srv = "read"
    /\ ~conn.reset
    /\ \E n \in 1..RespLen : conn' = [conn EXCEPT !.answered = n]
    /\ srv' = "listening"
    /\ UNCHANGED <<port, cli, pending, serverGot, response, resets>>

(* stream.write(response).expect("Failed to write"), then the stream is  *)
(* dropped: EOF for the client, or a reset (RST) when the server's read   *)
(* left bytes of the message unread.  A failed write panics the thread,  *)
(* which drops the listener and frees the port.                           *)
ServerWrite ==
    /\ srv = "read"
    /\ \/ /\ ~conn.reset
          /\ \E n \in 1..RespLen :
                conn' = [conn EXCEPT !.answered = n, !.closed = TRUE,
                                     !.reset = serverGot < conn.sent]
          /\ srv' = "listening"
          /\ UNCHANGED port
       \/ /\ conn.reset
          /\ srv' = "dead"
          /\ port' = "free"
          /\ UNCHANGED conn
    /\ UNCHANGED <<cli, pending, serverGot, response, resets>>

(* thread::sleep(1s) *)
ClientSleep ==
    /\ cli = "sleep"
    /\ cli' = "connect"
    /\ UNCHANGED <<srv, port, conn, pending, serverGot, response, resets>>

(* TcpStream::connect(...).expect("Failed to connect"): refused when     *)
(* nobody listens, otherwise queued with whoever holds the port.          *)
ClientConnect ==
    /\ cli = "connect"
    /\ \/ /\ port = "free"
          /\ cli' = "panicked"
          /\ UNCHANGED <<conn, pending>>
       \/ /\ port # "free"
          /\ conn' = [peer |-> port, sent |-> 0, answered |-> 0,
                      closed |-> FALSE, reset |-> FALSE]
          /\ pending' = (port = "ours")
          /\ cli' = "write"
    /\ UNCHANGED <<srv, port, serverGot, response, resets>>

(* stream.write(message).expect("Failed to write") *)
ClientWrite ==
    /\ cli = "write"
    /\ \/ /\ conn.reset
          /\ cli' = "panicked"
          /\ UNCHANGED conn
       \/ /\ ~conn.reset
          /\ \E n \in 1..MsgLen : conn' = [conn EXCEPT !.sent = n]
          /\ cli' = "read"
    /\ UNCHANGED <<srv, port, pending, serverGot, response, resets>>

(* Fault: one read instead of read_to_string, not waiting for EOF. *)
ClientReadNoWait ==
    /\ cli = "read"
    /\ ~conn.reset
    /\ response' = [peer |-> conn.peer, len |-> conn.answered]
    /\ cli' = "done"
    /\ UNCHANGED <<srv, port, conn, pending, serverGot, resets>>

(* read_to_string(...).expect("Failed to read"): returns at EOF. *)
ClientRead ==
    /\ cli = "read"
    /\ \/ /\ conn.reset
          /\ cli' = "panicked"
          /\ UNCHANGED response
       \/ /\ ~conn.reset
          /\ conn.closed
          /\ response' = [peer |-> conn.peer, len |-> conn.answered]
          /\ cli' = "done"
    /\ UNCHANGED <<srv, port, conn, pending, serverGot, resets>>

(* The other process on port 8080 reads the message, answers, closes. *)
ForeignServe ==
    /\ conn # None
    /\ conn.peer = "foreign"
    /\ conn.sent > 0
    /\ ~conn.closed /\ ~conn.reset
    /\ conn' = [conn EXCEPT !.answered = RespLen, !.closed = TRUE]
    /\ UNCHANGED <<srv, port, cli, pending, serverGot, response, resets>>

(* The connection is reset (ECONNRESET at both ends). *)
Reset ==
    /\ conn # None
    /\ ~conn.reset /\ ~conn.closed
    /\ resets < MaxResets
    /\ conn' = [conn EXCEPT !.reset = TRUE]
    /\ resets' = resets + 1
    /\ UNCHANGED <<srv, port, cli, pending, serverGot, response>>

(* main has returned or panicked: the process is gone. *)
Exited ==
    /\ cli \in {"done", "panicked"}
    /\ UNCHANGED vars

Server == ServerBind \/ ServerAccept \/ ServerRead \/ ServerWrite
Client == ClientSleep \/ ClientConnect \/ ClientWrite \/ ClientRead

Next == Server \/ Client \/ ForeignServe \/ Reset \/ Exited

Spec == Init /\ [][Next]_vars

(* The OS scheduler runs every runnable thread of this program.  Nothing *)
(* is assumed of another process holding the port, nor of resets.        *)
FairSpec == Spec /\ WF_vars(Server) /\ WF_vars(Client)

-----------------------------------------------------------------------------
(* Properties *)

(* The client finishes its exchange with our server only after the     *)
(* server's read returned and its response was written: read_to_string   *)
(* returns at the EOF that dropping the stream causes, after the write.  *)
ExchangeOrdered ==
    (cli = "done" /\ conn.peer = "ours") => (serverGot # None /\ response.len > 0)

(* When the port is free at start, main always runs to its end:         *)
(* read_to_string cannot wait forever, since the server drops every      *)
(* stream it accepts and the client's is accepted.  (When another process *)
(* holds the port, the client may wait on it forever.)                     *)
MainTerminates == port = "free" => <>(cli \in {"done", "panicked"})

(* main's comment: the one-second sleep lets the server start, so connect *)
(* never fails and main does not panic.                                    *)
ClientNeverPanics == cli # "panicked"
=============================================================================
