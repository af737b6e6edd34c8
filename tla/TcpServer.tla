------------------------------ MODULE TcpServer ------------------------------
(***************************************************************************)
(* src/deconet/Efficiency/epic_process/network/establish_connection.rs:  *)
(* listen_for_tcp_connections, one thread that binds port 127.0.0.1:port  *)
(* and serves its connections one after another (accept, one read into a  *)
(* fresh buffer, write_all of "Hello from server", drop the stream), and  *)
(* the client helpers establish_tcp_connection, send_data_over_tcp,       *)
(* receive_data_over_tcp and close_tcp_connection, called by clients      *)
(* that may also die and reset their connection.  Every ? of the server   *)
(* returns from the whole function.                                       *)
(*                                                                         *)
(* The kernel completes a connection into the listener's backlog whether  *)
(* or not the server is in accept; dropping the listener resets the      *)
(* connections still in the backlog.  A read returns what is waiting, or *)
(* fewer bytes; it blocks while nothing is waiting and the peer is open.  *)
(* A byte is counted, not named: the bytes of a connection are in order. *)
(***************************************************************************)
EXTENDS Naturals, Sequences, SequencesExt

CONSTANTS
    Clients,        \* client processes, one connection each
    MsgLen,         \* the bytes a client's request has
    GreetLen,       \* the bytes of "Hello from server" (17 in the code)
    MaxResets,      \* bound on the clients that die
    None

ASSUME MsgLen \in Nat \ {0} /\ GreetLen \in Nat \ {0} /\ MaxResets \in Nat

VARIABLES
    srv,        \* the server: "bind", "accept", "read", "write" or "returned"
    cur,        \* the client whose stream the server holds, or None
    backlog,    \* connections completed and not yet accepted, in order
    cli,        \* per client: "idle", "refused", "connected", "closed", "reset"
    side,       \* per client, the server's side: "none", "queued", "accepted",
                \* "served" or "aborted"
    sent,       \* per client: the request bytes its writes sent
    readN,      \* per client: the bytes the server's one read returned, or None
    greeted,    \* per client: the greeting bytes the server wrote to it
    got         \* per client: the greeting bytes it received

vars == <<srv, cur, backlog, cli, side, sent, readN, greeted, got>>

TypeOK ==
    /\ srv \in {"bind", "accept", "read", "write", "returned"}
    /\ cur \in Clients \cup {None}
    /\ backlog \in Seq(Clients)
    /\ cli \in [Clients -> {"idle", "refused", "connected", "closed", "reset"}]
    /\ side \in [Clients -> {"none", "queued", "accepted", "served", "aborted"}]
    /\ sent \in [Clients -> 0..MsgLen]
    /\ readN \in [Clients -> 0..MsgLen \cup {None}]
    /\ greeted \in [Clients -> 0..GreetLen]
    /\ got \in [Clients -> 0..GreetLen]

Init ==
    /\ srv = "bind"
    /\ cur = None
    /\ backlog = <<>>
    /\ cli = [c \in Clients |-> "idle"]
    /\ side = [c \in Clients |-> "none"]
    /\ sent = [c \in Clients |-> 0]
    /\ readN = [c \in Clients |-> None]
    /\ greeted = [c \in Clients |-> 0]
    /\ got = [c \in Clients |-> 0]

Listening == srv \notin {"bind", "returned"}

-----------------------------------------------------------------------------
(* listen_for_tcp_connections *)

(* Every ? returns Err: the stream held and the listener are dropped, and *)
(* with the listener the connections in its backlog.                       *)
Return ==
    /\ srv' = "returned"
    /\ cur' = None
    /\ backlog' = <<>>
    /\ side' = [c \in Clients |-> IF side[c] \in {"queued", "accepted"} THEN "aborted" ELSE side[c]]

(* TcpListener::bind(("127.0.0.1", port))?: Ok, or Err when the port is  *)
(* taken.                                                                   *)
Bind ==
    /\ srv = "bind"
    /\ \/ srv' = "accept" /\ UNCHANGED <<cur, backlog, side>>
       \/ Return
    /\ UNCHANGED <<cli, sent, readN, greeted, got>>

(* for stream in listener.incoming(): the next connection of the backlog. *)
Accept ==
    /\ srv = "accept"
    /\ backlog # <<>>
    /\ srv' = "read"
    /\ cur' = Head(backlog)
    /\ backlog' = Tail(backlog)
    /\ side' = [side EXCEPT ![Head(backlog)] = "accepted"]
    /\ UNCHANGED <<cli, sent, readN, greeted, got>>

(* stream.read(&mut buffer)?: Err after the client's reset; Ok(0) once it  *)
(* shut down with nothing sent; else some of the bytes waiting, and the   *)
(* rest of the request is never read.                                      *)
Read ==
    /\ srv = "read"
    /\ \/ /\ cli[cur] = "reset"
          /\ Return
          /\ UNCHANGED readN
       \/ /\ cli[cur] # "reset"
          /\ sent[cur] > 0 \/ cli[cur] = "closed"
          /\ \E n \in (IF sent[cur] = 0 THEN {0} ELSE 1..sent[cur]) :
                readN' = [readN EXCEPT ![cur] = n]
          /\ srv' = "write"
          /\ UNCHANGED <<cur, backlog, side>>
    /\ UNCHANGED <<cli, sent, greeted, got>>

(* Fault: the greeting written with a NUL terminator, as a C string. *)
GreetingWithNul(n) == n + 1

(* b"Hello from server" *)
Greeting(n) == n

(* stream.write_all(b"Hello from server")?: Err after the client's reset; *)
(* otherwise the whole greeting, and the stream is dropped.                 *)
Write ==
    /\ srv = "write"
    /\ \/ /\ cli[cur] = "reset"
          /\ Return
          /\ UNCHANGED greeted
       \/ /\ cli[cur] # "reset"
          /\ greeted' = [greeted EXCEPT ![cur] = Greeting(GreetLen)]
          /\ side' = [side EXCEPT ![cur] = "served"]
          /\ srv' = "accept"
          /\ cur' = None
          /\ UNCHANGED backlog
    /\ UNCHANGED <<cli, sent, readN, got>>

-----------------------------------------------------------------------------
(* The client helpers *)

(* establish_tcp_connection: TcpStream::connect, refused when nothing     *)
(* listens.                                                                 *)
EstablishTcpConnection(c) ==
    /\ cli[c] = "idle"
    /\ \/ /\ Listening
          /\ cli' = [cli EXCEPT ![c] = "connected"]
          /\ side' = [side EXCEPT ![c] = "queued"]
          /\ backlog' = Append(backlog, c)
       \/ /\ ~Listening
          /\ cli' = [cli EXCEPT ![c] = "refused"]
          /\ UNCHANGED <<side, backlog>>
    /\ UNCHANGED <<srv, cur, sent, readN, greeted, got>>

(* send_data_over_tcp: stream.write(data) writes some of it and returns   *)
(* the count, which the caller may ignore.                                  *)
SendDataOverTcp(c) ==
    /\ cli[c] = "connected"
    /\ side[c] # "aborted"
    /\ sent[c] < MsgLen
    /\ \E n \in 1..(MsgLen - sent[c]) : sent' = [sent EXCEPT ![c] = @ + n]
    /\ UNCHANGED <<srv, cur, backlog, cli, side, readN, greeted, got>>

(* receive_data_over_tcp: stream.read(buffer), some of the greeting        *)
(* bytes waiting.  Ok(0) after the server dropped the stream and Err after *)
(* an abort change nothing.                                                 *)
ReceiveDataOverTcp(c) ==
    /\ cli[c] = "connected"
    /\ got[c] < greeted[c]
    /\ \E n \in 1..(greeted[c] - got[c]) : got' = [got EXCEPT ![c] = @ + n]
    /\ UNCHANGED <<srv, cur, backlog, cli, side, sent, readN, greeted>>

(* close_tcp_connection: shutdown(Shutdown::Both). *)
CloseTcpConnection(c) ==
    /\ cli[c] = "connected"
    /\ cli' = [cli EXCEPT ![c] = "closed"]
    /\ UNCHANGED <<srv, cur, backlog, side, sent, readN, greeted, got>>

(* The client process dies with the connection open: its kernel resets it. *)
ClientDies(c) ==
    /\ cli[c] = "connected"
    /\ Cardinality({d \in Clients : cli[d] = "reset"}) < MaxResets
    /\ cli' = [cli EXCEPT ![c] = "reset"]
    /\ UNCHANGED <<srv, cur, backlog, side, sent, readN, greeted, got>>

Server == Bind \/ Accept \/ Read \/ Write

Next ==
    \/ Server
    \/ \E c \in Clients :
          \/ EstablishTcpConnection(c) \/ SendDataOverTcp(c) \/ ReceiveDataOverTcp(c)
          \/ CloseTcpConnection(c) \/ ClientDies(c)

Spec == Init /\ [][Next]_vars

-----------------------------------------------------------------------------
(* Properties *)

(* listen_for_tcp_connections is to greet every connection it accepts:    *)
(* a client that connected and sent its request is eventually greeted,    *)
(* whatever the other clients do, unless it reset its own connection.     *)
EveryRequestAnswered ==
    \A c \in Clients : (cli[c] = "connected" /\ sent[c] > 0)
                         ~> (greeted[c] > 0 \/ cli[c] = "reset")
=============================================================================
