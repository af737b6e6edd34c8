---------------------------- MODULE NetworkConfig ----------------------------
(***************************************************************************)
(* src/deconet/Efficiency/epic_process/network/network_configuration.rs: *)
(* NetworkConfig { ip_address, port } built by new, changed by           *)
(* set_ip_address, set_port and reset_to_default, and read by            *)
(* get_ip_address, get_port and get_socket_addr, called in any order.    *)
(* An address and a port are model values or small numbers; port is a   *)
(* u16 argument, so the caller cannot pass one out of range.             *)
(***************************************************************************)
EXTENDS Naturals

CONSTANTS
    Ips,            \* IpAddr values the caller passes
    Ports,          \* u16 values the caller passes
    DefaultIp,      \* IpAddr::V4(Ipv4Addr::new(127, 0, 0, 1))
    DefaultPort,    \* 8080
    None

ASSUME DefaultIp \in Ips /\ DefaultPort \in Ports /\ Ports \subseteq 0..65535

VARIABLES
    ip_address,
    port,
    lastRead        \* the last getter called: [op, out], or None

vars == <<ip_address, port, lastRead>>

Getters == {"get_ip_address", "get_port", "get_socket_addr"}

TypeOK ==
    /\ ip_address \in Ips
    /\ port \in Ports
    /\ \/ lastRead = None
       \/ /\ lastRead \in [op : Getters, out : {lastRead.out}]
          /\ lastRead.out \in [get_ip_address |-> Ips, get_port |-> Ports,
                               get_socket_addr |-> [ip : Ips, port : Ports]][lastRead.op]

(* NetworkConfig::new() *)
Init ==
    /\ ip_address = DefaultIp
    /\ port = DefaultPort
    /\ lastRead = None

SetIpAddress(ip) ==
    /\ ip_address' = ip
    /\ UNCHANGED <<port, lastRead>>

SetPort(p) ==
    /\ port' = p
    /\ UNCHANGED <<ip_address, lastRead>>

(* reset_to_default: the two fields new sets. *)
ResetToDefault ==
    /\ ip_address' = DefaultIp
    /\ port' = DefaultPort
    /\ UNCHANGED lastRead

(* get_socket_addr: SocketAddr::new(self.ip_address, self.port) *)
SocketAddr == [ip |-> ip_address, port |-> port]

(* The getters return copies; the configuration is unchanged. *)
Get(op) ==
    /\ lastRead' = [op |-> op,
                    out |-> [get_ip_address |-> ip_address, get_port |-> port,
                             get_socket_addr |-> SocketAddr][op]]
    /\ UNCHANGED <<ip_address, port>>

Next ==
    \/ \E ip \in Ips : SetIpAddress(ip)
    \/ \E p \in Ports : SetPort(p)
    \/ ResetToDefault
    \/ \E op \in Getters : Get(op)

Spec == Init /\ [][Next]_vars
=============================================================================
