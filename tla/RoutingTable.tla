---------------------------- MODULE RoutingTable ----------------------------
(***************************************************************************)
(* src/deconet/Efficiency/epic_process/network/routing.rs: a RoutingTable *)
(* is a HashMap from a destination to its RoutingEntry (destination,      *)
(* gateway, interface).  A caller adds, removes and clears entries and    *)
(* looks one up with get_entry, or all of them with get_entries.  The      *)
(* ghost variable history records the mutating calls, for the property.   *)
(***************************************************************************)
EXTENDS Naturals, Sequences, SequencesExt

CONSTANTS
    Destinations, Gateways, Interfaces,
    MaxCalls,       \* bound on add/remove/clear calls
    None

ASSUME MaxCalls \in Nat

RoutingEntry == [destination : Destinations, gateway : Gateways, interface : Interfaces]

VARIABLES
    entries,        \* self.entries: a function from the destinations present
    got,            \* the last get_entry: [dest, out], out None or an entry
    listed,         \* the last get_entries: the set of entries, or None
    history         \* ghost: the add/remove/clear calls made so far

vars == <<entries, got, listed, history>>

Call == [kind : {"add"}, arg : RoutingEntry] \cup [kind : {"remove"}, arg : Destinations]
        \cup [kind : {"clear"}, arg : {None}]

TypeOK ==
    /\ entries \in UNION {[D -> RoutingEntry] : D \in SUBSET Destinations}
    /\ got = None \/ got \in [dest : Destinations, out : RoutingEntry \cup {None}]
    /\ listed = None \/ listed \subseteq RoutingEntry
    /\ history \in Seq(Call)

(* RoutingTable::new: entries: HashMap::new() *)
Init ==
    /\ entries = [d \in {} |-> None]
    /\ got = None
    /\ listed = None
    /\ history = <<>>

Record(c) ==
    /\ Len(history) < MaxCalls
    /\ history' = Append(history, c)
    /\ got' = None
    /\ listed' = None

(* Fault: entry(destination).or_insert(entry), keeping an existing route. *)
AddEntryKeepFirst(destination, gateway, interface) ==
    /\ Record([kind |-> "add", arg |-> [destination |-> destination, gateway |-> gateway,
                                        interface |-> interface]])
    /\ entries' = entries @@ (destination :> [destination |-> destination, gateway |-> gateway,
                                             interface |-> interface])

(* Fault: the gateway stored as the entry's destination. *)
AddEntrySwapped(destination, gateway, interface) ==
    LET entry == [destination |-> gateway, gateway |-> destination, interface |-> interface]
    IN  /\ Record([kind |-> "add", arg |-> entry])
        /\ entries' = (destination :> entry) @@ entries

(* add_entry: self.entries.insert(destination, entry) *)
AddEntry(destination, gateway, interface) ==
    LET entry == [destination |-> destination, gateway |-> gateway, interface |-> interface]
    IN  /\ Record([kind |-> "add", arg |-> entry])
        /\ entries' = (destination :> entry) @@ entries

(* remove_entry: self.entries.remove(destination) *)
RemoveEntry(destination) ==
    /\ Record([kind |-> "remove", arg |-> destination])
    /\ entries' = [d \in DOMAIN entries \ {destination} |-> entries[d]]

(* clear_entries: self.entries.clear() *)
ClearEntries ==
    /\ Record([kind |-> "clear", arg |-> None])
    /\ entries' = [d \in {} |-> None]

(* get_entry: self.entries.get(destination) *)
GetEntry(destination) ==
    /\ got' = [dest |-> destination,
               out |-> IF destination \in DOMAIN entries THEN entries[destination] ELSE None]
    /\ UNCHANGED <<entries, listed, history>>

(* get_entries: self.entries.values().collect() *)
GetEntries ==
    /\ listed' = Range(entries)
    /\ UNCHANGED <<entries, got, history>>

Next ==
    \/ \E d \in Destinations, g \in Gateways, i \in Interfaces : AddEntry(d, g, i)
    \/ \E d \in Destinations : RemoveEntry(d) \/ GetEntry(d)
    \/ ClearEntries
    \/ GetEntries

Spec == Init /\ [][Next]_vars

-----------------------------------------------------------------------------
(* Properties *)

(* The route for d a history of calls leaves: the entry of the latest    *)
(* add for d, unless a remove of d or a clear came after it.              *)
Latest(h, d) ==
    LET adds == {i \in 1..Len(h) : h[i].kind = "add" /\ h[i].arg.destination = d}
        last == Max({0} \cup adds)
        undone == \E j \in (last + 1)..Len(h) :
                      h[j].kind = "clear" \/ h[j] = [kind |-> "remove", arg |-> d]
    IN  IF last = 0 \/ undone THEN None ELSE h[last].arg

(* After any sequence of add_entry, remove_entry and clear_entries calls, *)
(* get_entry(d) returns the route last added for d and not removed since, *)
(* and get_entries lists exactly those routes, one per destination.       *)
LookupsFollowHistory ==
    /\ got # None => got.out = Latest(history, got.dest)
    /\ listed # None =>
         listed = {Latest(history, d) : d \in Destinations} \ {None}
=============================================================================
