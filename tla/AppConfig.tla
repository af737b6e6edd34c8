------------------------------ MODULE AppConfig ------------------------------
(***************************************************************************)
(* src/deconet/Efficiency/epic_process/utility/configuration.rs: a        *)
(* Configuration (server address, port, maximum connections), its         *)
(* setters, load_default and merge, save_to_file (serde_json pretty text, *)
(* File::create, write_all) and read_configuration (File::open, serde_json *)
(* from_reader).  read_configuration may run in another process at any    *)
(* moment, a save in progress included.  (The file's main uses           *)
(* default_config after moving it and does not compile; the methods are   *)
(* modelled as callable in any order.)                                     *)
(*                                                                         *)
(* The file is its JSON document, Garbled when it does not parse (empty,  *)
(* cut, or with characters after the object), and its length in          *)
(* characters, which decides what a write over older content leaves.     *)
(***************************************************************************)
EXTENDS Naturals

CONSTANTS
    Addresses,          \* server addresses, "localhost" among them
    TextLen(_),         \* the characters of an address
    Ports,              \* u16 values
    MaxConnections,     \* u32 values
    Others,             \* the configurations merge may be given
    Absent, Garbled, Err, None

Configs == [server_address : Addresses, port : Ports, max_connections : MaxConnections]

(* load_default *)
Default == [server_address |-> "localhost", port |-> 8080, max_connections |-> 100]

ASSUME Default \in Configs /\ Others \subseteq Configs

VARIABLES
    config,     \* the Configuration in memory
    file,       \* config.json: Absent or [doc, len]
    saving,     \* save_to_file has created the file and not yet written
    saved,      \* ghost: the configuration the last save wrote, None before any
    saveOk,     \* ghost: the last save returned Ok
    lastRead    \* the last read_configuration: None or its result

vars == <<config, file, saving, saved, saveOk, lastRead>>

RECURSIVE Digits(_)
Digits(n) == IF n < 10 THEN 1 ELSE 1 + Digits(n \div 10)

(* The length of to_string_pretty's text, less the characters every      *)
(* configuration's text shares.                                           *)
JsonLen(c) == TextLen(c.server_address) + Digits(c.port) + Digits(c.max_connections)

Lens == {JsonLen(c) : c \in Configs}

TypeOK ==
    /\ config \in Configs
    /\ file = Absent \/ file \in [doc : Configs \cup {Garbled}, len : {0} \cup Lens]
    /\ saving \in BOOLEAN
    /\ saved \in Configs \cup {None}
    /\ saveOk \in BOOLEAN
    /\ lastRead = None \/ lastRead \in [result : Configs \cup {Err}, afterOk : BOOLEAN,
                                        saved : Configs \cup {None}]

Init ==
    /\ config = Default
    /\ file = Absent
    /\ saving = FALSE
    /\ saved = None
    /\ saveOk = FALSE
    /\ lastRead = None

-----------------------------------------------------------------------------
(* The methods.  save_to_file borrows the configuration, so no method of *)
(* it runs while a save is writing.                                        *)

Set(c) ==
    /\ ~saving
    /\ config' = c
    /\ UNCHANGED <<file, saving, saved, saveOk, lastRead>>

(* update_server_address, update_port, update_max_connections *)
UpdateServerAddress(a) == Set([config EXCEPT !.server_address = a])
UpdatePort(p) == Set([config EXCEPT !.port = p])
UpdateMaxConnections(m) == Set([config EXCEPT !.max_connections = m])

(* Configuration::load_default() assigned to the configuration. *)
LoadDefault == Set(Default)

(* Fault: port and max_connections copied into each other's field. *)
MergeSwapped(other) ==
    [server_address |-> other.server_address, port |-> other.max_connections,
     max_connections |-> other.port]

(* merge: every field of other copied. *)
Merged(other) ==
    [server_address |-> other.server_address, port |-> other.port,
     max_connections |-> other.max_connections]

Merge(other) == Set(Merged(other))

(* Fault: the file opened for writing without truncation. *)
OpenedKeepingContent(f) == IF f = Absent THEN [doc |-> Garbled, len |-> 0] ELSE f

(* File::create: an empty file, whatever was there. *)
Opened(f) == [doc |-> Garbled, len |-> 0]

(* write_all of c's text from the start of the file: longer old content *)
(* leaves characters after the object, and the document does not parse. *)
WrittenOver(f, c) ==
    IF f.len > JsonLen(c) THEN [doc |-> Garbled, len |-> f.len]
    ELSE [doc |-> c, len |-> JsonLen(c)]

(* save_to_file: to_string_pretty cannot fail on this struct; File::create *)
(* either opens the file or returns Err and leaves it as it was.           *)
SaveToFile ==
    /\ ~saving
    /\ \/ /\ file' = Opened(file)
          /\ saving' = TRUE
          /\ saved' = config
       \/ UNCHANGED <<file, saving, saved>>
    /\ saveOk' = FALSE
    /\ UNCHANGED <<config, lastRead>>

(* write_all(json.as_bytes())?: Ok, or Err after writing part of the text. *)
SaveWrite ==
    /\ saving
    /\ saving' = FALSE
    /\ \/ /\ file' = WrittenOver(file, config)
          /\ saveOk' = TRUE
       \/ /\ file' = [doc |-> Garbled, len |-> file.len]
          /\ UNCHANGED saveOk
    /\ UNCHANGED <<config, saved, lastRead>>

(* read_configuration: File::open fails on a missing file, from_reader on *)
(* a document that does not parse.                                        *)
ReadConfiguration ==
    /\ lastRead' = [result |-> IF file # Absent /\ file.doc # Garbled THEN file.doc ELSE Err,
                    afterOk |-> saveOk, saved |-> saved]
    /\ UNCHANGED <<config, file, saving, saved, saveOk>>

Next ==
    \/ \E a \in Addresses : UpdateServerAddress(a)
    \/ \E p \in Ports : UpdatePort(p)
    \/ \E m \in MaxConnections : UpdateMaxConnections(m)
    \/ LoadDefault
    \/ \E o \in Others : Merge(o)
    \/ SaveToFile \/ SaveWrite
    \/ ReadConfiguration

Spec == Init /\ [][Next]_vars

-----------------------------------------------------------------------------
(* Properties *)

(* read_configuration returns no configuration but the one the last save *)
(* wrote, and returns that one once the save has returned Ok, even over  *)
(* the text of a longer configuration saved before: File::create's        *)
(* truncation is what makes the round trip hold.                           *)
ReadReturnsLastSaved ==
    lastRead # None =>
        ((lastRead.result # Err \/ lastRead.afterOk) => lastRead.result = lastRead.saved)
=============================================================================
