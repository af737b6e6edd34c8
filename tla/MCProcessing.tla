---------------------------- MODULE MCProcessing ----------------------------
(***************************************************************************)
(* The data-processing and utility programs, checked together as a       *)
(* disjoint union: Init chooses the program that runs (each file has its *)
(* own main and none calls another) and only that program's variables    *)
(* change.                                                                *)
(*                                                                         *)
(*   arith     epic_process/utility/helper_functions.rs     Int32Helpers   *)
(*   stats     processing/analyze_data.rs, clean_data.rs    Statistics     *)
(*   pipeline  processing/transform_data.rs                 Pipeline       *)
(*   routes    epic_process/network/routing.rs              RoutingTable   *)
(*   storage   epic_auth/storage.rs                         Storage        *)
(*   settings  epic_disco/configuration.rs, error_handling.rs   Settings   *)
(*   config    epic_process/utility/configuration.rs        AppConfig      *)
(*   logging   epic_disco/logging.rs, utility/logging.rs    LogFile        *)
(*   netconf   epic_process/network/network_configuration.rs  NetworkConfig *)
(*   chart     processing/visualize_data.rs                 Chart          *)
(***************************************************************************)
EXTENDS Naturals, Sequences, TLC

CONSTANTS
    k1, k2, k3,             \* analyze_data keys
    s1, s2, d1, d2, v1, v2, \* transformation names, closures and data keys
    dst1, dst2, gw1, gw2, eth0,
    NaN, None, Panic, Err,
    Missing, NoEq, Empty,   \* an absent setting; no "="; an empty value
    on,                     \* a setting value that is a word
    Absent, Garbled,        \* no config.json; a config.json that does not parse
    w1, w2, m1,             \* two writers of a log and a message
    l1, l2, l3, c1, c2      \* data-set labels and a palette

VARIABLES
    program,
    build, arithLast,
    data, statsLast,
    transformations, out, pipelineHistory,
    entries, got, listed, routeHistory,
    dirs, files, lastRead, writes,
    settings, created, lines, tail, pending, saving, saved, saveOk, errorLog, mainOut, runs,
    config, configFile, configSaving, configSaved, configSaveOk, configRead,
    log, todo, offset, wrote, calls, result, fn,
    ip_address, port, netRead,
    data_sets, shown, drawn, chartResult

arVars == <<build, arithLast>>
stVars == <<data, statsLast>>
piVars == <<transformations, out, pipelineHistory>>
rtVars == <<entries, got, listed, routeHistory>>
soVars == <<dirs, files, lastRead, writes>>
seVars == <<settings, created, lines, tail, pending, saving, saved, saveOk, errorLog, mainOut, runs>>
acVars == <<config, configFile, configSaving, configSaved, configSaveOk, configRead>>
lfVars == <<log, todo, offset, wrote, calls, result, fn>>
ncVars == <<ip_address, port, netRead>>
chVars == <<data_sets, shown, drawn, chartResult>>
vars == <<program, arVars, stVars, piVars, rtVars, soVars, seVars, acVars, lfVars, ncVars, chVars>>

(* i32 at a width of 3 bits: MIN = -4, MAX = 3, every edge within reach. *)
AR == INSTANCE Int32Helpers WITH W <- 3, last <- arithLast

(* Three keys (odd and even counts of 0..3 values), three values (ties *)
(* and distinct values) and NaN.                                         *)
ST == INSTANCE Statistics WITH Keys <- {k1, k2, k3}, Values <- {1, 2, 3}, last <- statsLast

(* Two names (so a removal by name meets duplicates and other names),   *)
(* two closures and main's two-entry map; four add/remove/clear calls.  *)
PI == INSTANCE Pipeline WITH
        Names <- {s1, s2}, Funcs <- {d1, d2}, Data <- (v1 :> 2) @@ (v2 :> 3),
        MaxCalls <- 4, history <- pipelineHistory

(* Two destinations, two gateways (so an overwrite changes the route); *)
(* four add/remove/clear calls.                                          *)
RT == INSTANCE RoutingTable WITH
        Destinations <- {dst1, dst2}, Gateways <- {gw1, gw2}, Interfaces <- {eth0},
        MaxCalls <- 4, history <- routeHistory

(* main's directory and file; contents with a LF, without and with CRLF. *)
SO == INSTANCE Storage WITH
        Root <- ".", Dirs <- {"data"}, Names <- {"example.txt"},
        Contents <- {<<"a", "LF">>, <<"a">>, <<"CR", "LF">>}, MaxLen <- 3

(* "port" and "ports", whose lines both start with "port"; a number of  *)
(* four digits, one of one digit and a word; a configuration to merge    *)
(* and an environment that set "ports", a JSON text that sets "port";    *)
(* two runs of main.                                                     *)
MCStartsWith(m, n) == m = n \/ (m = "ports" /\ n = "port")

SE == INSTANCE Settings WITH
        Names <- {"port", "ports"}, Target <- "port", StartsWith <- MCStartsWith,
        Values <- {8080, 9, on},
        Others <- {("port" :> Missing) @@ ("ports" :> 9)},
        Jsons <- {("port" :> 8080) @@ ("ports" :> Missing)},
        Env <- ("port" :> Missing) @@ ("ports" :> on),
        MaxRuns <- 2

(* Addresses of 9 and 11 characters and ports of 4 and 2 digits, so one *)
(* saved text is longer than another; main's new_address to merge.      *)
MCTextLen(a) == IF a = "localhost" THEN 9 ELSE 11

AC == INSTANCE AppConfig WITH
        Addresses <- {"localhost", "new_address"}, TextLen <- MCTextLen,
        Ports <- {8080, 80}, MaxConnections <- {100},
        Others <- {[server_address |-> "new_address", port |-> 80, max_connections |-> 100]},
        file <- configFile, saving <- configSaving, saved <- configSaved,
        saveOk <- configSaveOk, lastRead <- configRead

(* Two writers of two calls each, so lines of both and a line after a  *)
(* failed one interleave; log_message (no prefix) and log_error, whose  *)
(* writes are those of the other four functions, and utility's           *)
(* log_message, which panics where they return Err.                      *)
LF == INSTANCE LogFile WITH
        Writers <- {w1, w2}, Messages <- {m1}, Levels <- {"message", "error", "utility"}, MaxCalls <- 2

(* main's default and updated address and port. *)
NC == INSTANCE NetworkConfig WITH
        Ips <- {"127.0.0.1", "192.168.0.1"}, Ports <- {8080, 9090},
        DefaultIp <- "127.0.0.1", DefaultPort <- 8080, lastRead <- netRead

(* Three labels and a palette of two colours (ten in the code), so that  *)
(* visualize_data's colours wrap around; two data sets in the caller's  *)
(* chart, so removal by label meets one to keep.                          *)
CH == INSTANCE Chart WITH
        Labels <- {l1, l2, l3}, Colors <- <<c1, c2>>, MaxSets <- 2, result <- chartResult

Programs == {"arith", "stats", "pipeline", "routes", "storage", "settings", "config", "logging",
             "netconf", "chart"}

(* A program that does not run stays in one of its initial states. *)
Init ==
    /\ program \in Programs
    /\ AR!Init /\ ST!Init /\ PI!Init /\ RT!Init /\ SO!Init /\ SE!Init /\ AC!Init /\ LF!Init /\ NC!Init /\ CH!Init
    /\ program # "arith" => build = "debug"

Next ==
    \/ program = "arith"    /\ AR!Next /\ UNCHANGED <<program, stVars, piVars, rtVars, soVars, seVars, acVars, lfVars, ncVars, chVars>>
    \/ program = "stats"    /\ ST!Next /\ UNCHANGED <<program, arVars, piVars, rtVars, soVars, seVars, acVars, lfVars, ncVars, chVars>>
    \/ program = "pipeline" /\ PI!Next /\ UNCHANGED <<program, arVars, stVars, rtVars, soVars, seVars, acVars, lfVars, ncVars, chVars>>
    \/ program = "routes"   /\ RT!Next /\ UNCHANGED <<program, arVars, stVars, piVars, soVars, seVars, acVars, lfVars, ncVars, chVars>>
    \/ program = "storage"  /\ SO!Next /\ UNCHANGED <<program, arVars, stVars, piVars, rtVars, seVars, acVars, lfVars, ncVars, chVars>>
    \/ program = "settings" /\ SE!Next /\ UNCHANGED <<program, arVars, stVars, piVars, rtVars, soVars, acVars, lfVars, ncVars, chVars>>
    \/ program = "config"   /\ AC!Next /\ UNCHANGED <<program, arVars, stVars, piVars, rtVars, soVars, seVars, lfVars, ncVars, chVars>>
    \/ program = "logging"  /\ LF!Next /\ UNCHANGED <<program, arVars, stVars, piVars, rtVars, soVars, seVars, acVars, ncVars, chVars>>
    \/ program = "netconf"  /\ NC!Next /\ UNCHANGED <<program, arVars, stVars, piVars, rtVars, soVars, seVars, acVars, lfVars, chVars>>
    \/ program = "chart"    /\ CH!Next /\ UNCHANGED <<program, arVars, stVars, piVars, rtVars, soVars, seVars, acVars, lfVars, ncVars>>

Spec == Init /\ [][Next]_vars

-----------------------------------------------------------------------------
(* The properties, stated and explained in the programs' modules. *)

(* helper_functions.rs: every result is an i32, a bool, Err or a panic. *)
ArithTypeOK == AR!TypeOK

(* is_even and is_odd agree with parity, negative numbers included. *)
ParityCorrect == AR!ParityCorrect

(* analyze_data.rs: the map and the statistics stay well formed. *)
StatsTypeOK == ST!TypeOK

(* median and standard_deviation return the order-statistic median and *)
(* the population deviation, and NaN only for an empty or NaN map, after  *)
(* any inserts and clean_data calls.                                     *)
StatisticsMatchDefinitions == ST!StatisticsMatchDefinitions

(* transform_data.rs: the pipeline and its output stay well formed. *)
PipelineTypeOK == PI!TypeOK

(* transform_data applies exactly the transformations in force, in the *)
(* order they were added.                                                *)
AppliesTransformationsInForce == PI!AppliesTransformationsInForce

(* routing.rs: the table and the lookups stay well formed. *)
RoutesTypeOK == RT!TypeOK

(* get_entry and get_entries return the routes last added and not       *)
(* removed or cleared since.                                             *)
LookupsFollowHistory == RT!LookupsFollowHistory

(* storage.rs: paths, contents and reads stay well formed. *)
StorageTypeOK == SO!TypeOK

(* Every file is a prefix of its last write_file's content followed by  *)
(* prefixes of the appends since, partial failures included.            *)
FilesArePrefixesOfWrites == SO!FilesArePrefixesOfWrites

(* epic_disco: the settings, settings.txt, error.log and main's result   *)
(* stay well formed.                                                      *)
SettingsTypeOK == SE!TypeOK

(* A save_to_file that returned Ok leaves one line per setting saved.  *)
FileReflectsSettings == SE!FileReflectsSettings

(* main parses only a port that a complete "port" line of the file held. *)
ParsedPortWasSaved == SE!ParsedPortWasSaved

(* utility/configuration.rs: the configuration and config.json stay well *)
(* formed.                                                                 *)
ConfigTypeOK == AC!TypeOK

(* read_configuration returns only the configuration last saved, and     *)
(* returns it once that save returned Ok.                                 *)
ReadReturnsLastSaved == AC!ReadReturnsLastSaved

(* logging.rs: the log and the writers' calls stay well formed. *)
LogTypeOK == LF!TypeOK

(* Concurrent log calls lose none of each other's pieces nor reorder a *)
(* writer's own.                                                         *)
KeepsEveryWritersPieces == LF!KeepsEveryWritersPieces
=============================================================================
