------------------------------ MODULE Settings ------------------------------
(***************************************************************************)
(* src/deconet/Efficiency/epic_disco/configuration.rs: a Configuration    *)
(* whose settings (a HashMap<String, String>) save_to_file writes as      *)
(* name=value lines, and src/deconet/Efficiency/epic_disco/                *)
(* error_handling.rs: a main that reads such a file, takes the line of    *)
(* the setting "port", parses it as an i32, validates it and logs its     *)
(* errors to error.log.  The two are separate processes that share the    *)
(* file, so main may read it while a save is writing it.                  *)
(*                                                                         *)
(* writeln! writes a line in pieces (the name, "=", the value, the         *)
(* newline), and a write_all may stop part way through the value, so a    *)
(* reader may see a line cut anywhere after its name.  A value is a       *)
(* number (its decimal text) or a word; a prefix of a word is a word that *)
(* parses no better, so a word is written whole.                           *)
(***************************************************************************)
EXTENDS Naturals, Sequences, SequencesExt

CONSTANTS
    Names,              \* setting names
    Target,             \* main's setting_name, "port"
    StartsWith(_, _),   \* a line of the first name starts with the second
    Values,             \* setting values: numbers and words
    Others,             \* the configurations merge may be given
    Jsons,              \* the maps from_json may parse
    Env,                \* std::env::vars(), restricted to Names
    MaxRuns,            \* bound on the runs of main
    Missing, NoEq, Empty, None

ASSUME Target \in Names /\ MaxRuns \in Nat

Absent == Missing
Maps == [Names -> Values \cup {Absent}]

VARIABLES
    settings,       \* self.settings
    created,        \* settings.txt exists
    lines,          \* its complete lines, as [name, value] records
    tail,           \* the line being written: None or [name, value, stage]
    pending,        \* the names save_to_file has still to write
    saving,         \* save_to_file is running
    saved,          \* ghost: the map the last save wrote, None before any
    saveOk,         \* ghost: the last save returned Ok
    errorLog,       \* error.log: the kinds of error logged, in order
    mainOut,        \* the last run of main: None or its result
    runs            \* runs of main so far

vars == <<settings, created, lines, tail, pending, saving, saved, saveOk,
          errorLog, mainOut, runs>>

Line == [name : Names, value : Values]

RECURSIVE Digits(_)
Digits(n) == IF n < 10 THEN 1 ELSE 1 + Digits(n \div 10)

(* The characters of a value's text. *)
Width(v) == IF v \in Nat THEN Digits(v) ELSE 1

(* The first k characters of a value's text. *)
ValuePrefix(v, k) ==
    IF k = 0 THEN Empty ELSE IF v \in Nat THEN v \div 10^(Width(v) - k) ELSE v

(* What the file shows of a line cut at stage s: the name alone (s = 0), *)
(* or the name, "=" and the first s - 1 characters of the value.         *)
Shown(t) == [name |-> t.name,
             value |-> IF t.stage = 0 THEN NoEq ELSE ValuePrefix(t.value, t.stage - 1)]

(* Every text a value line may show after its "=". *)
ShownValues == UNION {{ValuePrefix(v, k) : k \in 0..Width(v)} : v \in Values}

Content == IF tail = None THEN lines ELSE Append(lines, Shown(tail))

Present(m) == {n \in Names : m[n] # Absent}

Outcomes == {"ok", "file", "missing", "invalid", "validation", "logfail"}

TypeOK ==
    /\ settings \in Maps
    /\ created \in BOOLEAN
    /\ lines \in Seq(Line)
    /\ tail = None \/ tail \in [name : Names, value : Values, stage : Nat]
    /\ pending \in Seq(Names)
    /\ saving \in BOOLEAN
    /\ saved \in Maps \cup {None}
    /\ saveOk \in BOOLEAN
    /\ errorLog \in Seq(Outcomes)
    /\ mainOut = None \/ mainOut \in [result : Outcomes, port : {v \in ShownValues : v \in Nat} \cup {None},
                                     read : Seq(Line)]
    /\ runs \in 0..MaxRuns

(* A new Configuration holds no settings; settings.txt does not exist. *)
Init ==
    /\ settings = [n \in Names |-> Absent]
    /\ created = FALSE
    /\ lines = <<>>
    /\ tail = None
    /\ pending = <<>>
    /\ saving = FALSE
    /\ saved = None
    /\ saveOk = FALSE
    /\ errorLog = <<>>
    /\ mainOut = None
    /\ runs = 0

-----------------------------------------------------------------------------
(* configuration.rs.  While save_to_file borrows the configuration no    *)
(* method of it can run.                                                   *)

FileUnchanged == UNCHANGED <<created, lines, tail, pending, saving, saved, saveOk>>
MainUnchanged == UNCHANGED <<errorLog, mainOut, runs>>

(* clear_settings *)
ClearSettings ==
    /\ ~saving
    /\ settings' = [n \in Names |-> Absent]
    /\ FileUnchanged /\ MainUnchanged

(* merge: every setting of other inserted, replacing a value of the name. *)
Merge(other) ==
    /\ ~saving
    /\ settings' = [n \in Names |-> IF other[n] # Absent THEN other[n] ELSE settings[n]]
    /\ FileUnchanged /\ MainUnchanged

(* from_json: the parsed map replaces the settings.  A JSON text that does *)
(* not parse returns Err through ? before the assignment, a step that     *)
(* changes nothing.                                                        *)
FromJson(json) ==
    /\ ~saving
    /\ settings' = json
    /\ FileUnchanged /\ MainUnchanged

(* load_from_env: every environment variable inserted. *)
LoadFromEnv == Merge(Env)

(* Fault: the file opened with append(true), as log_error opens its log. *)
OpenedForAppend(content) == content

(* File::create: the lines of the file once opened, truncated. *)
Opened(content) == <<>>

(* save_to_file, File::create(file_path)?: the file is created or          *)
(* truncated, and the settings are to be written in the HashMap's         *)
(* iteration order, which nothing fixes.  A create that fails returns Err *)
(* and leaves the file as it was.                                          *)
SaveToFile ==
    /\ ~saving
    /\ \/ /\ created' = TRUE
          /\ lines' = Opened(lines)
          /\ tail' = None
          /\ \E order \in SetToSeqs(Present(settings)) : pending' = order
          /\ saving' = TRUE
          /\ saved' = settings
       \/ UNCHANGED <<created, lines, tail, pending, saving, saved>>
    /\ saveOk' = FALSE
    /\ UNCHANGED settings /\ MainUnchanged

(* writeln!(file, "{}={}", name, value)?: one more piece of the line.      *)
WritePiece ==
    /\ saving
    /\ pending # <<>>
    /\ LET n == Head(pending)
           t == IF tail = None THEN [name |-> n, value |-> settings[n], stage |-> 0]
                ELSE [tail EXCEPT !.stage = @ + 1]
       IN IF t.stage = Width(t.value) + 1
          THEN /\ lines' = Append(lines, [name |-> t.name, value |-> t.value])
               /\ tail' = None
               /\ pending' = Tail(pending)
          ELSE /\ tail' = t
               /\ UNCHANGED <<lines, pending>>
    /\ UNCHANGED <<settings, created, saving, saved, saveOk>> /\ MainUnchanged

(* A write fails (the disk is full): ? returns Err, leaving what was       *)
(* written, the cut line included.                                         *)
WriteFails ==
    /\ saving
    /\ pending # <<>>
    /\ saving' = FALSE
    /\ pending' = <<>>
    /\ saveOk' = FALSE
    /\ UNCHANGED <<settings, created, lines, tail, saved>> /\ MainUnchanged

(* Ok(()) once every setting is written. *)
SaveDone ==
    /\ saving
    /\ pending = <<>>
    /\ saving' = FALSE
    /\ saveOk' = TRUE
    /\ UNCHANGED <<settings, created, lines, tail, pending, saved>> /\ MainUnchanged

-----------------------------------------------------------------------------
(* error_handling.rs *)

(* Fault: a value taken as valid when it is not empty. *)
ParseSettingNonEmpty(v) == v # Empty

(* parse_setting: value.parse::<i32>(); an empty or cut value is text too. *)
ParseSetting(v) == v \in Nat

(* load_setting: read_to_string, then the first line that starts with   *)
(* setting_name, then split('=').nth(1).unwrap_or("").trim().  Missing    *)
(* stands for Err(MissingSetting).                                        *)
LoadSetting(content) ==
    LET i == SelectInSeq(content, LAMBDA l : StartsWith(l.name, Target)) IN
    IF i = 0 THEN Missing
    ELSE IF content[i].value = NoEq THEN Empty ELSE content[i].value

(* validate_configuration: a "port" entry must parse. *)
ValidateConfiguration(config) == Target \notin DOMAIN config \/ ParseSetting(config[Target])

(* main: one run against the file as it is when read_to_string reads it. *)
(* An error of load_setting or of validation is logged with log_error,   *)
(* whose own failure (?) returns that error instead; a value that does   *)
(* not parse returns through ? unlogged.                                  *)
RunMain ==
    /\ runs < MaxRuns
    /\ LET value == IF created THEN LoadSetting(Content) ELSE None
           config == Target :> value
           error == CASE ~created              -> "file"
                      [] value = Missing       -> "missing"
                      [] ~ParseSetting(value)  -> "invalid"
                      [] ~ValidateConfiguration(config) -> "validation"
                      [] OTHER                 -> "ok"
       IN \E logged \in BOOLEAN :
            /\ errorLog' = IF error \in {"file", "missing", "validation"} /\ logged
                           THEN Append(errorLog, error) ELSE errorLog
            /\ mainOut' = [result |-> IF error \in {"file", "missing", "validation"} /\ ~logged
                                      THEN "logfail" ELSE error,
                           port |-> IF error = "ok" THEN value ELSE None,
                           read |-> lines]
    /\ runs' = runs + 1
    /\ UNCHANGED <<settings, created, lines, tail, pending, saving, saved, saveOk>>

Next ==
    \/ ClearSettings
    \/ \E o \in Others : Merge(o)
    \/ \E j \in Jsons : FromJson(j)
    \/ LoadFromEnv
    \/ SaveToFile \/ WritePiece \/ WriteFails \/ SaveDone
    \/ RunMain

Spec == Init /\ [][Next]_vars

-----------------------------------------------------------------------------
(* Properties *)

(* After a save_to_file that returned Ok, the file holds exactly one     *)
(* line per setting saved, with its value: create truncated what an     *)
(* earlier, longer or failed save left, whatever the iteration order.   *)
FileReflectsSettings ==
    saveOk =>
        /\ tail = None
        /\ Len(lines) = Cardinality(Present(saved))
        /\ \A n \in Present(saved) : \E i \in DOMAIN lines : lines[i] = [name |-> n, value |-> saved[n]]

(* load_setting's comment: it loads the named setting from the file.  When *)
(* main parses a port, that port is the value of a complete "port" line   *)
(* of the file it read.                                                    *)
ParsedPortWasSaved ==
    (mainOut # None /\ mainOut.result = "ok") =>
        \E i \in DOMAIN mainOut.read : mainOut.read[i] = [name |-> Target, value |-> mainOut.port]
=============================================================================
