------------------------------ MODULE LogFile ------------------------------
(***************************************************************************)
(* src/deconet/Efficiency/epic_disco/logging.rs: log_message, log_error,  *)
(* log_warning, log_info, log_debug and log_trace, called by several      *)
(* threads or processes on one log file.  Each call opens the file with    *)
(* create(true).append(true) and writes its line with writeln!, which     *)
(* issues one write_all per piece of the format: the level's prefix (none *)
(* for log_message), the message, the newline.  With O_APPEND every write *)
(* lands at the end of the file, wherever the handle is; the pieces of    *)
(* two calls may interleave.  A failing open or write returns             *)
(* Err(FileError) and writes nothing more.                                 *)
(*                                                                         *)
(* src/deconet/Efficiency/epic_process/utility/logging.rs: log_message    *)
(* (the level "utility") opens the file the same way and writes           *)
(* writeln!(file, "{}", log_line): the formatted line, then the newline;  *)
(* the timestamp and level inside the line are left out.  A failing open  *)
(* or write is expect(..): the writer panics and makes no more calls.     *)
(***************************************************************************)
EXTENDS Naturals, Sequences

CONSTANTS
    Writers,        \* threads or processes that log
    Messages,       \* messages, as model values
    Levels,         \* the functions called, by level
    MaxCalls        \* bound on the calls of each writer

ASSUME MaxCalls \in Nat

(* The prefix each function writes before the message. *)
Prefix == [message |-> <<>>, error |-> <<"ERROR: ">>, warning |-> <<"WARNING: ">>,
           info |-> <<"INFO: ">>, debug |-> <<"DEBUG: ">>, trace |-> <<"TRACE: ">>,
           utility |-> <<>>]

ASSUME Levels \subseteq DOMAIN Prefix

Texts == {"ERROR: ", "WARNING: ", "INFO: ", "DEBUG: ", "TRACE: ", "\n"} \cup Messages

Piece == [writer : Writers, text : Texts]

(* Fault: the level's name written where its prefix belongs. *)
PiecesLevelName(w, level, m) ==
    [i \in 1..3 |-> [writer |-> w, text |-> <<level, m, "\n">>[i]]]

(* writeln!(file, "<prefix>{}", message): the pieces of one line. *)
Pieces(w, level, m) ==
    [i \in 1..(Len(Prefix[level]) + 2) |->
        [writer |-> w, text |-> (Prefix[level] \o <<m, "\n">>)[i]]]

VARIABLES
    log,        \* the file, as the pieces written to it
    todo,       \* per writer: the pieces of its call still to write
    offset,     \* per writer: the position its handle writes at next
    wrote,      \* ghost: per writer, the pieces its writes returned Ok for
    calls,      \* per writer: calls made
    result,     \* per writer: "none", "ok", "err" or "panic" of its last call
    fn          \* per writer: the function (level) of its last call

vars == <<log, todo, offset, wrote, calls, result, fn>>

(* What a failing open or write_all does: map_err(FileError)? returns     *)
(* Err; utility's expect("Failed to ...") panics.                          *)
Failure(level) == IF level = "utility" THEN "panic" ELSE "err"

TypeOK ==
    /\ log \in Seq(Piece)
    /\ todo \in [Writers -> Seq(Piece)]
    /\ offset \in [Writers -> Nat]
    /\ wrote \in [Writers -> Seq(Piece)]
    /\ calls \in [Writers -> 0..MaxCalls]
    /\ result \in [Writers -> {"none", "ok", "err", "panic"}]
    /\ fn \in [Writers -> Levels \cup {"none"}]

Init ==
    /\ log = <<>>
    /\ todo = [w \in Writers |-> <<>>]
    /\ offset = [w \in Writers |-> 0]
    /\ wrote = [w \in Writers |-> <<>>]
    /\ calls = [w \in Writers |-> 0]
    /\ result = [w \in Writers |-> "none"]
    /\ fn = [w \in Writers |-> "none"]

(* OpenOptions::new().create(true).append(true).open(file_path): Ok with *)
(* a handle at the start of the file, or Err and the call returns.        *)
Open(w, level, m) ==
    /\ todo[w] = <<>>
    /\ result[w] # "panic"
    /\ calls[w] < MaxCalls
    /\ calls' = [calls EXCEPT ![w] = @ + 1]
    /\ fn' = [fn EXCEPT ![w] = level]
    /\ \/ /\ todo' = [todo EXCEPT ![w] = Pieces(w, level, m)]
          /\ offset' = [offset EXCEPT ![w] = 0]
          /\ UNCHANGED result
       \/ /\ result' = [result EXCEPT ![w] = Failure(level)]
          /\ UNCHANGED <<todo, offset>>
    /\ UNCHANGED <<log, wrote>>

(* Fault: the file opened with write(true) only, each write at the handle. *)
WritePositionAtHandle(file, off) == off + 1

(* With O_APPEND a write goes to the end of the file. *)
WritePosition(file, off) == Len(file) + 1

(* The file with x written at position i, over what was there. *)
WriteAt(file, i, x) == IF i = Len(file) + 1 THEN Append(file, x) ELSE [file EXCEPT ![i] = x]

(* write_all of the next piece; Ok(()) after the newline. *)
Write(w) ==
    /\ todo[w] # <<>>
    /\ LET pos == WritePosition(log, offset[w]) IN
         /\ log' = WriteAt(log, pos, Head(todo[w]))
         /\ offset' = [offset EXCEPT ![w] = pos]
    /\ wrote' = [wrote EXCEPT ![w] = Append(@, Head(todo[w]))]
    /\ todo' = [todo EXCEPT ![w] = Tail(@)]
    /\ result' = IF Len(todo[w]) = 1 THEN [result EXCEPT ![w] = "ok"] ELSE result
    /\ UNCHANGED <<calls, fn>>

(* A write_all fails: the call returns Err or panics, the line unfinished. *)
WriteFails(w) ==
    /\ todo[w] # <<>>
    /\ todo' = [todo EXCEPT ![w] = <<>>]
    /\ result' = [result EXCEPT ![w] = Failure(fn[w])]
    /\ UNCHANGED <<log, offset, wrote, calls, fn>>

Next ==
    \E w \in Writers :
        \/ \E level \in Levels, m \in Messages : Open(w, level, m)
        \/ Write(w)
        \/ WriteFails(w)

Spec == Init /\ [][Next]_vars

-----------------------------------------------------------------------------
(* Properties *)

(* However the calls of several writers interleave, and whichever of     *)
(* them fail part way, the log holds every piece each writer wrote, in   *)
(* the order it wrote them: no write lands over another's.               *)
KeepsEveryWritersPieces ==
    \A w \in Writers : SelectSeq(log, LAMBDA p : p.writer = w) = wrote[w]
=============================================================================
