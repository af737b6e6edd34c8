------------------------------ MODULE Storage ------------------------------
(***************************************************************************)
(* src/deconet/Efficiency/epic_auth/storage.rs: file helpers over the    *)
(* file system.  A path is a directory (Root, or one made by             *)
(* create_directory) and a file name; a file's content is a sequence of  *)
(* characters, of which only "LF" and "CR" matter to the code.  Every    *)
(* helper returns io::Result; the failures the OS reports are modelled    *)
(* where the code meets them: a missing file or directory, an existing    *)
(* directory, and a write_all or remove_dir_all that fails part way       *)
(* (ENOSPC, EIO, EACCES), leaving what it had done.                      *)
(***************************************************************************)
EXTENDS Naturals, Sequences, SequencesExt

CONSTANTS
    Root,           \* the working directory, which always exists
    Dirs,           \* directories create_directory may make
    Names,          \* file names
    Contents,       \* strings the caller writes or appends
    MaxLen,         \* bound on a file's length
    None, Err

ASSUME Root \notin Dirs /\ MaxLen \in Nat

Paths == (Dirs \cup {Root}) \X Names
Chars == UNION {Range(c) : c \in Contents}

VARIABLES
    dirs,           \* the directories that exist (besides Root)
    files,          \* the files that exist: a function from their paths
    lastRead,       \* the result of the last call if it was read_file: [path, out]
    writes          \* ghost: per file, the contents of the write_file that
                    \* created or truncated it and of the appends since that
                    \* wrote bytes, in order

vars == <<dirs, files, lastRead, writes>>

TypeOK ==
    /\ dirs \subseteq Dirs
    /\ DOMAIN files \subseteq Paths
    /\ \A p \in DOMAIN files : files[p] \in Seq(Chars) /\ Len(files[p]) <= MaxLen
    /\ lastRead = None \/ lastRead \in [path : Paths, out : Seq(Chars) \cup {Err}]
    /\ DOMAIN writes = DOMAIN files
    /\ \A p \in DOMAIN writes : writes[p] \in Seq(Contents)

Init ==
    /\ dirs = {}
    /\ files = [p \in {} |-> <<>>]
    /\ lastRead = None
    /\ writes = files

DirExists(p) == p[1] = Root \/ p[1] \in dirs

(* read_file: reader.lines() splits at LF and strips a CR just before   *)
(* it (a CR that ends the file without a LF is kept);                    *)
(* contents.push_str(&line) then push('\n') for each line.               *)
RECURSIVE ReadLines(_)
ReadLines(s) ==
    IF s = <<>> THEN <<>>
    ELSE LET lf   == {i \in 1..Len(s) : s[i] = "LF"}
             stop == IF lf = {} THEN Len(s) + 1 ELSE Min(lf)
             raw  == SubSeq(s, 1, stop - 1)
             line == IF lf # {} /\ raw # <<>> /\ Last(raw) = "CR" THEN Front(raw) ELSE raw
         IN  line \o <<"LF">> \o ReadLines(SubSeq(s, stop + 1, Len(s)))

(* Each action is one helper call: it changes the file system only as *)
(* far as it got, and otherwise leaves it alone.                       *)

ReadFile(p) ==
    /\ lastRead' = [path |-> p, out |-> IF p \in DOMAIN files THEN ReadLines(files[p]) ELSE Err]
    /\ UNCHANGED <<dirs, files, writes>>

(* Fault: the file opened for writing without truncation (OpenOptions    *)
(* write + create), so a shorter content leaves the old tail behind.     *)
WriteFileNoTruncate(p, c) ==
    /\ DirExists(p)
    /\ \E n \in 0..Len(c) :
          files' = (p :> SubSeq(c, 1, n) \o
                         IF p \in DOMAIN files THEN SubSeq(files[p], n + 1, Len(files[p]))
                                              ELSE <<>>) @@ files
    /\ UNCHANGED dirs
    /\ lastRead' = None
    /\ writes' = (p :> <<c>>) @@ writes

(* write_file: File::create (fails if the directory is missing, else      *)
(* creates or truncates), then write_all, which may fail part way.        *)
WriteFile(p, c) ==
    /\ DirExists(p)
    /\ \E n \in 0..Len(c) : files' = (p :> SubSeq(c, 1, n)) @@ files
    /\ UNCHANGED dirs
    /\ lastRead' = None
    /\ writes' = (p :> <<c>>) @@ writes

(* Fault: write_all retried in full after a partial write. *)
AppendToFileRetry(p, c) ==
    /\ p \in DOMAIN files
    /\ Len(files[p]) + Len(c) <= MaxLen
    /\ \E n \in 0..Len(c) : files' = [files EXCEPT ![p] = @ \o SubSeq(c, 1, n) \o c]
    /\ UNCHANGED dirs
    /\ lastRead' = None
    /\ writes' = [writes EXCEPT ![p] = Append(@, c)]

(* append_to_file: OpenOptions::new().append(true).open (fails if the   *)
(* file is missing), then write_all, which may fail part way.             *)
AppendToFile(p, c) ==
    /\ p \in DOMAIN files
    /\ Len(files[p]) + Len(c) <= MaxLen
    /\ \E n \in 0..Len(c) :
          /\ files' = [files EXCEPT ![p] = @ \o SubSeq(c, 1, n)]
          /\ writes' = IF n = 0 THEN writes ELSE [writes EXCEPT ![p] = Append(@, c)]
    /\ UNCHANGED dirs
    /\ lastRead' = None

(* delete_file: fs::remove_file *)
DeleteFile(p) ==
    /\ p \in DOMAIN files
    /\ files' = [q \in DOMAIN files \ {p} |-> files[q]]
    /\ UNCHANGED dirs
    /\ lastRead' = None
    /\ writes' = [q \in DOMAIN files' |-> writes[q]]

(* copy_file: fs::copy opens the source, creates or truncates the         *)
(* destination and copies; when both are one file it is truncated before *)
(* it is read, so what survives depends on the platform's copy.           *)
CopyFile(src, dst) ==
    /\ src \in DOMAIN files
    /\ DirExists(dst)
    /\ \/ /\ src # dst
          /\ files' = (dst :> files[src]) @@ files
          /\ writes' = (dst :> writes[src]) @@ writes
       \/ /\ src = dst
          /\ UNCHANGED <<files, writes>>
       \/ /\ src = dst
          /\ files' = [files EXCEPT ![dst] = <<>>]
          /\ writes' = [writes EXCEPT ![dst] = <<>>]
    /\ UNCHANGED dirs
    /\ lastRead' = None

(* move_file: fs::rename replaces the destination *)
MoveFile(src, dst) ==
    /\ src \in DOMAIN files
    /\ DirExists(dst)
    /\ files' = (dst :> files[src]) @@ [q \in DOMAIN files \ {src} |-> files[q]]
    /\ writes' = (dst :> writes[src]) @@ [q \in DOMAIN files \ {src} |-> writes[q]]
    /\ UNCHANGED dirs
    /\ lastRead' = None

(* create_directory: fs::create_dir fails if it exists *)
CreateDirectory(d) ==
    /\ d \notin dirs
    /\ dirs' = dirs \cup {d}
    /\ UNCHANGED <<files, writes>>
    /\ lastRead' = None

(* remove_directory: fs::remove_dir_all removes the files, then the      *)
(* directory; it may fail after removing some of them.                    *)
RemoveDirectory(d) ==
    /\ d \in dirs
    /\ LET inside == {p \in DOMAIN files : p[1] = d}
       IN  \/ /\ dirs' = dirs \ {d}
              /\ files' = [q \in DOMAIN files \ inside |-> files[q]]
           \/ /\ \E gone \in SUBSET inside :
                     files' = [q \in DOMAIN files \ gone |-> files[q]]
              /\ UNCHANGED dirs
    /\ writes' = [q \in DOMAIN files' |-> writes[q]]
    /\ lastRead' = None

Next ==
    \/ \E p \in Paths : ReadFile(p) \/ DeleteFile(p)
    \/ \E p \in Paths, c \in Contents : WriteFile(p, c) \/ AppendToFile(p, c)
    \/ \E src, dst \in Paths : CopyFile(src, dst) \/ MoveFile(src, dst)
    \/ \E d \in Dirs : CreateDirectory(d) \/ RemoveDirectory(d)

Spec == Init /\ [][Next]_vars

-----------------------------------------------------------------------------
(* Properties *)

(* RECURSIVE: f is the concatenation of a prefix of each of the contents *)
(* in h, in order.                                                         *)
RECURSIVE PrefixesInOrder(_, _)
PrefixesInOrder(f, h) ==
    IF h = <<>> THEN f = <<>>
    ELSE \E n \in 0..Min({Len(f), Len(Head(h))}) :
            /\ SubSeq(f, 1, n) = SubSeq(Head(h), 1, n)
            /\ PrefixesInOrder(SubSeq(f, n + 1, Len(f)), Tail(h))

(* Whatever write_all calls failed part way, and whatever copies, moves    *)
(* and removals came between, every file holds a prefix of what the      *)
(* write_file that created or truncated it wrote, followed by a prefix of *)
(* each append since, in order: no byte from before the truncation, none  *)
(* written twice and none out of order.                                    *)
FilesArePrefixesOfWrites ==
    \A p \in DOMAIN files : PrefixesInOrder(files[p], writes[p])
=============================================================================
