--------------------------------- MODULE Logs ---------------------------------
(***************************************************************************)
(* Logs::Log and its loggers (Logs/Logs.h, Logs.cpp), one of which writes  *)
(* files in rotation (Logs/FileLogger.cpp).  Everything happens under      *)
(* Logs::_Mutex, but the process may die between two operations on the     *)
(* files and start again over what they have become.                       *)
(*                                                                          *)
(* A line is a number and a file the sequence of its lines.  At most one   *)
(* logger fails at each line: with two, Loggers::flush() takes the front   *)
(* of _failed and pops its back (Logs.cpp:102-109), so that it removes one *)
(* twice, after its deletion, and the other never.  None of the loggers is  *)
(* fatal: the failure of such a one ends the process (Logs.cpp:115).        *)
(***************************************************************************)
EXTENDS Naturals, Sequences, FiniteSets, FiniteSetsExt, Functions

CONSTANTS
  Others,       \* the loggers which are not FileLogger
  Rotations,    \* values of _rotation, 0 for no limit
  SizeByFile,   \* _sizeByFile
  MaxLines,     \* bound: lines logged
  MaxCrashes    \* bound: deaths of the process

ASSUME LogsAssumption == Rotations \subseteq Nat /\ SizeByFile \in Nat

VARIABLES
  rotation,    \* _rotation
  files,       \* number of a .log file -> its lines, of equal sizes
  written,     \* _written
  fresh,       \* the next write truncates 0.log: MODE_WRITE, not opened yet
  step,        \* of manage(): "idle", "delete", "rename", and "flush" of Loggers
  maxNum,      \* maxNum of manage()
  registered,  \* _Loggers; File stands for the FileLogger
  failed,      \* _failed: the logger which has failed, or None
  lines,       \* lines logged
  missed,      \* those logged without the FileLogger
  crashes      \* deaths of the process

disk == <<files, written, fresh>>
book == <<rotation, registered, failed, lines, missed, crashes>>
logVars == <<disk, step, maxNum, book>>

File == "file"
None == "none"
Loggers == Others \cup {File}

LogsInit ==
  /\ rotation \in Rotations
  /\ files = <<>> /\ written = 0 /\ fresh = FALSE /\ step = "idle" /\ maxNum = 0
  /\ registered = Loggers /\ failed = None
  /\ lines = 0 /\ missed = {} /\ crashes = 0

-----------------------------------------------------------------------------
\* File::write, which opens 0.log first: O_TRUNC after a rotation, else O_APPEND.
Appended(line) ==
  LET before == IF 0 \in DOMAIN files /\ ~fresh THEN files[0] ELSE <<>>
  IN  [n \in DOMAIN files \cup {0} |-> IF n = 0 THEN Append(before, line) ELSE files[n]]

\* The loop of Log() and the one of flush(): the line goes to every logger. The one
\* which fails is noted; a FileLogger which fails has no file any more. manage()
\* starts a rotation when the file is over its size.
Dispatch(loggers, fails) ==
  LET full == written + 1 > SizeByFile /\ SizeByFile # 0 IN
  /\ fails \in loggers \cup {None}
  /\ lines < MaxLines /\ lines' = lines + 1
  /\ registered' = loggers /\ failed' = fails
  /\ IF File \in loggers \ {fails}
     THEN /\ files' = Appended(lines + 1)
          /\ written' = IF full THEN 0 ELSE written + 1
          /\ fresh' = full
          /\ step' = IF full THEN "delete" ELSE "flush"
          /\ UNCHANGED missed
     ELSE /\ missed' = missed \cup {lines + 1} /\ step' = "flush"
          /\ UNCHANGED disk
  /\ UNCHANGED <<rotation, maxNum, crashes>>

Log(fails) == step = "idle" /\ Dispatch(registered, fails)

\* Loggers::flush(): the logger which has failed is removed, and the others are told.
Flush(fails) == step = "flush" /\ failed # None /\ Dispatch(registered \ {failed}, fails)

FlushEnd ==
  /\ step = "flush" /\ failed = None /\ step' = "idle"
  /\ UNCHANGED <<disk, maxNum, book>>

-----------------------------------------------------------------------------
(* FileLogger::manage *)

Old == {n \in DOMAIN files : rotation # 0 /\ n >= rotation - 1}

\* The files beyond the rotation are deleted, as the folder lists them.
Delete(n) ==
  /\ step = "delete" /\ n \in Old
  /\ files' = [m \in DOMAIN files \ {n} |-> files[m]]
  /\ UNCHANGED <<written, fresh, step, maxNum, book>>

DeleteEnd ==
  /\ step = "delete" /\ Old = {} /\ step' = "rename"
  /\ maxNum' = Max(DOMAIN files \cup {0})
  /\ UNCHANGED <<disk, book>>

\* Every file takes the next number, the oldest first; a rename may find no file.
Renamed(n) ==
  IF n \notin DOMAIN files THEN files
  ELSE [m \in (DOMAIN files \ {n}) \cup {n + 1} |-> IF m = n + 1 THEN files[n] ELSE files[m]]

\* Mutant of Rename: 0.log keeps its number.
RenameOthers ==
  /\ step = "rename"
  /\ files' = IF maxNum = 0 THEN files ELSE Renamed(maxNum)
  /\ maxNum' = IF maxNum = 0 THEN 0 ELSE maxNum - 1
  /\ step' = IF maxNum = 0 THEN "flush" ELSE "rename"
  /\ UNCHANGED <<written, fresh, book>>

Rename ==
  /\ step = "rename"
  /\ files' = Renamed(maxNum)
  /\ maxNum' = IF maxNum = 0 THEN 0 ELSE maxNum - 1
  /\ step' = IF maxNum = 0 THEN "flush" ELSE "rename"
  /\ UNCHANGED <<written, fresh, book>>

\* The process dies, and its next life appends to the 0.log that it finds.
Crash ==
  /\ crashes < MaxCrashes /\ crashes' = crashes + 1
  /\ written' = IF 0 \in DOMAIN files THEN Len(files[0]) ELSE 0
  /\ fresh' = FALSE /\ step' = "idle" /\ maxNum' = 0
  /\ registered' = Loggers /\ failed' = None
  /\ UNCHANGED <<rotation, files, lines, missed>>

LogsNext ==
  \/ \E fails \in Loggers \cup {None} : Log(fails) \/ Flush(fails)
  \/ \E n \in DOMAIN files : Delete(n)
  \/ FlushEnd \/ DeleteEnd \/ Rename \/ Crash

-----------------------------------------------------------------------------
(* Correctness *)

OnDisk == UNION {Range(files[n]) : n \in DOMAIN files}
Lost == (1 .. lines) \ (missed \cup OnDisk)

\* The rotation loses the oldest lines only, for the sake of the limit, and the files
\* tell the lines in their order from the last number to 0.log, however many rotations
\* a death of the process has cut; it costs one of the files at most.
LogsKept ==
  /\ \A n, m \in DOMAIN files : n < m =>
       \A i \in Range(files[n]), j \in Range(files[m]) : i > j
  /\ \A n \in DOMAIN files : \A i, j \in DOMAIN files[n] : i < j => files[n][i] < files[n][j]
  /\ \A i \in Lost, j \in OnDisk : i < j
  /\ step = "idle" /\ rotation # 0 => Cardinality(DOMAIN files) <= rotation
  /\ Lost # {} =>
       /\ rotation # 0
       /\ Cardinality({n \in DOMAIN files : Len(files[n]) > SizeByFile}) + crashes + 1 >= rotation
=============================================================================
