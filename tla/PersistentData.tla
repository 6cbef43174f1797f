--------------------------- MODULE PersistentData ---------------------------
(***************************************************************************)
(* Mona::PersistentData (Mona/Disk/PersistentData.h, PersistentData.cpp):  *)
(* a store of one value per path, written by a thread of its own behind    *)
(* the application.  A value is a file named after the MD5 of its content, *)
(* in the folder of its path: a new value is written beside the former     *)
(* one, which is deleted afterwards, and a load drops the files whose name *)
(* does not match their content.                                           *)
(*                                                                         *)
(* The application is one thread, which adds, flushes and loads.  A crash  *)
(* is the end of the process: it loses the memory, and keeps what has been *)
(* written in the files.  The MD5 of a value is the value itself here, and *)
(* folders are left out.                                                   *)
(***************************************************************************)
EXTENDS Naturals, Sequences

CONSTANTS
  Paths, Values,
  None,      \* no value: an empty packet, which removes the value of its path
  Faults,    \* what may happen, among FaultKinds
  MaxAdds    \* bound: how many entries the application adds

\* An operation on the disk fails, a path is given the value it has, remove(path)
\* is called, the process crashes, as clear() makes it do, or an entry is added by the callback
\* of a load which has not disabled the transactions.
FaultKinds == {"fail", "rewrite", "remove", "crash", "reload"}

ASSUME PersistentDataAssumption ==
  /\ None \notin Values
  /\ Faults \subseteq FaultKinds
  /\ MaxAdds \in Nat

VARIABLES
  files,        \* files[p][v]: the file of the value v of p is "none", "torn" or "whole"
  phase,        \* the application: "down", "idle", in newEntry() "start" or "emplace", "flush",
                \* or in the callback of "load"
  loading,      \* the load under way: "none", or "disabled" or "enabled", its transactions
  looks,        \* the files which it has not read yet
  entry,        \* the entry newEntry() is adding
  entries,      \* _entries
  signal,       \* wakeUp
  stopped,      \* _stop
  requestStop,  \* _requestStop
  worker,       \* where the thread is in run() and processEntry()
  timeout,      \* its local variable timeout
  batch,        \* its local deque, the entry under process first
  adds,         \* bound: the entries added
  expected,     \* history: the value of each path for the application
  stored,       \* history: the value of each path whose storing is complete
  faults        \* history: the faults which have happened

loadVars == <<loading, looks>>
appVars == <<phase, loadVars, entry, adds, expected>>
threadVars == <<signal, stopped, requestStop, timeout>>
vars == <<files, phase, loadVars, entry, entries, signal, stopped, requestStop, worker,
          timeout, batch, adds, expected, stored, faults>>

NoFile == [p \in Paths |-> [v \in Values |-> "none"]]
NoValue == [p \in Paths |-> None]

Entry(path, value, clearing) == [path |-> path, value |-> value, clearing |-> clearing]
NoEntry == Entry(None, None, FALSE)

Init ==
  /\ files = NoFile
  /\ phase = "idle" /\ loading = "none" /\ looks = {}
  /\ entry = NoEntry
  /\ entries = <<>>
  /\ signal = FALSE
  /\ stopped = TRUE
  /\ requestStop = FALSE
  /\ worker = "none"
  /\ timeout = FALSE
  /\ batch = <<>>
  /\ adds = 0
  /\ expected = NoValue
  /\ stored = NoValue
  /\ faults = {}

Fault(kind) ==
  /\ kind \in Faults
  /\ faults' = faults \cup {kind}

-----------------------------------------------------------------------------
(* The application.                                                        *)

\* newEntry() returns at once when the transactions are disabled.
NewEntry(e) ==
  /\ phase = "idle" \/ (phase = "load" /\ loading = "enabled")
  /\ adds < MaxAdds
  /\ phase' = "start"
  /\ entry' = e
  /\ adds' = adds + 1
  /\ UNCHANGED <<files, loadVars, entries, threadVars, worker, batch, stored>>

Add(p, v) ==
  /\ CASE phase = "load" -> Fault("reload")
       [] phase # "load" /\ v = expected[p] /\ v # None -> Fault("rewrite")
       [] OTHER -> UNCHANGED faults
  /\ expected' = [expected EXCEPT ![p] = v]
  /\ NewEntry(Entry(p, v, FALSE))

\* remove(path): Entry's constructor sets "clearing" when there is a path.
Remove(p) ==
  /\ Fault("remove") /\ phase = "idle"
  /\ expected' = [expected EXCEPT ![p] = None]
  /\ NewEntry(Entry(p, None, TRUE))

\* start(), with the lock: it joins the former thread when _stop is set.
Start ==
  /\ phase = "start"
  /\ phase' = "emplace"
  /\ IF stopped
     THEN /\ worker \in {"none", "finished"}
          /\ worker' = "wait"
          /\ signal' = FALSE /\ stopped' = FALSE /\ requestStop' = FALSE
     ELSE UNCHANGED <<worker, signal, stopped, requestStop>>
  /\ UNCHANGED <<files, loadVars, entry, entries, timeout, batch, adds, expected, stored, faults>>

Emplace ==
  /\ phase = "emplace"
  /\ phase' = IF loading = "none" THEN "idle" ELSE "load"
  /\ entries' = Append(entries, entry)
  /\ entry' = NoEntry
  /\ signal' = TRUE
  /\ UNCHANGED <<files, loadVars, stopped, requestStop, timeout, worker, batch, adds, expected,
                 stored, faults>>

\* stop(): it requests the end of the thread, wakes it up and joins it.
Stop ==
  /\ phase' = "flush"
  /\ requestStop' = TRUE
  /\ signal' = (signal \/ worker # "none")
  /\ UNCHANGED <<files, looks, entry, entries, stopped, timeout, worker, batch, adds, faults>>

Flush == phase = "idle" /\ Stop /\ UNCHANGED <<loading, expected, stored>>

\* The end of flush(), in load() too, which lists the files from there.
Flushed ==
  /\ phase = "flush" /\ worker \in {"none", "finished"}
  /\ phase' = IF loading = "none" THEN "idle" ELSE "load"
  /\ looks' = IF loading = "none" THEN {} ELSE Paths \X Values
  /\ worker' = "none"
  /\ UNCHANGED <<files, loading, entry, entries, threadVars, batch, adds, expected, stored, faults>>

Whole(p) == {v \in Values : files[p][v] = "whole"}

\* load() flushes first.  The application of a new process knows no value, and what its
\* former life has lost is stored no more.
Load(transactions) ==
  /\ \/ phase = "idle" /\ UNCHANGED <<expected, stored>>
     \/ /\ phase = "down" /\ expected' = NoValue
        /\ stored' = [p \in Paths |-> IF Whole(p) = {} THEN None ELSE stored[p]]
  /\ loading' = transactions
  /\ Stop

\* A file whose content is not the one of its name is deleted, be it under writing;
\* the application is told the other ones.  The order is the one of the directories, and
\* a file created meanwhile may be seen or not.
LoadFile(p, v) ==
  /\ phase = "load" /\ <<p, v>> \in looks
  /\ looks' = looks \ {<<p, v>>}
  /\ files' = IF files[p][v] = "torn" THEN [files EXCEPT ![p][v] = "none"] ELSE files
  /\ IF files[p][v] = "whole"
     THEN /\ expected' = [expected EXCEPT ![p] = v]
          /\ stored' = [stored EXCEPT ![p] = v]
     ELSE UNCHANGED <<expected, stored>>
  /\ UNCHANGED <<phase, loading, entry, entries, threadVars, worker, batch, adds, faults>>

Loaded ==
  /\ phase = "load" /\ looks = {}
  /\ phase' = "idle" /\ loading' = "none"
  /\ UNCHANGED <<files, looks, entry, entries, threadVars, worker, batch, adds, expected, stored,
                 faults>>

Dies ==
  /\ phase' = "down" /\ loading' = "none" /\ looks' = {}
  /\ entry' = NoEntry
  /\ entries' = <<>> /\ batch' = <<>>
  /\ signal' = FALSE /\ stopped' = TRUE /\ requestStop' = FALSE
  /\ worker' = "none" /\ timeout' = FALSE
  /\ UNCHANGED <<files, adds, expected, stored>>

Crash == Fault("crash") /\ phase # "down" /\ Dies

\* clear(): the constructor of its entry assigns the null pointer to a string.
ClearAll == Fault("crash") /\ phase = "idle" /\ Dies

-----------------------------------------------------------------------------
(* The thread: run().                                                      *)

Locked == phase \in {"start", "emplace"}

Wait ==
  /\ worker = "wait"
  /\ timeout' = ~signal
  /\ signal' = FALSE
  /\ worker' = "check"
  /\ UNCHANGED <<files, appVars, entries, stopped, requestStop, batch, stored, faults>>

\* Mutant of Check: a request of stop is obeyed before the queue is empty.
CheckStopFirst ==
  /\ worker = "check" /\ ~Locked
  /\ IF entries # <<>> /\ ~requestStop
     THEN /\ worker' = "process"
          /\ batch' = entries
          /\ entries' = <<>>
          /\ UNCHANGED <<stopped, requestStop>>
     ELSE /\ UNCHANGED <<entries, batch>>
          /\ IF ~timeout /\ ~requestStop
             THEN worker' = "wait" /\ UNCHANGED <<stopped, requestStop>>
             ELSE worker' = "finished" /\ stopped' = TRUE /\ requestStop' = TRUE
  /\ UNCHANGED <<files, appVars, signal, timeout, stored, faults>>

\* The critical section of run().
Check ==
  /\ worker = "check" /\ ~Locked
  /\ IF entries # <<>>
     THEN /\ worker' = "process"
          /\ batch' = entries
          /\ entries' = <<>>
          /\ UNCHANGED <<stopped, requestStop>>
     ELSE /\ UNCHANGED <<entries, batch>>
          /\ IF ~timeout /\ ~requestStop
             THEN worker' = "wait" /\ UNCHANGED <<stopped, requestStop>>
             ELSE worker' = "finished" /\ stopped' = TRUE /\ requestStop' = TRUE
  /\ UNCHANGED <<files, appVars, signal, timeout, stored, faults>>

First == Head(batch)
Path == First.path

\* An entry ends with an exception: the thread stops, without the lock, and
\* what remains of its batch is destroyed.
Failed ==
  /\ worker' = "finished"
  /\ stopped' = TRUE /\ requestStop' = TRUE
  /\ batch' = <<>>

Processed ==
  /\ batch' = Tail(batch)
  /\ worker' = IF Tail(batch) = <<>> THEN "check" ELSE "process"
  /\ UNCHANGED <<stopped, requestStop>>

(* processEntry() *)

Clear ==
  /\ worker = "process" /\ First.clearing
  /\ files' = NoFile
  /\ stored' = NoValue
  /\ Processed
  /\ UNCHANGED <<appVars, entries, signal, timeout, faults>>

\* Mutant of Open: the other values of the path are removed before the writing.
OpenCleaned ==
  /\ worker = "process" /\ ~First.clearing /\ First.value # None
  /\ files' = [files EXCEPT ![Path] =
                 [v \in Values |-> IF v = First.value THEN "torn" ELSE "none"]]
  /\ worker' = "write"
  /\ UNCHANGED <<appVars, entries, threadVars, batch, stored, faults>>

\* The file of the value is created, or truncated when it exists.
Open ==
  /\ worker = "process" /\ ~First.clearing /\ First.value # None
  /\ files' = [files EXCEPT ![Path][First.value] = "torn"]
  /\ worker' = "write"
  /\ UNCHANGED <<appVars, entries, threadVars, batch, stored, faults>>

OpenFails ==
  /\ Fault("fail")
  /\ worker = "process" /\ ~First.clearing /\ First.value # None
  /\ Failed
  /\ UNCHANGED <<files, appVars, entries, signal, timeout, stored>>

\* What is written in a file deleted by a load is lost.
Write ==
  /\ worker = "write"
  /\ files' = [files EXCEPT ![Path][First.value] = IF @ = "torn" THEN "whole" ELSE @]
  /\ worker' = "clean"
  /\ UNCHANGED <<appVars, entries, threadVars, batch, stored, faults>>

\* The result of write() is not tested: the cleaning begins.
WriteFails ==
  /\ Fault("fail")
  /\ worker = "write"
  /\ worker' = "cleanFailed"
  /\ UNCHANGED <<files, appVars, entries, threadVars, batch, stored>>

\* A removal: from now on the value is not promised any more.
NothingToWrite ==
  /\ worker = "process" /\ ~First.clearing /\ First.value = None
  /\ stored' = [stored EXCEPT ![Path] = None]
  /\ worker' = "clean"
  /\ UNCHANGED <<files, appVars, entries, threadVars, batch, faults>>

\* The other values of the path, the former one usually.
Olds == {v \in Values \ {First.value} : files[Path][v] # "none"}

CleanOne ==
  /\ worker \in {"clean", "cleanFailed"}
  /\ \E v \in Olds : files' = [files EXCEPT ![Path][v] = "none"]
  /\ UNCHANGED <<appVars, entries, threadVars, worker, batch, stored, faults>>

\* Mutant of CleanEnd: the cleaning may leave a former value.
CleanEndSoon ==
  /\ worker \in {"clean", "cleanFailed"}
  /\ IF worker = "clean"
     THEN Processed /\ stored' = [stored EXCEPT ![Path] = First.value]
     ELSE Failed /\ UNCHANGED stored
  /\ UNCHANGED <<files, appVars, entries, signal, timeout, faults>>

CleanEnd ==
  /\ worker \in {"clean", "cleanFailed"}
  /\ Olds = {}
  /\ IF worker = "clean"
     THEN Processed /\ stored' = [stored EXCEPT ![Path] = First.value]
     ELSE Failed /\ UNCHANGED stored
  /\ UNCHANGED <<files, appVars, entries, signal, timeout, faults>>

\* A former value cannot be deleted: the others are, and the entry has failed.
CleanFails ==
  /\ Fault("fail")
  /\ worker \in {"clean", "cleanFailed"}
  /\ Olds # {}
  /\ Failed
  /\ UNCHANGED <<files, appVars, entries, signal, timeout, stored>>

-----------------------------------------------------------------------------

Process ==
  \/ Clear \/ Open \/ OpenFails \/ Write \/ WriteFails \/ NothingToWrite
  \/ CleanOne \/ CleanEnd \/ CleanFails

Worker == Wait \/ Check \/ Process

Next ==
  \/ \E p \in Paths, v \in Values \cup {None} : Add(p, v)
  \/ \E p \in Paths : Remove(p)
  \/ Start \/ Emplace \/ Flush \/ Flushed
  \/ \E transactions \in {"disabled", "enabled"} : Load(transactions)
  \/ \E p \in Paths, v \in Values : LoadFile(p, v)
  \/ Loaded
  \/ Crash \/ ClearAll
  \/ Worker

Spec == Init /\ [][Next]_vars

\* The thread and the calls of the application go on.
FairSpec == Spec /\ WF_vars(Worker) /\ WF_vars(Start \/ Emplace \/ Flushed)

-----------------------------------------------------------------------------
(* Correctness *)

Entries ==
  [path : Paths \cup {None}, value : Values \cup {None}, clearing : BOOLEAN]

\* Every variable has its type.
TypeOK ==
  /\ files \in [Paths -> [Values -> {"none", "torn", "whole"}]]
  /\ phase \in {"down", "idle", "start", "emplace", "flush", "load"}
  /\ loading \in {"none", "disabled", "enabled"} /\ looks \subseteq Paths \X Values
  /\ entry \in Entries
  /\ entries \in Seq(Entries) /\ batch \in Seq(Entries)
  /\ signal \in BOOLEAN /\ stopped \in BOOLEAN /\ requestStop \in BOOLEAN
  /\ timeout \in BOOLEAN
  /\ worker \in {"none", "wait", "check", "process", "write", "clean",
                 "cleanFailed", "finished"}
  /\ adds \in 0 .. MaxAdds
  /\ expected \in [Paths -> Values \cup {None}]
  /\ stored \in [Paths -> Values \cup {None}]
  /\ faults \subseteq Faults

Quiet == phase = "idle" /\ entries = <<>> /\ batch = <<>>

\* When nothing is on its way, the files are the values the application has
\* given, one file per path: the next load will report these and no other.
StoreMatches ==
  Quiet => \A p \in Paths, v \in Values :
             files[p][v] = IF v = expected[p] THEN "whole" ELSE "none"

\* This is so until the disk fails, the process crashes, as clear() makes it do,
\* remove(path) is called, or a value is added in a load.
StoreConverges == faults \subseteq {"rewrite"} => StoreMatches

\* "remove possible old value after writing to be safe!" (PersistentData.cpp:101):
\* a path which has a value stored has one at any time, were the process to
\* crash then, up to its removal.
AlwaysOneValue ==
  \A p \in Paths : stored[p] # None => Whole(p) # {}

\* This is so until a write fails, a path is given the value it has, or a load deletes
\* a file under writing.
CrashSafe == faults \subseteq {"crash", "remove"} => AlwaysOneValue

\* flush() returns when all what was added before is on the disk, as long as no
\* entry fails, no load deletes what is written, and remove(path) does not clear the
\* other paths.
FlushDrains ==
  [][phase = "flush" /\ phase' = "idle" /\ faults \cap {"fail", "remove", "reload"} = {} =>
       entries = <<>> /\ stored = expected]_vars

=============================================================================
