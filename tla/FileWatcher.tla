------------------------------ MODULE FileWatcher ------------------------------
(***************************************************************************)
(* FileWatcher (Disk/FileWatcher.cpp) and the thread of IOFile which calls *)
(* it (IOFile::watch and IOFile::run, Disk/IOFile.cpp).                     *)
(*                                                                          *)
(* A file is watched by several watchers, by its name or by a search of    *)
(* its folder ("Listing": MODE_HEAVY, or a name with a star).  The thread  *)
(* looks at it every second, and ends when the application has released    *)
(* its last watcher.  A look compares st_mtime, which counts seconds:      *)
(* "now" is the clock in seconds, "stamp" the last change of the file, 0   *)
(* when it does not exist, "version" its content, 0 likewise.              *)
(***************************************************************************)
EXTENDS Naturals, FiniteSets

CONSTANTS
  Watchers,   \* the FileWatcher objects
  Listing,    \* those which list the folder of the file
  MaxTime,    \* bound: the clock stops there
  MaxVersion  \* bound: changes of the file

VARIABLES
  now, stamp, version, changes,  \* the clock, the file, the changes of its content
  added,      \* IOFile::_watchers, under _mutexWatchers
  held,       \* the watchers that the application keeps
  watched,    \* the local list of run()
  todo,       \* the watchers that run() has still to look at in this turn
  looked,     \* second of the start of the turn
  pc,         \* the thread: "off", "collect", "look", "wait"
  listing,    \* <<w, found>> once w has listed the folder, before it looks at the file
  last,       \* _lastChanges[file]: <<time, signalled>>, or None
  first,      \* _firstWatch
  known,      \* version at the last signal of a watcher, or Unknown
  blurred     \* watchers for which the file changed again in the second of a first look

file == <<stamp, version, changes, blurred>>
vars == <<now, stamp, version, changes, added, held, watched, todo, looked, pc, listing,
          last, first, known, blurred>>

None == <<>>
Unknown == MaxVersion + 1
Entry(w) == IF last[w] = None THEN <<0, FALSE>> ELSE last[w]

thread == <<watched, todo, looked, pc, listing>>
memory == <<last, first, known>>

WatchInit ==
  /\ now = 1 /\ stamp = 0 /\ version = 0 /\ changes = 0
  /\ added = {} /\ held = {} /\ watched = {} /\ todo = {} /\ looked = 0 /\ pc = "off"
  /\ listing = None
  /\ last = [w \in Watchers |-> None] /\ first = [w \in Watchers |-> TRUE]
  /\ known = [w \in Watchers |-> Unknown] /\ blurred = {}

-----------------------------------------------------------------------------
(* The world *)

Tick == now < MaxTime /\ now' = now + 1 /\ UNCHANGED <<file, added, held, thread, memory>>

\* Another program writes the file, or removes it.
Change(exists) ==
  /\ now < MaxTime /\ changes < MaxVersion /\ (exists \/ version # 0)
  /\ changes' = changes + 1
  /\ version' = IF exists THEN changes + 1 ELSE 0
  /\ stamp' = IF exists THEN now ELSE 0
  /\ blurred' = {w \in Watchers : exists /\ Entry(w) = <<now, TRUE>>}
  /\ UNCHANGED <<now, added, held, thread, memory>>

\* IOFile::watch: the watcher joins the list and the thread starts, under _mutexWatchers.
Watch(w) ==
  /\ w \notin held \cup added \cup watched /\ first[w]
  /\ held' = held \cup {w} /\ added' = added \cup {w}
  /\ pc' = IF pc = "off" THEN "collect" ELSE pc
  /\ UNCHANGED <<now, file, watched, todo, looked, listing, memory>>

\* The application releases its Shared<FileWatcher>.
Release(w) ==
  /\ w \in held /\ held' = held \ {w}
  /\ UNCHANGED <<now, file, added, thread, memory>>

-----------------------------------------------------------------------------
(* The thread *)

\* Under _mutexWatchers: the thread stops when it has nothing to watch.
Collect ==
  /\ pc = "collect"
  /\ watched' = watched \cup added /\ todo' = watched' /\ added' = {}
  /\ looked' = now
  /\ pc' = IF watched' = {} THEN "off" ELSE "look"
  /\ UNCHANGED <<now, file, held, listing, memory>>

\* unique(): nobody else keeps this watcher.
Drop(w) ==
  /\ pc = "look" /\ listing = None /\ w \in todo \ held
  /\ watched' = watched \ {w} /\ todo' = todo \ {w}
  /\ UNCHANGED <<now, file, added, held, looked, pc, listing, memory>>

\* onUpdate(): the application sees the content of that moment, or a later one.
Signals(w) == known' = [known EXCEPT ![w] = version]

Silent == UNCHANGED known

\* Mutant of WatchFile: a change leaves the note of the former signal.
WatchFileOnce(w) ==
  LET change == stamp # Entry(w)[1] IN
  /\ last' = [last EXCEPT ![w] = <<stamp, Entry(w)[2] \/ (change => first[w])>>]
  /\ IF (change /\ first[w]) \/ (~change /\ ~Entry(w)[2]) THEN Signals(w) ELSE Silent

\* watchFile(): a change is signalled when two looks agree, or at the first look.
WatchFile(w) ==
  LET change == stamp # Entry(w)[1] IN
  /\ last' = [last EXCEPT ![w] = <<stamp, change => first[w]>>]
  /\ IF (change /\ first[w]) \/ (~change /\ ~Entry(w)[2]) THEN Signals(w) ELSE Silent

\* watch() has ended with w.
Looked(w) ==
  /\ todo' = todo \ {w} /\ listing' = None
  /\ first' = [first EXCEPT ![w] = FALSE]
  /\ UNCHANGED <<now, file, added, held, watched, looked, pc>>

\* By its name, whether the file exists or not.
LookName(w) ==
  /\ pc = "look" /\ listing = None /\ w \in (todo \cap held) \ Listing
  /\ WatchFile(w) /\ Looked(w)

\* ListFiles() finds the file or not, which may change before the look at it.
LookList(w) ==
  /\ pc = "look" /\ listing = None /\ w \in todo \cap held \cap Listing
  /\ listing' = <<w, version # 0>>
  /\ UNCHANGED <<now, file, added, held, watched, todo, looked, pc, memory>>

LookListed(w) == listing = <<w, TRUE>> /\ WatchFile(w) /\ Looked(w)

\* A file which is not listed any more is forgotten: a removal, if it does not exist again.
LookGone(w) ==
  /\ listing = <<w, FALSE>>
  /\ last' = [last EXCEPT ![w] = None]
  /\ IF last[w] # None /\ version = 0 THEN Signals(w) ELSE Silent
  /\ Looked(w)

\* wakeUp.wait(max(1000 - elapsed, 1)): a look per second.
EndTurn ==
  /\ pc = "look" /\ todo = {} /\ pc' = "wait"
  /\ UNCHANGED <<now, file, added, held, watched, todo, looked, listing, memory>>

Wake ==
  /\ pc = "wait" /\ (now > looked \/ now = MaxTime) /\ pc' = "collect"
  /\ UNCHANGED <<now, file, added, held, watched, todo, looked, listing, memory>>

Thread ==
  \/ Collect \/ EndTurn \/ Wake
  \/ \E w \in Watchers :
       Drop(w) \/ LookName(w) \/ LookList(w) \/ LookListed(w) \/ LookGone(w)

WatchNext ==
  \/ Thread \/ Tick
  \/ \E exists \in BOOLEAN : Change(exists)
  \/ \E w \in Watchers : Watch(w) \/ Release(w)

WatchFairness == WF_vars(Thread) /\ WF_vars(Tick)

-----------------------------------------------------------------------------
(* Correctness *)

\* "wait stability before to update" (FileWatcher.cpp:81): the last change of the file
\* is announced to every watcher which is kept, although the thread ends and starts with
\* the list of the watchers. Excused: a change in the second of an announced one, which
\* leaves st_mtime as it was, and a file that a listing has never found.
LastChangeAnnounced ==
  \A w \in Watchers :
    <>[](w \in held) =>
      []<>(known[w] = version \/ w \in blurred
           \/ (w \in Listing /\ version = 0 /\ known[w] = Unknown))
=============================================================================
