------------------------ MODULE PersistentDataProofs ------------------------
(***************************************************************************)
(* Theorems about PersistentData, for any set of paths and of values, any  *)
(* number of entries and every combination of faults.                      *)
(*                                                                         *)
(* What the disk holds depends on the whole queue: an entry keeps its      *)
(* promise because the one before it for the same path has kept its own.   *)
(* So the invariant speaks of Pending, the entries of the thread, of the   *)
(* queue and of newEntry() as a single sequence, each action of which adds *)
(* an entry at one end, or takes one off at the other end.                 *)
(***************************************************************************)
EXTENDS PersistentData, SequenceTheorems, TLAPS

(* The invariant.                                                          *)

Busy == {"process", "write", "clean", "cleanFailed"}
Gone == {"none", "finished"}

\* What newEntry() is adding, and all what is on its way to the disk, in order.
Adding == IF phase \in {"start", "emplace"} THEN <<entry>> ELSE <<>>
Pending == (batch \o entries) \o Adding

\* The places of the thread and of the application agree.
Places ==
  /\ worker \in Busy <=> batch # <<>>
  /\ worker = "write" => ~First.clearing /\ First.value # None
  /\ worker \in {"clean", "cleanFailed"} => ~First.clearing
  /\ stopped <=> worker \in Gone
  /\ phase = "down" => worker = "none" /\ Pending = <<>> /\ "crash" \in faults
  /\ phase \in {"down", "idle"} => loading = "none"
  /\ phase = "load" => loading # "none"

\* As long as no entry fails, what has been queued has a thread; a load has none, unless
\* its callback adds entries.
Served ==
  "fail" \notin faults =>
    /\ worker # "cleanFailed"
    /\ entries # <<>> \/ phase = "emplace" => worker \notin Gone
    /\ "reload" \notin faults =>
         /\ phase \in {"start", "emplace"} => loading = "none"
         /\ phase = "load" => worker = "none" /\ Pending = <<>>

\* Only the values which remove() has queued clear.
Clearings ==
  \A i \in 1 .. Len(Pending) :
    /\ Pending[i].path \in Paths
    /\ Pending[i].clearing => Pending[i].value = None /\ "remove" \in faults

\* Entry i follows j: they are two successive entries of a path.
Follows(q, i, j) ==
  /\ j \in 1 .. i - 1 /\ q[j].path = q[i].path
  /\ \A k \in j + 1 .. i - 1 : q[k].path # q[i].path
IsFirst(q, i) == \A k \in 1 .. i - 1 : q[k].path # q[i].path
IsLast(q, i) == \A k \in i + 1 .. Len(q) : q[k].path # q[i].path
IsAbsent(q, p) == \A k \in 1 .. Len(q) : q[k].path # p

\* A value is not written over itself: each entry of a path gives it another value.
Changes(q, st) ==
  \A i \in 1 .. Len(q) : q[i].value # None =>
    /\ IsFirst(q, i) => q[i].value # st[q[i].path]
    /\ \A j \in 1 .. i : Follows(q, i, j) => q[i].value # q[j].value

\* The last entry of a path gives it its value for the application; without an entry,
\* this value is stored, unless remove() has cleared it.
Reaches(q, st, ex, fs) ==
  \A p \in Paths :
    /\ IsAbsent(q, p) => st[p] = ex[p] \/ ("remove" \in fs /\ st[p] = None)
    /\ \A i \in 1 .. Len(q) : q[i].path = p /\ IsLast(q, i) => q[i].value = ex[p]

Reached == Reaches(Pending, stored, expected, faults)

\* The value stored of each path is in its file, or its successor is; the file under
\* writing is torn.
Writing(p) == worker = "write" /\ First.path = p
Cleaning(p) == worker = "clean" /\ First.path = p

Held(p) ==
  /\ Cleaning(p) =>
       IF First.value = None THEN stored[p] = None ELSE files[p][First.value] = "whole"
  /\ ~Cleaning(p) =>
       \/ stored[p] = None \/ files[p][stored[p]] = "whole"
       \/ Writing(p) /\ First.value = stored[p]
  /\ Writing(p) => files[p][First.value] = "torn"

Known == Reached /\ \A p \in Paths : Held(p)

\* After a crash, before the load which tells the application what is on the disk.
Unknown ==
  /\ phase = "flush" /\ loading # "none" /\ "crash" \in faults
  /\ worker = "none" /\ Pending = <<>>
  /\ expected = NoValue /\ AlwaysOneValue

\* In a load, what has been read is known.
Read ==
  /\ AlwaysOneValue
  /\ \A p \in Paths :
       /\ \A v \in Values :
            files[p][v] = "whole" /\ <<p, v>> \notin looks =>
              stored[p] = expected[p] /\ expected[p] \in Values /\ files[p][expected[p]] = "whole"
       /\ "remove" \notin faults => expected[p] = None \/ expected[p] = stored[p]

Knowledge ==
  faults \cap {"fail", "reload"} = {} =>
    /\ phase \in {"idle", "start", "emplace", "flush"} => Known \/ Unknown
    /\ phase = "load" => Read
    /\ phase = "down" /\ "rewrite" \notin faults => AlwaysOneValue

NoRewrite == faults \cap {"fail", "reload", "rewrite"} = {} => Changes(Pending, stored)

\* Until then, the files of a path which is not under process are its value stored.
Exact ==
  faults \subseteq {"rewrite"} =>
    /\ Reached
    /\ \A p \in Paths : ~(worker \in {"write", "clean"} /\ First.path = p) =>
         \A v \in Values : files[p][v] = IF v = stored[p] THEN "whole" ELSE "none"

IInv == TypeOK /\ Places /\ Served /\ Clearings /\ Knowledge /\ NoRewrite /\ Exact

-----------------------------------------------------------------------------
(* Queues of entries.                                                      *)

MaybeValues == Values \cup {None}

\* newEntry() adds an entry.
LEMMA AppendReaches ==
  ASSUME NEW q \in Seq(Entries), NEW st \in [Paths -> MaybeValues],
         NEW ex \in [Paths -> MaybeValues], NEW fs,
         NEW e \in Entries, e.path \in Paths, Reaches(q, st, ex, fs)
  PROVE  /\ Reaches(Append(q, e), st, [ex EXCEPT ![e.path] = e.value], fs)
         /\ Changes(q, st) /\ (e.value = None \/ e.value # ex[e.path]) =>
              Changes(Append(q, e), st)
<1> DEFINE n == Len(q)
           r == Append(q, e)
           x == [ex EXCEPT ![e.path] = e.value]
<1>1. n \in Nat /\ Len(r) = n + 1 /\ r[n + 1] = e /\ \A i \in 1 .. n : r[i] = q[i] /\ q[i] \in Entries
  OBVIOUS
<1>2. x[e.path] = e.value /\ \A p \in Paths : p # e.path => x[p] = ex[p]
  OBVIOUS
<1> HIDE DEF n, r, x
<1>3. Reaches(r, st, x, fs)
  <2> SUFFICES ASSUME NEW p \in Paths
               PROVE  /\ IsAbsent(r, p) => st[p] = x[p] \/ ("remove" \in fs /\ st[p] = None)
                      /\ \A i \in 1 .. Len(r) : r[i].path = p /\ IsLast(r, i) => r[i].value = x[p]
    BY DEF Reaches
  <2>1. CASE p = e.path
    <3>1. ~IsAbsent(r, p)
      BY <1>1, <2>1 DEF IsAbsent
    <3>2. ASSUME NEW i \in 1 .. Len(r), IsLast(r, i), r[i].path = p PROVE i = n + 1
      BY <1>1, <2>1, <3>2 DEF IsLast
    <3> QED BY <1>1, <1>2, <2>1, <3>1, <3>2
  <2>2. CASE p # e.path
    <3>1. IsAbsent(r, p) => IsAbsent(q, p)
      BY <1>1 DEF IsAbsent, n
    <3>2. ASSUME NEW i \in 1 .. Len(r), IsLast(r, i), r[i].path = p
          PROVE  i \in 1 .. n /\ q[i].path = p /\ IsLast(q, i)
      BY <1>1, <2>2, <3>2 DEF IsLast, n
    <3> QED BY <1>1, <1>2, <2>2, <3>1, <3>2 DEF Reaches, n
  <2> QED BY <2>1, <2>2
<1>4. ASSUME Changes(q, st), e.value = None \/ e.value # ex[e.path]
      PROVE  Changes(r, st)
  <2> SUFFICES ASSUME NEW i \in 1 .. Len(r), r[i].value # None
               PROVE  /\ IsFirst(r, i) => r[i].value # st[r[i].path]
                      /\ \A j \in 1 .. i : Follows(r, i, j) => r[i].value # r[j].value
    BY DEF Changes
  <2>1. CASE i \in 1 .. n
    <3>1. IsFirst(r, i) => IsFirst(q, i)
      BY <1>1, <2>1 DEF IsFirst
    <3>2. \A j \in 1 .. i : Follows(r, i, j) => Follows(q, i, j) /\ r[j] = q[j]
      BY <1>1, <2>1 DEF Follows
    <3> QED BY <1>1, <1>4, <2>1, <3>1, <3>2 DEF Changes, n
  <2>2. CASE i = n + 1
    <3>1. r[i] = e /\ e.value # None /\ e.value # ex[e.path]
      BY <1>1, <1>4, <2>2
    <3>2. ASSUME IsFirst(r, i) PROVE e.value # st[e.path]
      <4>1. IsAbsent(q, e.path)
        BY <1>1, <2>2, <3>1, <3>2 DEF IsFirst, IsAbsent, n
      <4> QED BY <3>1, <4>1 DEF Reaches
    <3>3. ASSUME NEW j \in 1 .. i, Follows(r, i, j) PROVE e.value # r[j].value
      <4>1. j \in 1 .. n /\ r[j] = q[j] /\ q[j].path = e.path /\ \A k \in j + 1 .. n : q[k].path # e.path
        BY <1>1, <2>2, <3>1, <3>3 DEF Follows
      <4>2. IsLast(q, j)
        BY <4>1 DEF IsLast, n
      <4> QED BY <3>1, <4>1, <4>2 DEF Reaches, n
    <3> QED BY <3>1, <3>2, <3>3
  <2> QED BY <1>1, <2>1, <2>2
<1> QED BY <1>3, <1>4 DEF r, x

\* What remains of a queue when its first entry is processed.
LEMMA TailOf ==
  ASSUME NEW q \in Seq(Entries), q # <<>>
  PROVE  /\ Len(q) \in Nat \ {0} /\ Head(q) = q[1] /\ Head(q) \in Entries
         /\ Tail(q) \in Seq(Entries) /\ Len(Tail(q)) = Len(q) - 1
         /\ \A i \in 1 .. Len(q) - 1 : Tail(q)[i] = q[i + 1]
OBVIOUS

\* The last entry of a path is, or was, the last of the queue.
LEMMA TailIsLast ==
  ASSUME NEW q \in Seq(Entries), q # <<>>, NEW i \in 1 .. Len(Tail(q)), IsLast(Tail(q), i)
  PROVE  i + 1 \in 1 .. Len(q) /\ Tail(q)[i] = q[i + 1] /\ IsLast(q, i + 1)
<1>1. i + 1 \in 1 .. Len(q) /\ Tail(q)[i] = q[i + 1]
  BY TailOf
<1>2. ASSUME NEW k \in i + 2 .. Len(q) PROVE q[k].path # q[i + 1].path
  <2>1. k - 1 \in i + 1 .. Len(Tail(q)) /\ Tail(q)[k - 1] = q[k]
    BY TailOf
  <2> QED BY <1>1, <2>1 DEF IsLast
<1> QED BY <1>1, <1>2 DEF IsLast

\* An entry is stored.
LEMMA TailReaches ==
  ASSUME NEW q \in Seq(Entries), q # <<>>, NEW st \in [Paths -> MaybeValues],
         NEW ex, NEW fs, Head(q).path \in Paths, Reaches(q, st, ex, fs)
  PROVE  Reaches(Tail(q), [st EXCEPT ![Head(q).path] = Head(q).value], ex, fs)
<1> DEFINE s == [st EXCEPT ![Head(q).path] = Head(q).value]
           r == Tail(q)
<1>1. /\ Len(q) \in Nat \ {0} /\ Head(q) = q[1] /\ Len(r) = Len(q) - 1
      /\ \A i \in 1 .. Len(r) : r[i] = q[i + 1]
  BY TailOf
<1>2. s[q[1].path] = q[1].value /\ \A p \in Paths : p # q[1].path => s[p] = st[p]
  BY <1>1
<1>3. SUFFICES ASSUME NEW p \in Paths
             PROVE  /\ IsAbsent(r, p) => s[p] = ex[p] \/ ("remove" \in fs /\ s[p] = None)
                    /\ \A i \in 1 .. Len(r) : r[i].path = p /\ IsLast(r, i) => r[i].value = ex[p]
  BY DEF Reaches
<1>4. ASSUME NEW i \in 1 .. Len(r), r[i].path = p, IsLast(r, i) PROVE r[i].value = ex[p]
  <2>1. i + 1 \in 1 .. Len(q) /\ r[i] = q[i + 1] /\ IsLast(q, i + 1)
    BY <1>4, TailIsLast
  <2> QED BY <1>4, <2>1 DEF Reaches
<1> HIDE DEF s, r
<1>5. ASSUME IsAbsent(r, p) PROVE s[p] = ex[p] \/ ("remove" \in fs /\ s[p] = None)
  <2>1. \A k \in 2 .. Len(q) : q[k].path # p
    <3>1. ASSUME NEW k \in 2 .. Len(q) PROVE k - 1 \in 1 .. Len(r) /\ r[k - 1] = q[k]
      BY <1>1
    <3> QED BY <1>5, <3>1 DEF IsAbsent
  <2>2. CASE p = q[1].path
    BY <1>1, <1>2, <2>1, <2>2 DEF IsLast, Reaches
  <2>3. CASE p # q[1].path
    BY <1>1, <1>2, <2>1, <2>3 DEF IsAbsent, Reaches
  <2> QED BY <2>2, <2>3
<1> QED BY <1>4, <1>5

\* The same of the queue: the entry which was second follows the value stored.
LEMMA TailChanges ==
  ASSUME NEW q \in Seq(Entries), q # <<>>, NEW st, NEW s, Changes(q, st),
         \A p \in Paths : s[p] = None \/ (p = Head(q).path /\ s[p] = Head(q).value)
                                      \/ (p # Head(q).path /\ s[p] = st[p]),
         \A i \in 1 .. Len(q) : q[i].path \in Paths
  PROVE  Changes(Tail(q), s)
<1> DEFINE r == Tail(q)
<1>1. /\ Len(q) \in Nat \ {0} /\ Head(q) = q[1] /\ Len(r) = Len(q) - 1
      /\ \A i \in 1 .. Len(r) : r[i] = q[i + 1]
  BY TailOf
<1> HIDE DEF r
<1>2. SUFFICES ASSUME NEW i \in 1 .. Len(r), r[i].value # None
               PROVE  /\ IsFirst(r, i) => r[i].value # s[r[i].path]
                      /\ \A j \in 1 .. i : Follows(r, i, j) => r[i].value # r[j].value
  BY DEF Changes, r
<1>3. i + 1 \in 1 .. Len(q) /\ r[i] = q[i + 1] /\ q[i + 1].path \in Paths
  BY <1>1
<1>4. ASSUME IsFirst(r, i) PROVE r[i].value # s[r[i].path]
  <2>1. \A k \in 2 .. i : q[k].path # q[i + 1].path
    <3>1. ASSUME NEW k \in 2 .. i PROVE k - 1 \in 1 .. i - 1 /\ r[k - 1] = q[k]
      BY <1>1
    <3> QED BY <1>3, <1>4, <3>1 DEF IsFirst
  <2>2. CASE q[1].path = q[i + 1].path
    <3>1. Follows(q, i + 1, 1)
      BY <1>1, <1>3, <2>1, <2>2 DEF Follows
    <3>2. q[i + 1].value # q[1].value
      BY <1>2, <1>3, <3>1 DEF Changes
    <3> QED BY <1>1, <1>2, <1>3, <2>2, <3>2
  <2>3. CASE q[1].path # q[i + 1].path
    <3>1. IsFirst(q, i + 1)
      BY <1>1, <1>3, <2>1, <2>3 DEF IsFirst
    <3>2. q[i + 1].value # st[q[i + 1].path]
      BY <1>2, <1>3, <3>1 DEF Changes
    <3> QED BY <1>1, <1>2, <1>3, <2>3, <3>2
  <2> QED BY <2>2, <2>3
<1>5. ASSUME NEW j \in 1 .. i, Follows(r, i, j) PROVE r[i].value # r[j].value
  <2>1. j \in 1 .. i - 1 /\ r[j].path = r[i].path /\ r[j] = q[j + 1] /\ j + 1 \in 1 .. i
    BY <1>1, <1>5 DEF Follows
  <2>2. \A k \in j + 2 .. i : q[k].path # q[i + 1].path
    <3>1. ASSUME NEW k \in j + 2 .. i PROVE k - 1 \in j + 1 .. i - 1 /\ r[k - 1] = q[k]
      BY <1>1
    <3> QED BY <1>3, <1>5, <3>1 DEF Follows
  <2>3. Follows(q, i + 1, j + 1)
    BY <1>3, <2>1, <2>2 DEF Follows
  <2> QED BY <1>2, <1>3, <2>1, <2>3 DEF Changes
<1> QED BY <1>4, <1>5

\* clear() or remove() takes all the values.
LEMMA TailCleared ==
  ASSUME NEW q \in Seq(Entries), q # <<>>, NEW st, NEW ex, NEW fs,
         "remove" \in fs, Reaches(q, st, ex, fs)
  PROVE  Reaches(Tail(q), NoValue, ex, fs)
<1> DEFINE r == Tail(q)
<1>1. ASSUME NEW p \in Paths, NEW i \in 1 .. Len(r), r[i].path = p, IsLast(r, i)
      PROVE  r[i].value = ex[p]
  <2>1. i + 1 \in 1 .. Len(q) /\ r[i] = q[i + 1] /\ IsLast(q, i + 1)
    BY <1>1, TailIsLast
  <2> QED BY <1>1, <2>1 DEF Reaches
<1>2. \A p \in Paths : NoValue[p] = None
  BY DEF NoValue
<1> HIDE DEF r
<1>3. Reaches(r, NoValue, ex, fs)
  BY <1>1, <1>2 DEF Reaches
<1> QED BY <1>3 DEF r

\* The value of the first entry's path is not promised any more.
LEMMA HeadForgotten ==
  ASSUME NEW q \in Seq(Entries), q # <<>>, NEW st \in [Paths -> MaybeValues],
         NEW ex, NEW fs, NEW s, s = [st EXCEPT ![Head(q).path] = None]
  PROVE  /\ Reaches(q, st, ex, fs) => Reaches(q, s, ex, fs)
         /\ Changes(q, st) /\ (\A i \in 1 .. Len(q) : q[i].path \in Paths) => Changes(q, s)
<1>1. Len(q) \in Nat \ {0} /\ Head(q) = q[1]
  BY TailOf
<1>2. \A p \in Paths : s[p] = st[p] \/ (s[p] = None /\ p = q[1].path)
  BY <1>1
<1>3. ASSUME Reaches(q, st, ex, fs) PROVE Reaches(q, s, ex, fs)
  <2>1. \A p \in Paths : IsAbsent(q, p) => p # q[1].path
    BY <1>1 DEF IsAbsent
  <2> QED BY <1>2, <1>3, <2>1 DEF Reaches
<1>4. ASSUME Changes(q, st), \A i \in 1 .. Len(q) : q[i].path \in Paths PROVE Changes(q, s)
  BY <1>2, <1>4 DEF Changes
<1> QED BY <1>3, <1>4

-----------------------------------------------------------------------------
(* How Pending moves.                                                      *)

\* Pending is a queue of entries, whose first one is the one under process.
LEMMA PendingType ==
  ASSUME TypeOK
  PROVE  /\ Adding \in Seq(Entries) /\ batch \o entries \in Seq(Entries)
         /\ Pending \in Seq(Entries)
         /\ Pending = <<>> <=> batch = <<>> /\ entries = <<>> /\ phase \notin {"start", "emplace"}
         /\ batch # <<>> => Pending # <<>> /\ Head(Pending) = First /\ First = Pending[1]
<1>1. batch \in Seq(Entries) /\ entries \in Seq(Entries) /\ entry \in Entries
  BY DEF TypeOK
<1>2. Adding \in Seq(Entries) /\ (Adding = <<>> <=> phase \notin {"start", "emplace"})
  BY <1>1 DEF Adding
<1> DEFINE u == batch \o entries
<1>3. u \in Seq(Entries) /\ Len(u) = Len(batch) + Len(entries)
  BY <1>1
<1>4. u = <<>> <=> batch = <<>> /\ entries = <<>>
  BY <1>1, <1>3
<1>5. batch # <<>> => u # <<>> /\ u[1] = batch[1] /\ Head(batch) = batch[1] /\ Len(u) > 0
  BY <1>1, <1>3
<1> HIDE DEF u
<1> DEFINE r == u \o Adding
<1>6. r \in Seq(Entries) /\ Len(r) = Len(u) + Len(Adding)
  BY <1>2, <1>3
<1>7. r = <<>> <=> u = <<>> /\ Adding = <<>>
  BY <1>2, <1>3, <1>6
<1>8. batch # <<>> => r # <<>> /\ r[1] = u[1] /\ Head(r) = r[1]
  BY <1>2, <1>3, <1>5, <1>6
<1> HIDE DEF r
<1>9. Pending = r
  BY DEF r, u, Pending
<1> QED BY <1>2, <1>3, <1>4, <1>5, <1>6, <1>7, <1>8, <1>9 DEF First, u

\* newEntry() begins.
LEMMA PendingAdds ==
  ASSUME TypeOK, phase \notin {"start", "emplace"}, phase' = "start",
         UNCHANGED <<batch, entries>>, entry' \in Entries
  PROVE  Pending' = Append(Pending, entry')
<1>1. Pending = (batch \o entries) \o <<>> /\ Pending' = (batch \o entries) \o <<entry'>>
  BY DEF Pending, Adding
<1> DEFINE u == batch \o entries
<1>2. u \in Seq(Entries)
  BY PendingType
<1> HIDE DEF u
<1>3. u \o <<>> = u /\ u \o <<entry'>> = Append(u, entry')
  BY <1>2
<1> QED BY <1>1, <1>3 DEF u

\* newEntry() ends.
LEMMA PendingEmplaced ==
  ASSUME TypeOK, phase = "emplace", phase' \notin {"start", "emplace"},
         entries' = Append(entries, entry), UNCHANGED batch
  PROVE  Pending' = Pending
<1>1. batch \in Seq(Entries) /\ entries \in Seq(Entries) /\ <<entry>> \in Seq(Entries)
  BY DEF TypeOK
<1>2. Pending = (batch \o entries) \o <<entry>> /\ Pending' = (batch \o Append(entries, entry)) \o <<>>
  BY DEF Pending, Adding
<1>3. Append(entries, entry) = entries \o <<entry>>
  BY <1>1, AppendIsConcat DEF TypeOK
<1>4. (batch \o entries) \o <<entry>> = batch \o (entries \o <<entry>>)
  BY ONLY <1>1, ConcatAssociative
<1> DEFINE u == batch \o (entries \o <<entry>>)
<1>5. u \in Seq(Entries)
  BY <1>1
<1> HIDE DEF u
<1>6. u \o <<>> = u
  BY <1>5
<1> QED BY <1>2, <1>3, <1>4, <1>6 DEF u

\* The thread takes the queue.
LEMMA PendingTaken ==
  ASSUME TypeOK, batch = <<>>, batch' = entries, entries' = <<>>, UNCHANGED <<phase, entry>>
  PROVE  Pending' = Pending
<1>1. entries \in Seq(Entries)
  BY DEF TypeOK
<1>2. <<>> \o entries = entries /\ entries \o <<>> = entries
  BY <1>1
<1> QED BY <1>2 DEF Pending, Adding

\* The tail of a concatenation.
LEMMA TailOfConcat ==
  ASSUME NEW S, NEW s \in Seq(S), NEW t \in Seq(S), s # <<>>
  PROVE  s \o t # <<>> /\ s \o t \in Seq(S) /\ Tail(s) \o t = Tail(s \o t)
<1> DEFINE u == s \o t
           v == Tail(s)
           m == Len(s)
           n == Len(t)
<1>1. m \in Nat \ {0} /\ n \in Nat /\ u \in Seq(S) /\ Len(u) = m + n
      /\ (\A i \in 1 .. m : u[i] = s[i]) /\ (\A i \in 1 .. n : u[m + i] = t[i])
  OBVIOUS
<1>2. v \in Seq(S) /\ Len(v) = m - 1 /\ \A i \in 1 .. m - 1 : v[i] = s[i + 1]
  OBVIOUS
<1> HIDE DEF u, v, m
<1>3. v \o t \in Seq(S) /\ Len(v \o t) = (m - 1) + n
      /\ (\A i \in 1 .. m - 1 : (v \o t)[i] = v[i])
      /\ (\A i \in 1 .. n : (v \o t)[(m - 1) + i] = t[i])
  <2> DEFINE l == Len(v)
  <2>1. /\ v \o t \in Seq(S) /\ Len(v \o t) = l + n
        /\ \A i \in 1 .. l : (v \o t)[i] = v[i]
        /\ \A i \in 1 .. n : (v \o t)[l + i] = t[i]
    <3>1. v \in Seq(S) /\ t \in Seq(S)
      BY <1>2
    <3> QED BY ONLY <3>1
  <2>2. l = m - 1
    BY <1>2
  <2> HIDE DEF l, n
  <2> QED BY <2>1, <2>2
<1>4. u # <<>> /\ Tail(u) \in Seq(S) /\ Len(Tail(u)) = (m + n) - 1
      /\ \A i \in 1 .. (m + n) - 1 : Tail(u)[i] = u[i + 1]
  <2>1. u \in Seq(S) /\ Len(u) \in Nat \ {0} /\ Len(u) = m + n
    <3> HIDE DEF n
    <3> QED BY <1>1
  <2>2. u # <<>> /\ Tail(u) \in Seq(S) /\ Len(Tail(u)) = Len(u) - 1
        /\ \A i \in 1 .. Len(u) - 1 : Tail(u)[i] = u[i + 1]
    BY <2>1
  <2> QED BY <2>1, <2>2
<1>5. ASSUME NEW i \in 1 .. (m + n) - 1 PROVE (v \o t)[i] = Tail(u)[i]
  <2>1. CASE i <= m - 1
    <3>1. i \in 1 .. m - 1 /\ i + 1 \in 1 .. m
      BY <1>1, <2>1
    <3> QED BY <1>1, <1>2, <1>3, <1>4, <3>1
  <2>2. CASE i > m - 1
    <3> DEFINE k == i - (m - 1)
    <3>1. k \in 1 .. n /\ i = (m - 1) + k /\ i + 1 = m + k
      BY <1>1, <2>2
    <3> HIDE DEF k
    <3>2. (v \o t)[i] = t[k]
      BY <1>3, <3>1
    <3>3. Tail(u)[i] = u[m + k]
      BY <1>4, <3>1
    <3>4. u[m + k] = t[k]
      BY <1>1, <3>1
    <3> QED BY <3>2, <3>3, <3>4
  <2>3. i <= m - 1 \/ i > m - 1
    BY <1>1
  <2> QED BY <2>1, <2>2, <2>3
<1>6. v \o t = Tail(u)
  <2> DEFINE x == v \o t
             y == Tail(u)
  <2>1. x \in Seq(S) /\ y \in Seq(S) /\ Len(x) = Len(y) /\ \A i \in 1 .. Len(x) : x[i] = y[i]
    BY <1>1, <1>3, <1>4, <1>5
  <2> HIDE DEF x, y
  <2>2. x = y
    BY ONLY <2>1, SeqEqual
  <2> QED BY <2>2 DEF x, y
<1> QED BY <1>1, <1>4, <1>6 DEF u, v

\* An entry is processed.
LEMMA PendingProcessed ==
  ASSUME TypeOK, batch # <<>>, batch' = Tail(batch), UNCHANGED <<phase, entry, entries>>
  PROVE  Pending' = Tail(Pending)
<1>1. batch \in Seq(Entries) /\ entries \in Seq(Entries) /\ Adding \in Seq(Entries)
  BY PendingType DEF TypeOK
<1>2. Pending' = (Tail(batch) \o entries) \o Adding
  BY DEF Pending, Adding
<1>3. Tail(batch) \o entries = Tail(batch \o entries) /\ batch \o entries \in Seq(Entries)
      /\ batch \o entries # <<>>
  BY <1>1, TailOfConcat
<1> DEFINE u == batch \o entries
<1>4. Tail(u) \o Adding = Tail(u \o Adding)
  <2> HIDE DEF u
  <2> QED BY <1>1, <1>3, TailOfConcat DEF u
<1> QED BY <1>2, <1>3, <1>4 DEF Pending

-----------------------------------------------------------------------------
(* The actions.                                                            *)

Sound == faults \cap {"fail", "reload"} = {}
Awake == {"idle", "start", "emplace", "flush"}

\* The thread only runs beside an application which knows what is stored.
LEMMA KnownUnderThread ==
  ASSUME IInv, Sound, worker \notin Gone
  PROVE  phase \in Awake /\ Known
<1>1. "fail" \notin faults /\ "reload" \notin faults
  BY DEF Sound
<1>2. phase \notin {"load", "down"}
  BY <1>1 DEF IInv, Places, Served, Gone
<1>3. ~Unknown
  BY DEF Unknown, Gone
<1> QED BY <1>2, <1>3 DEF IInv, TypeOK, Knowledge, Sound, Awake

\* What leaves the disk, the history and the queue as they are.
LEMMA IInvMoves ==
  ASSUME IInv, TypeOK', Places', Served', Pending' = Pending,
         UNCHANGED <<files, stored, expected, faults>>,
         UNCHANGED <<worker, batch>> \/ {worker, worker'} \cap {"write", "clean"} = {},
         Sound => {phase, phase'} \subseteq Awake /\ Known
  PROVE  IInv'
<1>1. Clearings'
  BY DEF IInv, Clearings
<1>2. Reached => Reached'
  BY DEF Reached
<1>3. \A p \in Paths : Held(p) => Held(p)'
  <2>1. CASE UNCHANGED <<worker, batch>>
    BY <2>1 DEF Held, Writing, Cleaning, First
  <2>2. CASE {worker, worker'} \cap {"write", "clean"} = {}
    BY <2>2 DEF Held, Writing, Cleaning
  <2> QED BY <2>1, <2>2
<1>4. Knowledge'
  <2>1. Sound => Known' /\ phase' \in Awake
    BY <1>2, <1>3 DEF Known, Awake
  <2> QED BY <2>1 DEF Knowledge, Sound, Awake
<1>5. NoRewrite'
  BY DEF IInv, NoRewrite
<1>6. Exact'
  <2>1. CASE UNCHANGED <<worker, batch>>
    BY <1>2, <2>1 DEF IInv, Exact, First
  <2>2. CASE {worker, worker'} \cap {"write", "clean"} = {}
    BY <1>2, <2>2 DEF IInv, Exact
  <2> QED BY <2>1, <2>2
<1> QED BY <1>1, <1>4, <1>5, <1>6 DEF IInv

\* The store begins empty.
LEMMA IInvInit == Init => IInv
<1> SUFFICES ASSUME Init PROVE IInv
  OBVIOUS
<1> USE PersistentDataAssumption DEF Init
<1>1. TypeOK
  <2>1. /\ files \in [Paths -> [Values -> {"none", "torn", "whole"}]]
        /\ expected \in [Paths -> Values \cup {None}]
        /\ stored \in [Paths -> Values \cup {None}]
    BY DEF NoFile, NoValue
  <2>2. entry \in Entries
    BY DEF NoEntry, Entry, Entries
  <2>3. entries \in Seq(Entries) /\ batch \in Seq(Entries) /\ adds \in 0 .. MaxAdds
    OBVIOUS
  <2> QED BY <2>1, <2>2, <2>3 DEF TypeOK
<1>2. Pending = <<>>
  BY <1>1, PendingType
<1>3. Places /\ Served /\ Clearings
  BY <1>2 DEF Places, Served, Clearings, Busy, Gone
<1>4. Reached /\ \A p \in Paths : stored[p] = None
  BY <1>2 DEF Reached, Reaches, NoValue, IsAbsent
<1>5. Knowledge
  BY <1>4 DEF Knowledge, Known, Held, Writing, Cleaning
<1>6. NoRewrite
  BY <1>2 DEF NoRewrite, Changes
<1>7. Exact
  BY <1>4 DEF Exact, NoFile
<1> QED BY <1>1, <1>3, <1>5, <1>6, <1>7 DEF IInv

\* start().
LEMMA IInvStart == ASSUME IInv, Start PROVE IInv'
<1>1. /\ phase = "start" /\ phase' = "emplace"
      /\ \/ stopped /\ worker \in Gone /\ worker' = "wait" /\ stopped' = FALSE /\ requestStop' = FALSE
            /\ signal' = FALSE
         \/ ~stopped /\ UNCHANGED <<worker, signal, stopped, requestStop>>
      /\ UNCHANGED <<files, loadVars, entry, entries, timeout, batch, adds, expected, stored, faults>>
  BY DEF Start, Gone
<1>2. TypeOK'
  BY <1>1 DEF IInv, TypeOK, loadVars
<1>3. Pending' = Pending
  BY <1>1 DEF Pending, Adding
<1>4. Places'
  BY <1>1 DEF IInv, Places, Busy, Gone, loadVars, First
<1>5. Served'
  BY <1>1 DEF IInv, Served, Places, Busy, Gone, loadVars
<1>6. Sound => Known
  BY <1>1 DEF IInv, Knowledge, Sound, Unknown
<1> QED BY <1>1, <1>2, <1>3, <1>4, <1>5, <1>6, IInvMoves DEF Awake, Gone

\* The end of newEntry().
LEMMA IInvEmplace == ASSUME IInv, Emplace PROVE IInv'
<1>1. /\ phase = "emplace" /\ phase' = IF loading = "none" THEN "idle" ELSE "load"
      /\ entries' = Append(entries, entry) /\ entry' = NoEntry /\ signal' = TRUE
      /\ UNCHANGED <<files, loadVars, stopped, requestStop, timeout, worker, batch, adds, expected,
                     stored, faults>>
  BY DEF Emplace
<1>2. entries' \in Seq(Entries) /\ entries' # <<>> /\ entry' \in Entries
  BY <1>1 DEF IInv, TypeOK, NoEntry, Entry, Entries
<1>3. TypeOK'
  BY <1>1, <1>2 DEF IInv, TypeOK, loadVars
<1>4. Pending' = Pending
  BY <1>1, PendingEmplaced DEF IInv
<1>5. Places'
  BY <1>1, <1>2 DEF IInv, Places, loadVars, First
<1>6. Served'
  BY <1>1, <1>2 DEF IInv, Served, loadVars
<1>7. Sound => Known /\ loading = "none"
  BY <1>1 DEF IInv, Knowledge, Served, Sound, Unknown
<1> QED BY <1>1, <1>3, <1>4, <1>5, <1>6, <1>7, IInvMoves DEF Awake

\* flush(), and load() which begins with it.
LEMMA IInvFlush ==
  ASSUME IInv, phase = "idle", Stop, UNCHANGED <<expected, stored>>,
         loading' \in {"none", "disabled", "enabled"}
  PROVE  IInv'
<1>1. /\ phase' = "flush" /\ requestStop' = TRUE /\ signal' \in BOOLEAN
      /\ UNCHANGED <<files, looks, entry, entries, stopped, timeout, worker, batch, adds, faults>>
  BY DEF Stop, IInv, TypeOK
<1>2. TypeOK'
  BY <1>1 DEF IInv, TypeOK
<1>3. Pending' = Pending
  BY <1>1 DEF Pending, Adding
<1>4. Places'
  BY <1>1 DEF IInv, Places, First
<1>5. Served'
  BY <1>1 DEF IInv, Served
<1>6. Sound => Known
  BY DEF IInv, Knowledge, Sound, Unknown
<1> QED BY <1>1, <1>2, <1>3, <1>4, <1>5, <1>6, IInvMoves DEF Awake

\* The thread waits, and is woken up or not.
LEMMA IInvWait == ASSUME IInv, Wait PROVE IInv'
<1>1. /\ worker = "wait" /\ worker' = "check" /\ timeout' = ~signal /\ signal' = FALSE
      /\ UNCHANGED <<files, appVars, entries, stopped, requestStop, batch, stored, faults>>
  BY DEF Wait
<1>2. TypeOK'
  <2>1. timeout' \in BOOLEAN
    BY <1>1
  <2>2. worker' = "check" /\ signal' = FALSE
        /\ UNCHANGED <<files, appVars, entries, stopped, requestStop, batch, stored, faults>>
    BY <1>1
  <2> QED BY <2>1, <2>2 DEF IInv, TypeOK, appVars, loadVars
<1>3. Pending' = Pending
  BY <1>1 DEF Pending, Adding, appVars
<1>4. Places'
  BY <1>1, <1>3 DEF IInv, Places, Busy, Gone, appVars, loadVars
<1>5. Served'
  BY <1>1 DEF IInv, Served, Gone, appVars, loadVars
<1>6. Sound => Known /\ phase \in Awake
  BY <1>1, KnownUnderThread DEF Gone
<1> QED BY <1>1, <1>2, <1>3, <1>4, <1>5, <1>6, IInvMoves DEF appVars

\* The thread takes the queue, waits again or ends.
LEMMA IInvCheck == ASSUME IInv, Check PROVE IInv'
<1>1. /\ worker = "check" /\ ~Locked
      /\ UNCHANGED <<files, appVars, signal, timeout, stored, faults>>
      /\ \/ /\ entries # <<>> /\ worker' = "process" /\ batch' = entries /\ entries' = <<>>
            /\ UNCHANGED <<stopped, requestStop>>
         \/ /\ entries = <<>> /\ UNCHANGED <<entries, batch>>
            /\ \/ worker' = "wait" /\ UNCHANGED <<stopped, requestStop>>
               \/ worker' = "finished" /\ stopped' = TRUE /\ requestStop' = TRUE
  BY DEF Check
<1>2. batch = <<>>
  BY <1>1 DEF IInv, Places, Busy
<1>3. TypeOK'
  <2>1. entries' \in Seq(Entries) /\ batch' \in Seq(Entries)
    <3>1. <<>> \in Seq(Entries) /\ entries \in Seq(Entries) /\ batch \in Seq(Entries)
      BY DEF IInv, TypeOK
    <3> QED BY <1>1, <3>1
  <2>2. worker' \in {"process", "wait", "finished"} /\ stopped' \in BOOLEAN /\ requestStop' \in BOOLEAN
    BY <1>1 DEF IInv, TypeOK
  <2>3. UNCHANGED <<files, appVars, signal, timeout, stored, faults>>
    BY <1>1
  <2> QED BY <2>1, <2>2, <2>3 DEF IInv, TypeOK, appVars, loadVars
<1>4. Pending' = Pending
  <2>1. UNCHANGED <<batch, entries>> => Pending' = Pending
    BY <1>1 DEF Pending, Adding, appVars
  <2>2. UNCHANGED <<phase, entry>>
    BY <1>1 DEF appVars
  <2> QED BY <1>1, <1>2, <2>1, <2>2, PendingTaken DEF IInv
<1>5. Places'
  BY <1>1, <1>2, <1>4 DEF IInv, Places, Busy, Gone, appVars, loadVars
<1>6. Served'
  BY <1>1 DEF IInv, Served, Gone, appVars, loadVars, Locked
<1>7. Sound => Known /\ phase \in Awake
  BY <1>1, KnownUnderThread DEF Gone
<1> QED BY <1>1, <1>3, <1>4, <1>5, <1>6, <1>7, IInvMoves DEF appVars

\* newEntry() begins: the application has given a path a new value.
LEMMA IInvAdds ==
  ASSUME IInv, NEW p \in Paths, NEW v \in MaybeValues, NEW clearing \in BOOLEAN,
         NewEntry(Entry(p, v, clearing)), expected' = [expected EXCEPT ![p] = v],
         faults \subseteq faults', faults' \subseteq Faults,
         "fail" \in faults' => "fail" \in faults,
         phase = "load" => "reload" \in faults',
         clearing => v = None /\ "remove" \in faults',
         v = None \/ v # expected[p] \/ "rewrite" \in faults' \/ "reload" \in faults'
  PROVE  IInv'
<1> DEFINE e == Entry(p, v, clearing)
<1>1. /\ phase = "idle" \/ (phase = "load" /\ loading = "enabled")
      /\ adds < MaxAdds /\ phase' = "start" /\ entry' = e /\ adds' = adds + 1
      /\ UNCHANGED <<files, loadVars, entries, threadVars, worker, batch, stored>>
  BY DEF NewEntry
<1>2. e \in Entries /\ e.path = p /\ e.value = v /\ e.clearing = clearing
  BY DEF Entry, Entries, MaybeValues
<1> HIDE DEF e
<1>3. TypeOK'
  <2>1. adds' \in 0 .. MaxAdds
    BY <1>1, PersistentDataAssumption DEF IInv, TypeOK
  <2>2. expected' \in [Paths -> Values \cup {None}]
    BY DEF IInv, TypeOK, MaybeValues
  <2> QED BY <1>1, <1>2, <2>1, <2>2 DEF IInv, TypeOK, loadVars, threadVars
<1>4. Pending \in Seq(Entries) /\ Pending' = Append(Pending, e)
  BY <1>1, <1>2, PendingAdds, PendingType DEF IInv
<1>5. Places'
  BY <1>1 DEF IInv, Places, loadVars, threadVars, First
<1>6. Served'
  BY <1>1 DEF IInv, Served, Places, loadVars, threadVars
<1>7. Clearings'
  <2>1. /\ Len(Pending') = Len(Pending) + 1 /\ Pending'[Len(Pending) + 1] = e /\ Len(Pending) \in Nat
        /\ \A i \in 1 .. Len(Pending) : Pending'[i] = Pending[i]
    BY <1>2, <1>4, AppendProperties
  <2> SUFFICES ASSUME NEW i \in 1 .. Len(Pending')
               PROVE  /\ Pending'[i].path \in Paths
                      /\ Pending'[i].clearing => Pending'[i].value = None /\ "remove" \in faults'
    BY DEF Clearings
  <2>2. CASE i = Len(Pending) + 1
    BY <1>2, <2>1, <2>2
  <2>3. CASE i \in 1 .. Len(Pending)
    BY <2>1, <2>3 DEF IInv, Clearings
  <2> QED BY <2>1, <2>2, <2>3
<1>8. ASSUME Reached PROVE Reached'
  <2>1. /\ Reaches(Append(Pending, e), stored, expected', faults)
        /\ Changes(Pending, stored) /\ (e.value = None \/ e.value # expected[e.path]) =>
             Changes(Append(Pending, e), stored)
    BY <1>2, <1>4, <1>8, AppendReaches DEF Reached, IInv, TypeOK, MaybeValues
  <2>2. Reaches(Append(Pending, e), stored, expected', faults')
    BY <2>1 DEF Reaches
  <2> QED BY <1>1, <1>4, <2>2 DEF Reached
<1>9. Sound' => Sound /\ phase = "idle" /\ Known
  BY <1>1 DEF Sound, IInv, Knowledge, Unknown
<1>10. Knowledge'
  <2>1. \A q \in Paths : Held(q) => Held(q)'
    BY <1>1 DEF Held, Writing, Cleaning, First
  <2> QED BY <1>1, <1>8, <1>9, <2>1 DEF Knowledge, Known, Sound
<1>11. NoRewrite'
  <2>1. SUFFICES ASSUME faults' \cap {"fail", "reload", "rewrite"} = {} PROVE Changes(Pending', stored')
    BY DEF NoRewrite
  <2>2. Reached /\ Changes(Pending, stored) /\ (e.value = None \/ e.value # expected[e.path])
    BY <1>2, <1>9, <2>1 DEF Known, Sound, IInv, NoRewrite
  <2>3. Changes(Append(Pending, e), stored)
    BY <1>2, <1>4, <2>2, AppendReaches DEF Reached, IInv, TypeOK, MaybeValues
  <2> QED BY <1>1, <1>4, <2>3
<1>12. Exact'
  <2>1. SUFFICES ASSUME faults' \subseteq {"rewrite"} PROVE Exact'
    BY DEF Exact
  <2>2. faults \subseteq {"rewrite"}
    BY <2>1
  <2> QED BY <1>1, <1>8, <2>2 DEF IInv, Exact, First
<1> QED BY <1>3, <1>5, <1>6, <1>7, <1>10, <1>11, <1>12 DEF IInv

\* An entry of the application, at any time or in a load.
LEMMA IInvAdd ==
  ASSUME IInv, NEW p \in Paths, NEW v \in Values \cup {None}, Add(p, v)
  PROVE  IInv'
<1>1. NewEntry(Entry(p, v, FALSE)) /\ expected' = [expected EXCEPT ![p] = v]
  BY DEF Add
<1>2. \/ phase = "load" /\ "reload" \in Faults /\ faults' = faults \cup {"reload"}
      \/ phase # "load" /\ v = expected[p] /\ "rewrite" \in Faults /\ faults' = faults \cup {"rewrite"}
      \/ phase # "load" /\ ~(v = expected[p] /\ v # None) /\ faults' = faults
  BY DEF Add, Fault
<1>3. faults \subseteq faults' /\ faults' \subseteq Faults /\ ("fail" \in faults' => "fail" \in faults)
  BY <1>2 DEF IInv, TypeOK
<1> QED BY <1>1, <1>2, <1>3, IInvAdds DEF MaybeValues

\* remove(path).
LEMMA IInvRemove ==
  ASSUME IInv, NEW p \in Paths, Remove(p)
  PROVE  IInv'
<1>1. NewEntry(Entry(p, None, TRUE)) /\ expected' = [expected EXCEPT ![p] = None]
      /\ phase = "idle" /\ "remove" \in Faults /\ faults' = faults \cup {"remove"}
  BY DEF Remove, Fault
<1>2. faults \subseteq faults' /\ faults' \subseteq Faults /\ ("fail" \in faults' => "fail" \in faults)
  BY <1>1 DEF IInv, TypeOK
<1> QED BY <1>1, <1>2, IInvAdds DEF MaybeValues

\* An operation of the disk fails: nothing is promised any more.
LEMMA IInvFails ==
  ASSUME IInv, TypeOK', Places', Clearings', "fail" \in faults'
  PROVE  IInv'
BY DEF IInv, Served, Knowledge, NoRewrite, Exact

\* One value at any time, be the thread in the middle of an entry.
LEMMA OneValueUnderThread ==
  ASSUME IInv, \A p \in Paths : Held(p), NoRewrite, faults \cap {"fail", "reload", "rewrite"} = {}
  PROVE  AlwaysOneValue
<1> SUFFICES ASSUME NEW p \in Paths, stored[p] # None PROVE Whole(p) # {}
  BY DEF AlwaysOneValue
<1>1. stored[p] \in Values
  BY DEF IInv, TypeOK
<1>2. CASE Cleaning(p)
  <2>1. First \in Entries
    BY <1>2 DEF Cleaning, IInv, Places, Busy, TypeOK, First
  <2>2. First.value \in Values \cup {None}
    BY <2>1 DEF Entries
  <2>3. First.value # None /\ files[p][First.value] = "whole"
    BY <1>2 DEF Held, Writing, Cleaning
  <2> QED BY <2>2, <2>3 DEF Whole
<1>3. CASE worker = "write" /\ First.path = p /\ First.value = stored[p]
  <2>1. batch # <<>> /\ First.value # None
    BY <1>3 DEF IInv, Places, Busy
  <2>2. Pending # <<>> /\ First = Pending[1] /\ Pending \in Seq(Entries)
    BY <2>1, PendingType DEF IInv
  <2>3. 1 \in 1 .. Len(Pending) /\ IsFirst(Pending, 1)
    BY <2>2 DEF IsFirst
  <2> QED BY <1>3, <2>1, <2>2, <2>3 DEF NoRewrite, Changes
<1>4. CASE files[p][stored[p]] = "whole"
  BY <1>1, <1>4 DEF Whole
<1> QED BY <1>2, <1>3, <1>4 DEF Held, Writing, Cleaning

\* In every phase.
LEMMA OneValue ==
  ASSUME IInv, faults \cap {"fail", "reload", "rewrite"} = {}
  PROVE  AlwaysOneValue
<1>1. Sound /\ "rewrite" \notin faults
  BY DEF Sound
<1>2. CASE phase \in Awake
  BY <1>1, <1>2, OneValueUnderThread DEF IInv, Knowledge, Known, Unknown, Sound, Awake
<1>3. CASE phase \in {"load", "down"}
  BY <1>1, <1>3 DEF IInv, Knowledge, Read, Sound
<1> QED BY <1>2, <1>3 DEF IInv, TypeOK, Awake

\* The process dies.
LEMMA IInvDies ==
  ASSUME IInv, Dies, faults' = faults \cup {"crash"}, faults' \subseteq Faults
  PROVE  IInv'
<1>1. /\ phase' = "down" /\ loading' = "none" /\ looks' = {} /\ entry' = NoEntry
      /\ entries' = <<>> /\ batch' = <<>>
      /\ signal' = FALSE /\ stopped' = TRUE /\ requestStop' = FALSE
      /\ worker' = "none" /\ timeout' = FALSE
      /\ UNCHANGED <<files, adds, expected, stored>>
  BY DEF Dies
<1>2. TypeOK'
  <2>1. entry' \in Entries
    BY <1>1 DEF NoEntry, Entry, Entries
  <2>2. entries' \in Seq(Entries) /\ batch' \in Seq(Entries)
    BY <1>1
  <2> QED BY <1>1, <2>1, <2>2 DEF IInv, TypeOK
<1>3. Pending' = <<>>
  BY <1>1 DEF Pending, Adding
<1>4. Places' /\ Served' /\ Clearings'
  BY <1>1, <1>3 DEF Places, Served, Clearings, Busy, Gone
<1>5. Knowledge'
  <2>1. faults' \cap {"fail", "reload", "rewrite"} = {} => AlwaysOneValue
    BY OneValue
  <2> QED BY <1>1, <2>1 DEF Knowledge, AlwaysOneValue, Whole
<1>6. NoRewrite' /\ Exact'
  BY <1>3 DEF NoRewrite, Changes, Exact
<1> QED BY <1>2, <1>4, <1>5, <1>6 DEF IInv

\* A process begins again by a load.
LEMMA IInvReload ==
  ASSUME IInv, NEW transactions \in {"disabled", "enabled"}, phase = "down", Load(transactions)
  PROVE  IInv'
<1>1. /\ expected' = NoValue
      /\ stored' = [p \in Paths |-> IF Whole(p) = {} THEN None ELSE stored[p]]
      /\ loading' = transactions /\ phase' = "flush" /\ requestStop' = TRUE
      /\ UNCHANGED <<files, looks, entry, entries, stopped, timeout, worker, batch, adds, faults>>
  BY DEF Load, Stop
<1>2. worker = "none" /\ Pending = <<>>
  BY DEF IInv, Places
<1>3. signal' \in BOOLEAN
  BY DEF Load, Stop, IInv, TypeOK
<1>4. TypeOK'
  <2>1. expected' \in [Paths -> Values \cup {None}] /\ stored' \in [Paths -> Values \cup {None}]
    BY <1>1 DEF NoValue, IInv, TypeOK
  <2> QED BY <1>1, <1>3, <2>1 DEF IInv, TypeOK
<1>5. Pending' = <<>>
  BY <1>1, <1>2 DEF Pending, Adding
<1>6. Places'
  BY <1>1, <1>2, <1>5 DEF IInv, Places, First
<1>7. Served' /\ Clearings'
  BY <1>1, <1>5 DEF IInv, Served, Clearings
<1>8. AlwaysOneValue'
  BY <1>1 DEF AlwaysOneValue, Whole
<1>9. "crash" \in faults
  BY DEF IInv, Places
<1>10. Knowledge'
  BY <1>1, <1>2, <1>5, <1>8, <1>9 DEF Knowledge, Unknown
<1>11. NoRewrite' /\ Exact'
  BY <1>1, <1>5, <1>9 DEF NoRewrite, Changes, Exact
<1> QED BY <1>4, <1>6, <1>7, <1>10, <1>11 DEF IInv

\* The end of flush(), and the beginning of the reading of a load.
LEMMA IInvFlushed == ASSUME IInv, Flushed PROVE IInv'
<1>1. /\ phase = "flush" /\ worker \in Gone /\ worker' = "none"
      /\ phase' = IF loading = "none" THEN "idle" ELSE "load"
      /\ looks' = IF loading = "none" THEN {} ELSE Paths \X Values
      /\ UNCHANGED <<files, loading, entry, entries, threadVars, batch, adds, expected, stored, faults>>
  BY DEF Flushed, Gone
<1>2. batch = <<>>
  BY <1>1 DEF IInv, Places, Busy, Gone
<1>3. TypeOK'
  BY <1>1 DEF IInv, TypeOK, threadVars
<1>4. Pending' = Pending
  BY <1>1 DEF Pending, Adding
<1>5. Sound => Pending = <<>>
  BY <1>1, <1>2, PendingType DEF IInv, Served, Gone, Sound
<1>6. Places'
  BY <1>1, <1>2 DEF IInv, Places, Busy, Gone, threadVars
<1>7. Served'
  <2>1. "fail" \notin faults => entries = <<>>
    BY <1>1 DEF IInv, Served
  <2> QED BY <1>1, <1>4, <1>5, <2>1 DEF Served, Sound
<1>8. CASE loading = "none"
  <2>1. Sound => Known
    BY <1>1, <1>8 DEF IInv, Knowledge, Unknown, Sound
  <2> QED BY <1>1, <1>3, <1>4, <1>6, <1>7, <1>8, <2>1, IInvMoves DEF Awake, Gone
<1>9. CASE loading # "none"
  <2>1. Clearings'
    BY <1>1, <1>4 DEF IInv, Clearings
  <2>2. ASSUME Sound PROVE Read'
    <3>1. CASE Known
      <4>1. \A p \in Paths : stored[p] = None \/ files[p][stored[p]] = "whole"
        BY <1>1, <1>2, <3>1 DEF Known, Held, Writing, Cleaning, Gone
      <4>2. AlwaysOneValue
        BY <4>1 DEF AlwaysOneValue, Whole, IInv, TypeOK
      <4>3. \A p \in Paths : stored[p] = expected[p] \/ ("remove" \in faults /\ stored[p] = None)
        <5>1. \A p \in Paths : IsAbsent(Pending, p)
          BY <1>5, <2>2 DEF IsAbsent
        <5> QED BY <3>1, <5>1 DEF Known, Reached, Reaches
      <4> QED BY <1>1, <1>9, <4>2, <4>3 DEF Read, AlwaysOneValue, Whole
    <3>2. CASE Unknown
      BY <1>1, <1>9, <3>2 DEF Unknown, Read, AlwaysOneValue, Whole, NoValue
    <3> QED BY <1>1, <2>2, <3>1, <3>2 DEF IInv, Knowledge, Sound
  <2>3. Knowledge'
    BY <1>1, <1>9, <2>2 DEF Knowledge, Sound
  <2>4. NoRewrite'
    BY <1>1, <1>4 DEF IInv, NoRewrite
  <2>5. Exact'
    BY <1>1, <1>4 DEF IInv, Exact, Reached, Gone
  <2> QED BY <1>3, <1>6, <1>7, <2>1, <2>3, <2>4, <2>5 DEF IInv
<1> QED BY <1>8, <1>9

\* A load reads a file.
LEMMA IInvLoadFile ==
  ASSUME IInv, NEW p \in Paths, NEW v \in Values, LoadFile(p, v)
  PROVE  IInv'
<1>1. /\ phase = "load" /\ <<p, v>> \in looks /\ looks' = looks \ {<<p, v>>}
      /\ files' = IF files[p][v] = "torn" THEN [files EXCEPT ![p][v] = "none"] ELSE files
      /\ \/ /\ files[p][v] = "whole"
            /\ expected' = [expected EXCEPT ![p] = v] /\ stored' = [stored EXCEPT ![p] = v]
         \/ files[p][v] # "whole" /\ UNCHANGED <<expected, stored>>
      /\ UNCHANGED <<phase, loading, entry, entries, threadVars, worker, batch, adds, faults>>
  BY DEF LoadFile
<1>2. TypeOK'
  <2>1. files' \in [Paths -> [Values -> {"none", "torn", "whole"}]]
    BY <1>1 DEF IInv, TypeOK
  <2>2. expected' \in [Paths -> Values \cup {None}] /\ stored' \in [Paths -> Values \cup {None}]
    BY <1>1 DEF IInv, TypeOK
  <2> QED BY <1>1, <2>1, <2>2 DEF IInv, TypeOK, threadVars
<1>3. Pending' = Pending
  BY <1>1 DEF Pending, Adding
<1>4. Places' /\ Served' /\ Clearings'
  BY <1>1, <1>3 DEF IInv, Places, Served, Clearings, threadVars, First
<1>5. /\ \A q \in Paths, w \in Values : files'[q][w] = "whole" <=> files[q][w] = "whole"
      /\ \A q \in Paths : Whole(q)' = Whole(q)
  <2>1. \A q \in Paths, w \in Values : files'[q][w] = "whole" <=> files[q][w] = "whole"
    BY <1>1 DEF IInv, TypeOK
  <2> QED BY <2>1 DEF Whole
<1>6. \A q \in Paths : \/ UNCHANGED <<expected[q], stored[q]>>
                       \/ q = p /\ files[p][v] = "whole" /\ expected'[q] = v /\ stored'[q] = v
  BY <1>1 DEF IInv, TypeOK
<1>7. Knowledge'
  <2>1. SUFFICES ASSUME Sound PROVE Read'
    BY <1>1 DEF Knowledge, Sound
  <2>2. Read
    BY <1>1, <2>1 DEF IInv, Knowledge, Sound
  <2>3. AlwaysOneValue'
    <3> SUFFICES ASSUME NEW q \in Paths, stored'[q] # None PROVE Whole(q) # {}
      BY <1>5 DEF AlwaysOneValue
    <3> QED BY <1>6, <2>2 DEF Read, AlwaysOneValue, Whole
  <2>4. ASSUME NEW q \in Paths, NEW w \in Values, files'[q][w] = "whole", <<q, w>> \notin looks'
        PROVE  stored'[q] = expected'[q] /\ expected'[q] \in Values /\ files'[q][expected'[q]] = "whole"
    <3>1. CASE q = p /\ files[p][v] = "whole"
      <4>1. expected'[q] = v /\ stored'[q] = v
        BY <1>1, <3>1 DEF IInv, TypeOK
      <4> QED BY <1>5, <3>1, <4>1
    <3>2. CASE ~(q = p /\ files[p][v] = "whole")
      <4>1. UNCHANGED <<expected[q], stored[q]>> /\ files[q][w] = "whole" /\ <<q, w>> \notin looks
        BY <1>1, <1>5, <1>6, <2>4, <3>2
      <4> QED BY <1>5, <2>2, <4>1 DEF Read
    <3> QED BY <3>1, <3>2
  <2>5. ASSUME NEW q \in Paths, "remove" \notin faults PROVE expected'[q] = None \/ expected'[q] = stored'[q]
    BY <1>6, <2>2, <2>5 DEF Read
  <2> QED BY <1>1, <2>3, <2>4, <2>5 DEF Read
<1>8. NoRewrite'
  <2>1. SUFFICES ASSUME faults \cap {"fail", "reload", "rewrite"} = {} PROVE Changes(Pending', stored')
    BY <1>1 DEF NoRewrite
  <2>2. Pending = <<>>
    BY <1>1, <2>1 DEF IInv, Served
  <2> QED BY <1>3, <2>2 DEF Changes
<1>9. Exact'
  <2>1. SUFFICES ASSUME faults \subseteq {"rewrite"} PROVE Exact'
    BY <1>1 DEF Exact
  <2>2. worker = "none" /\ Pending = <<>>
    BY <1>1, <2>1 DEF IInv, Served
  <2>3. \A q \in Paths, w \in Values : files[q][w] = IF w = stored[q] THEN "whole" ELSE "none"
    BY <2>1, <2>2 DEF IInv, Exact
  <2>4. \A q \in Paths : stored[q] = expected[q]
    BY <2>1, <2>2 DEF IInv, Exact, Reached, Reaches, IsAbsent
  <2>5. files' = files
    BY <1>1, <2>3
  <2>6. UNCHANGED <<expected, stored>>
    <3>1. files[p][v] = "whole" => stored[p] = v /\ expected[p] = v
      BY <2>3, <2>4
    <3> QED BY <1>1, <3>1 DEF IInv, TypeOK
  <2> QED BY <1>1, <1>3, <2>1, <2>5, <2>6 DEF IInv, Exact, Reached, First
<1> QED BY <1>2, <1>4, <1>7, <1>8, <1>9 DEF IInv

\* The end of a load.
LEMMA IInvLoaded == ASSUME IInv, Loaded PROVE IInv'
<1>1. /\ phase = "load" /\ looks = {} /\ phase' = "idle" /\ loading' = "none"
      /\ UNCHANGED <<files, looks, entry, entries, threadVars, worker, batch, adds, expected, stored,
                     faults>>
  BY DEF Loaded
<1>2. TypeOK'
  BY <1>1 DEF IInv, TypeOK, threadVars
<1>3. Pending' = Pending
  BY <1>1 DEF Pending, Adding
<1>4. Places' /\ Served' /\ Clearings'
  BY <1>1, <1>3 DEF IInv, Places, Served, Clearings, threadVars, First
<1>5. Knowledge'
  <2>1. SUFFICES ASSUME Sound PROVE Known'
    BY <1>1 DEF Knowledge, Sound
  <2>2. Read /\ worker = "none" /\ Pending = <<>>
    BY <1>1, <2>1 DEF IInv, Knowledge, Served, Sound
  <2>3. ASSUME NEW p \in Paths
        PROVE  /\ stored[p] = None \/ files[p][stored[p]] = "whole"
               /\ stored[p] = expected[p] \/ ("remove" \in faults /\ stored[p] = None)
    <3>1. CASE Whole(p) = {}
      BY <2>2, <3>1 DEF Read, AlwaysOneValue
    <3>2. CASE Whole(p) # {}
      <4>1. PICK v \in Values : files[p][v] = "whole"
        BY <3>2 DEF Whole
      <4> QED BY <1>1, <2>2, <4>1 DEF Read
    <3> QED BY <3>1, <3>2
  <2>4. Reached'
    BY <1>1, <1>3, <2>2, <2>3 DEF Reached, Reaches
  <2>5. \A p \in Paths : Held(p)'
    BY <1>1, <2>2, <2>3 DEF Held, Writing, Cleaning
  <2> QED BY <2>4, <2>5 DEF Known
<1>6. NoRewrite' /\ Exact'
  BY <1>1, <1>3 DEF IInv, NoRewrite, Exact, Reached, First
<1> QED BY <1>2, <1>4, <1>5, <1>6 DEF IInv

\* The entry under process.
LEMMA FirstEntry ==
  ASSUME IInv, worker \in Busy
  PROVE  /\ batch # <<>> /\ Pending # <<>> /\ Pending \in Seq(Entries)
         /\ First = Head(Pending) /\ First = Pending[1] /\ First \in Entries /\ Path \in Paths
         /\ 1 \in 1 .. Len(Pending)
         /\ First.clearing => "remove" \in faults
         /\ worker \in {"write", "clean", "cleanFailed"} => ~First.clearing
<1>1. batch # <<>>
  BY DEF IInv, Places
<1>2. Pending # <<>> /\ Pending \in Seq(Entries) /\ First = Head(Pending) /\ First = Pending[1]
  BY <1>1, PendingType DEF IInv
<1>3. 1 \in 1 .. Len(Pending) /\ Pending[1] \in Entries
  BY <1>2
<1> QED BY <1>1, <1>2, <1>3 DEF IInv, Places, Clearings, Path

\* An entry ends well: what its step has to show of the disk and of the history.
LEMMA IInvProcessed ==
  ASSUME IInv, worker \in Busy, Processed, UNCHANGED <<appVars, entries, signal, timeout, faults>>,
         files' \in [Paths -> [Values -> {"none", "torn", "whole"}]],
         stored' \in [Paths -> MaybeValues],
         Sound /\ Known => Reaches(Tail(Pending), stored', expected, faults)
                           /\ \A p \in Paths : stored'[p] = None \/ files'[p][stored'[p]] = "whole",
         Changes(Pending, stored) => Changes(Tail(Pending), stored'),
         faults \subseteq {"rewrite"} =>
           \A p \in Paths, v \in Values : files'[p][v] = IF v = stored'[p] THEN "whole" ELSE "none"
  PROVE  IInv'
<1>1. /\ batch' = Tail(batch)
      /\ worker' = IF Tail(batch) = <<>> THEN "check" ELSE "process"
      /\ UNCHANGED <<stopped, requestStop>>
  BY DEF Processed
<1>2. batch # <<>> /\ Pending # <<>> /\ Pending \in Seq(Entries)
  BY FirstEntry
<1>3. TypeOK'
  <2>1. batch' \in Seq(Entries)
    BY <1>1, <1>2 DEF IInv, TypeOK
  <2> QED BY <1>1, <2>1 DEF IInv, TypeOK, appVars, loadVars, MaybeValues
<1>4. Pending' = Tail(Pending)
  <2>1. UNCHANGED <<phase, entry, entries>>
    BY DEF appVars
  <2> QED BY <1>1, <1>2, <2>1, PendingProcessed DEF IInv
<1>5. worker' \in {"check", "process"} /\ worker \notin Gone
  BY <1>1 DEF Busy, Gone
<1>6. Places'
  <2>1. phase # "down"
    BY <1>5 DEF IInv, Places, Gone
  <2> QED BY <1>1, <1>5, <2>1 DEF IInv, Places, Busy, Gone, appVars, loadVars
<1>7. Served'
  <2>1. "fail" \notin faults /\ "reload" \notin faults => phase # "load"
    BY <1>5 DEF IInv, Served, Gone
  <2> QED BY <1>5, <2>1 DEF IInv, Served, Gone, appVars, loadVars
<1>8. Clearings'
  <2>1. \A i \in 1 .. Len(Tail(Pending)) : i + 1 \in 1 .. Len(Pending) /\ Tail(Pending)[i] = Pending[i + 1]
    BY <1>2, TailOf
  <2> QED BY <1>4, <2>1 DEF IInv, Clearings
<1>9. Sound => phase \in Awake /\ Known
  BY <1>5, KnownUnderThread
<1>10. Knowledge'
  <2>1. Sound => Reached'
    BY <1>4, <1>9 DEF Reached, appVars
  <2>2. Sound => \A p \in Paths : Held(p)'
    BY <1>5, <1>9 DEF Known, Held, Writing, Cleaning
  <2> QED BY <1>9, <2>1, <2>2 DEF Knowledge, Known, Sound, Awake, appVars
<1>11. NoRewrite'
  BY <1>4 DEF IInv, NoRewrite
<1>12. Exact'
  <2>1. faults \subseteq {"rewrite"} => Sound
    BY DEF Sound
  <2> QED BY <1>4, <1>5, <1>9, <2>1 DEF Exact, Reached, appVars
<1> QED BY <1>3, <1>6, <1>7, <1>8, <1>10, <1>11, <1>12 DEF IInv

\* clear() and remove().
LEMMA IInvClear == ASSUME IInv, Clear PROVE IInv'
<1>1. /\ worker = "process" /\ First.clearing /\ files' = NoFile /\ stored' = NoValue
      /\ Processed /\ UNCHANGED <<appVars, entries, signal, timeout, faults>>
  BY DEF Clear
<1>2. worker \in Busy
  BY <1>1 DEF Busy
<1>3. "remove" \in faults /\ Pending # <<>> /\ Pending \in Seq(Entries) /\ First = Head(Pending)
  BY <1>1, <1>2, FirstEntry
<1>4. /\ files' \in [Paths -> [Values -> {"none", "torn", "whole"}]]
      /\ stored' \in [Paths -> MaybeValues] /\ \A p \in Paths : stored'[p] = None
  BY <1>1 DEF NoFile, NoValue, MaybeValues
<1>5. Known => Reaches(Tail(Pending), stored', expected, faults)
  BY <1>1, <1>3, TailCleared DEF Known, Reached
<1>6. Changes(Pending, stored) => Changes(Tail(Pending), stored')
  <2>1. \A i \in 1 .. Len(Pending) : Pending[i].path \in Paths
    BY DEF IInv, Clearings
  <2>2. \A p \in Paths : stored'[p] = None \/ (p = Head(Pending).path /\ stored'[p] = Head(Pending).value)
                                            \/ (p # Head(Pending).path /\ stored'[p] = stored[p])
    BY <1>4
  <2> QED BY <1>3, <2>1, <2>2, TailChanges
<1> QED BY <1>1, <1>2, <1>3, <1>4, <1>5, <1>6, IInvProcessed

\* A step inside an entry.
LEMMA IInvWithin ==
  ASSUME IInv, worker \in Busy, worker' \in Busy,
         UNCHANGED <<appVars, entries, threadVars, batch, faults>>,
         files' \in [Paths -> [Values -> {"none", "torn", "whole"}]],
         stored' \in [Paths -> MaybeValues],
         worker' = "write" => First.value # None,
         ~First.clearing,
         Sound /\ Known => Known',
         Changes(Pending, stored) => Changes(Pending, stored'),
         faults \subseteq {"rewrite"} =>
           \A p \in Paths : p # Path =>
             stored'[p] = stored[p] /\ \A v \in Values : files'[p][v] = files[p][v],
         worker' \in {"write", "clean"}
  PROVE  IInv'
<1>1. TypeOK'
  BY DEF IInv, TypeOK, appVars, loadVars, threadVars, Busy, MaybeValues
<1>2. Pending' = Pending
  BY DEF Pending, Adding, appVars
<1>3. Places'
  <2>1. phase # "down"
    BY DEF IInv, Places, Busy
  <2> QED BY <2>1 DEF IInv, Places, Busy, Gone, appVars, loadVars, threadVars, First
<1>4. Served'
  <2>1. "fail" \notin faults /\ "reload" \notin faults => phase # "load"
    BY DEF IInv, Served, Busy
  <2> QED BY <2>1 DEF IInv, Served, Busy, Gone, appVars, loadVars
<1>5. Clearings'
  BY <1>2 DEF IInv, Clearings
<1>6. Sound => phase \in Awake /\ Known
  BY KnownUnderThread DEF Busy, Gone
<1>7. Knowledge'
  BY <1>6 DEF Knowledge, Sound, Awake, appVars
<1>8. NoRewrite'
  BY <1>2 DEF IInv, NoRewrite
<1>9. Exact'
  <2>1. SUFFICES ASSUME faults \subseteq {"rewrite"} PROVE Exact'
    BY DEF Exact
  <2>2. Known'
    BY <1>6, <2>1 DEF Sound
  <2>4. ASSUME NEW p \in Paths, p # Path, NEW v \in Values
        PROVE  files'[p][v] = IF v = stored'[p] THEN "whole" ELSE "none"
    BY <2>1, <2>4 DEF IInv, Exact, Path
  <2>5. First' = First
    BY DEF First
  <2> QED BY <2>2, <2>4, <2>5 DEF Known, Exact, Path
<1> QED BY <1>1, <1>3, <1>4, <1>5, <1>7, <1>8, <1>9 DEF IInv

\* The file of the value is created or truncated.
LEMMA IInvOpen == ASSUME IInv, Open PROVE IInv'
<1>1. /\ worker = "process" /\ worker' = "write" /\ ~First.clearing /\ First.value # None
      /\ files' = [files EXCEPT ![Path][First.value] = "torn"]
      /\ UNCHANGED <<appVars, entries, threadVars, batch, stored, faults>>
  BY DEF Open
<1>2. worker \in Busy /\ worker' \in Busy
  BY <1>1 DEF Busy
<1>3. First \in Entries /\ Path \in Paths
  BY <1>2, FirstEntry
<1>4. First.value \in Values
  BY <1>1, <1>3 DEF Entries
<1>5. /\ files' \in [Paths -> [Values -> {"none", "torn", "whole"}]]
      /\ \A p \in Paths, v \in Values : files'[p][v] = IF p = Path /\ v = First.value THEN "torn" ELSE files[p][v]
  BY <1>1, <1>3, <1>4 DEF IInv, TypeOK
<1>6. stored' \in [Paths -> MaybeValues]
  BY <1>1 DEF IInv, TypeOK, MaybeValues
<1>7. Pending' = Pending
  BY <1>1 DEF Pending, Adding, appVars
<1>8. Known => Known'
  <2>1. Reached => Reached'
    BY <1>1, <1>7 DEF Reached, appVars
  <2>2. ASSUME NEW p \in Paths, Held(p) PROVE Held(p)'
    <3>1. stored[p] = None \/ files[p][stored[p]] = "whole"
      BY <1>1, <2>2 DEF Held, Writing, Cleaning
    <3>2. First' = First
      BY <1>1 DEF First
    <3>3. stored[p] \in MaybeValues
      BY DEF IInv, TypeOK, MaybeValues
    <3> QED BY <1>1, <1>5, <3>1, <3>2, <3>3 DEF Held, Writing, Cleaning, MaybeValues, Path
  <2> QED BY <2>1, <2>2 DEF Known
<1> QED BY <1>1, <1>2, <1>5, <1>6, <1>8, IInvWithin

\* The value is in its file.
LEMMA IInvWrite == ASSUME IInv, Write PROVE IInv'
<1>1. /\ worker = "write" /\ worker' = "clean"
      /\ files' = [files EXCEPT ![Path][First.value] = IF @ = "torn" THEN "whole" ELSE @]
      /\ UNCHANGED <<appVars, entries, threadVars, batch, stored, faults>>
  BY DEF Write
<1>2. worker \in Busy /\ worker' \in Busy
  BY <1>1 DEF Busy
<1>3. First \in Entries /\ Path \in Paths /\ batch # <<>>
  BY <1>2, FirstEntry
<1>4. First.value \in Values /\ First.value # None /\ ~First.clearing
  BY <1>1, <1>3 DEF Entries, IInv, Places
<1>5. /\ files' \in [Paths -> [Values -> {"none", "torn", "whole"}]]
      /\ \A p \in Paths, v \in Values :
           files'[p][v] = IF p = Path /\ v = First.value /\ files[p][v] = "torn" THEN "whole" ELSE files[p][v]
  BY <1>1, <1>3, <1>4 DEF IInv, TypeOK
<1>6. stored' \in [Paths -> MaybeValues]
  BY <1>1 DEF IInv, TypeOK, MaybeValues
<1>7. Pending' = Pending
  BY <1>1 DEF Pending, Adding, appVars
<1>8. Sound /\ Known => Known'
  <2>1. Reached => Reached'
    BY <1>1, <1>7 DEF Reached, appVars
  <2>2. ASSUME Sound, NEW p \in Paths, Held(p) PROVE Held(p)'
    <3>1. First' = First
      BY <1>1 DEF First
    <3>2. CASE p = Path
      BY <1>1, <1>3, <1>4, <1>5, <2>2, <3>1, <3>2 DEF Held, Writing, Cleaning, Path
    <3>3. CASE p # Path
      <4>1. stored[p] = None \/ files[p][stored[p]] = "whole"
        BY <1>1, <2>2, <3>3 DEF Held, Writing, Cleaning, Path
      <4>2. stored[p] \in MaybeValues
        BY DEF IInv, TypeOK, MaybeValues
      <4> QED BY <1>1, <1>5, <3>1, <3>3, <4>1, <4>2 DEF Held, Writing, Cleaning, MaybeValues, Path
    <3> QED BY <3>2, <3>3
  <2> QED BY <2>1, <2>2 DEF Known
<1> QED BY <1>1, <1>2, <1>4, <1>5, <1>6, <1>8, IInvWithin

\* A removal takes its promise back.
LEMMA IInvNothingToWrite == ASSUME IInv, NothingToWrite PROVE IInv'
<1>1. /\ worker = "process" /\ worker' = "clean" /\ ~First.clearing /\ First.value = None
      /\ stored' = [stored EXCEPT ![Path] = None]
      /\ UNCHANGED <<files, appVars, entries, threadVars, batch, faults>>
  BY DEF NothingToWrite
<1>2. worker \in Busy /\ worker' \in Busy
  BY <1>1 DEF Busy
<1>3. First = Head(Pending) /\ Path \in Paths /\ Pending # <<>> /\ Pending \in Seq(Entries)
  BY <1>2, FirstEntry
<1>4. files' \in [Paths -> [Values -> {"none", "torn", "whole"}]]
  BY <1>1 DEF IInv, TypeOK
<1>5. stored \in [Paths -> MaybeValues] /\ stored' \in [Paths -> MaybeValues]
      /\ \A p \in Paths : stored'[p] = IF p = Path THEN None ELSE stored[p]
  BY <1>1 DEF IInv, TypeOK, MaybeValues
<1>6. Pending' = Pending
  BY <1>1 DEF Pending, Adding, appVars
<1>7. stored' = [stored EXCEPT ![Head(Pending).path] = None]
  BY <1>1, <1>3 DEF Path
<1>8. Known => Known'
  <2>1. Reached => Reached'
    BY <1>1, <1>3, <1>5, <1>6, <1>7, HeadForgotten DEF Reached, appVars
  <2>2. ASSUME NEW p \in Paths, Held(p) PROVE Held(p)'
    <3>1. First' = First
      BY <1>1 DEF First
    <3> QED BY <1>1, <1>5, <2>2, <3>1 DEF Held, Writing, Cleaning, Path
  <2> QED BY <2>1, <2>2 DEF Known
<1>9. Changes(Pending, stored) => Changes(Pending, stored')
  BY <1>3, <1>5, <1>7, HeadForgotten DEF IInv, Clearings
<1> QED BY <1>1, <1>2, <1>4, <1>5, <1>8, <1>9, IInvWithin

\* Another value of the path is deleted.
LEMMA IInvCleanOne ==
  ASSUME IInv, CleanOne, worker = "clean"
  PROVE  IInv'
<1>1. PICK v \in Olds : files' = [files EXCEPT ![Path][v] = "none"]
  BY DEF CleanOne
<1>2. worker' = worker /\ UNCHANGED <<appVars, entries, threadVars, batch, stored, faults>>
  BY DEF CleanOne
<1>3. worker \in Busy /\ worker' \in Busy
  BY <1>2 DEF Busy
<1>4. Path \in Paths /\ v \in Values /\ v # First.value /\ ~First.clearing
  BY <1>3, FirstEntry DEF Olds
<1>5. /\ files' \in [Paths -> [Values -> {"none", "torn", "whole"}]]
      /\ \A p \in Paths, w \in Values : files'[p][w] = IF p = Path /\ w = v THEN "none" ELSE files[p][w]
  BY <1>1, <1>4 DEF IInv, TypeOK
<1>6. stored' \in [Paths -> MaybeValues]
  BY <1>2 DEF IInv, TypeOK, MaybeValues
<1>7. Pending' = Pending
  BY <1>2 DEF Pending, Adding, appVars
<1>8. Known => Known'
  <2>1. Reached => Reached'
    BY <1>2, <1>7 DEF Reached, appVars
  <2>2. ASSUME NEW p \in Paths, Held(p) PROVE Held(p)'
    <3>1. First' = First
      BY <1>2 DEF First
    <3>2. First.value \in MaybeValues /\ stored[p] \in MaybeValues
      BY <1>3, FirstEntry DEF Entries, MaybeValues, IInv, TypeOK
    <3> QED BY <1>2, <1>4, <1>5, <2>2, <3>1, <3>2 DEF Held, Writing, Cleaning, Path, MaybeValues
  <2> QED BY <2>1, <2>2 DEF Known
<1> QED BY <1>2, <1>3, <1>4, <1>5, <1>6, <1>8, IInvWithin

\* The entry has kept its promise: its path has its value, and no other one.
LEMMA IInvCleanEnd ==
  ASSUME IInv, CleanEnd, worker = "clean"
  PROVE  IInv'
<1>1. /\ Olds = {} /\ Processed /\ stored' = [stored EXCEPT ![Path] = First.value]
      /\ UNCHANGED <<files, appVars, entries, signal, timeout, faults>>
  BY DEF CleanEnd
<1>2. worker \in Busy
  BY DEF Busy
<1>3. First = Head(Pending) /\ First \in Entries /\ Path \in Paths /\ Pending # <<>> /\ Pending \in Seq(Entries)
  BY <1>2, FirstEntry
<1>4. files \in [Paths -> [Values -> {"none", "torn", "whole"}]] /\ stored \in [Paths -> MaybeValues]
      /\ First.value \in MaybeValues
  BY <1>3 DEF IInv, TypeOK, MaybeValues, Entries
<1>5. stored' \in [Paths -> MaybeValues]
      /\ \A p \in Paths : stored'[p] = IF p = Path THEN First.value ELSE stored[p]
  BY <1>1, <1>3, <1>4
<1>6. stored' = [stored EXCEPT ![Head(Pending).path] = Head(Pending).value]
  BY <1>1, <1>3 DEF Path
<1>7. ASSUME Sound, Known
      PROVE  /\ Reaches(Tail(Pending), stored', expected, faults)
             /\ \A p \in Paths : stored'[p] = None \/ files[p][stored'[p]] = "whole"
  <2>1. Reaches(Tail(Pending), stored', expected, faults)
    BY <1>3, <1>4, <1>6, <1>7, TailReaches DEF Known, Reached, Path
  <2>2. ASSUME NEW p \in Paths PROVE stored'[p] = None \/ files[p][stored'[p]] = "whole"
    <3>1. Held(p)
      BY <1>7 DEF Known
    <3> QED BY <1>5, <3>1 DEF Held, Writing, Cleaning, Path
  <2> QED BY <2>1, <2>2
<1>8. Changes(Pending, stored) => Changes(Tail(Pending), stored')
  BY <1>3, <1>5, TailChanges DEF IInv, Clearings, Path
<1>9. ASSUME faults \subseteq {"rewrite"}, NEW p \in Paths, NEW v \in Values
      PROVE  files[p][v] = IF v = stored'[p] THEN "whole" ELSE "none"
  <2>1. CASE p # Path
    BY <1>5, <1>9, <2>1 DEF IInv, Exact, Path
  <2>2. CASE p = Path
    <3>1. Sound /\ worker \notin Gone
      BY <1>9 DEF Sound, Gone
    <3>2. Known
      BY <3>1, KnownUnderThread
    <3>3. v # First.value => files[p][v] = "none"
      BY <1>1, <2>2 DEF Olds
    <3>4. First.value = None \/ files[p][First.value] = "whole"
      BY <2>2, <3>2 DEF Known, Held, Cleaning, Path
    <3> QED BY <1>5, <2>2, <3>3, <3>4, PersistentDataAssumption
  <2> QED BY <2>1, <2>2
<1>10. files' = files
  BY <1>1
<1> QED BY <1>1, <1>2, <1>4, <1>5, <1>7, <1>8, <1>9, <1>10, IInvProcessed

\* The failures of the disk.
LEMMA IInvFailures ==
  ASSUME IInv,
         OpenFails \/ WriteFails \/ CleanFails
           \/ (worker = "cleanFailed" /\ (CleanOne \/ CleanEnd))
  PROVE  IInv'
<1>1. "fail" \in faults' /\ faults' \subseteq Faults /\ faults \subseteq faults'
  BY DEF OpenFails, WriteFails, CleanFails, CleanOne, CleanEnd, Fault, IInv, TypeOK, Served
<1>2. worker \in Busy
  BY DEF OpenFails, WriteFails, CleanFails, CleanOne, CleanEnd, Busy
<1>3. batch # <<>> /\ Path \in Paths
  BY <1>2, FirstEntry
<1>4. files' \in [Paths -> [Values -> {"none", "torn", "whole"}]]
  <2>1. CASE worker = "cleanFailed" /\ CleanOne
    <3>1. PICK v \in Olds : files' = [files EXCEPT ![Path][v] = "none"]
      BY <2>1 DEF CleanOne
    <3>2. v \in Values
      BY DEF Olds
    <3> QED BY <1>3, <3>1, <3>2 DEF IInv, TypeOK
  <2>2. CASE OpenFails \/ WriteFails \/ CleanFails \/ CleanEnd
    <3>1. files' = files
      BY <2>2 DEF OpenFails, WriteFails, CleanFails, CleanEnd
    <3> QED BY <3>1 DEF IInv, TypeOK
  <2> QED BY <2>1, <2>2
<1>5. /\ UNCHANGED <<appVars, entries, signal, timeout, stored>>
      /\ \/ worker' = "finished" /\ stopped' = TRUE /\ requestStop' = TRUE /\ batch' = <<>>
         \/ worker' = "cleanFailed" /\ UNCHANGED <<stopped, requestStop, batch>>
            /\ worker \in {"write", "cleanFailed"}
  BY DEF OpenFails, WriteFails, CleanFails, CleanOne, CleanEnd, Failed, threadVars
<1>6. TypeOK'
  <2>1. batch' \in Seq(Entries)
    <3>1. <<>> \in Seq(Entries) /\ batch \in Seq(Entries)
      BY DEF IInv, TypeOK
    <3> QED BY <1>5, <3>1
  <2> QED BY <1>1, <1>4, <1>5, <2>1 DEF IInv, TypeOK, appVars, loadVars
<1>7. Places'
  <2>1. phase # "down"
    BY <1>2 DEF IInv, Places, Busy
  <2> QED BY <1>3, <1>5, <2>1 DEF IInv, Places, Busy, Gone, appVars, loadVars, First
<1>8. Clearings'
  <2>1. CASE UNCHANGED batch
    <3>1. Pending' = Pending
      BY <1>5, <2>1 DEF Pending, Adding, appVars
    <3> QED BY <1>1, <3>1 DEF IInv, Clearings
  <2>2. CASE batch' = <<>>
    <3>1. batch \in Seq(Entries) /\ entries \in Seq(Entries) /\ Adding \in Seq(Entries)
      BY PendingType DEF IInv, TypeOK
    <3>2. Pending' = entries \o Adding
      BY <1>5, <2>2, <3>1, ConcatEmptySeq DEF Pending, Adding, appVars
    <3> DEFINE r == entries \o Adding
    <3>3. r \in Seq(Entries) /\ Pending = batch \o r
      BY <3>1, ConcatAssociative DEF Pending
    <3> HIDE DEF r
    <3>4. \A i \in 1 .. Len(r) : Len(batch) + i \in 1 .. Len(Pending) /\ r[i] = Pending[Len(batch) + i]
      BY <3>1, <3>3
    <3> QED BY <1>1, <3>2, <3>4 DEF IInv, Clearings, r
  <2> QED BY <1>5, <2>1, <2>2
<1> QED BY <1>1, <1>6, <1>7, <1>8, IInvFails

-----------------------------------------------------------------------------

\* IInv holds in every state, whatever the application asks and whatever fails.
THEOREM Inductive == Spec => []IInv
<1>1. IInv /\ [Next]_vars => IInv'
  <2> SUFFICES ASSUME IInv, [Next]_vars PROVE IInv'
    OBVIOUS
  <2>1. CASE UNCHANGED vars
    <3>1. TypeOK' /\ Places' /\ Served' /\ Clearings' /\ Pending' = Pending
      BY <2>1 DEF IInv, TypeOK, Places, Served, Clearings, Pending, Adding, First, Gone, Busy, vars, loadVars
    <3>2. Knowledge' /\ NoRewrite' /\ Exact'
      BY <2>1, <3>1 DEF IInv, Knowledge, Known, Reached, Held, Writing, Cleaning, First, Unknown, Read,
         AlwaysOneValue, Whole, NoRewrite, Exact, vars, loadVars
    <3> QED BY <3>1, <3>2 DEF IInv
  <2>2. CASE Flush
    BY <2>2, IInvFlush DEF Flush, IInv, TypeOK
  <2>3. ASSUME NEW transactions \in {"disabled", "enabled"}, Load(transactions) PROVE IInv'
    <3>1. CASE phase = "idle"
      <4>1. Stop /\ loading' = transactions /\ UNCHANGED <<expected, stored>>
        BY <2>3, <3>1 DEF Load
      <4> QED BY <3>1, <4>1, IInvFlush
    <3>2. CASE phase = "down"
      BY <2>3, <3>2, IInvReload
    <3> QED BY <2>3, <3>1, <3>2 DEF Load
  <2>4. CASE Crash \/ ClearAll
    <3>1. Dies /\ faults' = faults \cup {"crash"} /\ "crash" \in Faults
      BY <2>4 DEF Crash, ClearAll, Fault
    <3> QED BY <3>1, IInvDies DEF IInv, TypeOK
  <2>5. CASE CleanOne \/ CleanEnd
    <3>1. worker \in {"clean", "cleanFailed"}
      BY <2>5 DEF CleanOne, CleanEnd
    <3> QED BY <2>5, <3>1, IInvCleanOne, IInvCleanEnd, IInvFailures
  <2> QED
    BY <2>1, <2>2, <2>3, <2>4, <2>5, IInvAdd, IInvRemove, IInvStart, IInvEmplace, IInvFlushed,
       IInvLoadFile, IInvLoaded, IInvWait, IInvCheck, IInvClear, IInvOpen, IInvWrite,
       IInvNothingToWrite, IInvFailures DEF Next, Worker, Process
<1> QED BY IInvInit, <1>1, PTL DEF Spec

\* Every variable keeps its type.
THEOREM TypeCorrect == Spec => []TypeOK
<1>1. IInv => TypeOK
  BY DEF IInv
<1> QED BY Inductive, <1>1, PTL

\* A path which has a value stored has one at any time, were the process to crash then,
\* until a write fails, a path is given the value it has, or a load deletes a file under writing.
THEOREM SafeAtAnyTime == Spec => []CrashSafe
<1>1. IInv => CrashSafe
  <2> SUFFICES ASSUME IInv, faults \subseteq {"crash", "remove"} PROVE AlwaysOneValue
    BY DEF CrashSafe
  <2>1. faults \cap {"fail", "reload", "rewrite"} = {}
    OBVIOUS
  <2> QED BY <2>1, OneValue
<1> QED BY Inductive, <1>1, PTL

\* When nothing is on its way, the files are the values of the application, one per path.
THEOREM Converges == Spec => []StoreConverges
<1>1. IInv => StoreConverges
  <2> SUFFICES ASSUME IInv, faults \subseteq {"rewrite"}, Quiet, NEW p \in Paths, NEW v \in Values
               PROVE  files[p][v] = IF v = expected[p] THEN "whole" ELSE "none"
    BY DEF StoreConverges, StoreMatches
  <2>1. Pending = <<>> /\ worker \notin Busy
    BY PendingType DEF IInv, Quiet, Places
  <2>2. stored[p] = expected[p]
    <3>1. IsAbsent(Pending, p)
      BY <2>1 DEF IsAbsent
    <3> QED BY <3>1 DEF IInv, Exact, Reached, Reaches
  <2> QED BY <2>1, <2>2 DEF IInv, Exact, Busy
<1> QED BY Inductive, <1>1, PTL

\* flush() returns when all what was added before is on the disk.
THEOREM Drains == Spec => FlushDrains
<1>1. IInv /\ [Next]_vars =>
        [phase = "flush" /\ phase' = "idle" /\ faults \cap {"fail", "remove", "reload"} = {} =>
           entries = <<>> /\ stored = expected]_vars
  <2> SUFFICES ASSUME IInv, Next, phase = "flush", phase' = "idle",
                      faults \cap {"fail", "remove", "reload"} = {}
               PROVE  entries = <<>> /\ stored = expected
    OBVIOUS
  <2>1. Flushed
    <3>1. ~Worker
      BY DEF Worker, Wait, Check, Process, Clear, Open, OpenFails, Write, WriteFails, NothingToWrite,
         CleanOne, CleanEnd, CleanFails, appVars
    <3> QED BY <3>1 DEF Next, Add, Remove, NewEntry, Start, Emplace, Flush, Load, Stop, LoadFile, Loaded,
               Crash, ClearAll, Dies
  <2>2. loading = "none" /\ worker \in Gone
    BY <2>1 DEF Flushed, Gone
  <2>3. entries = <<>> /\ batch = <<>>
    BY <2>2 DEF IInv, Served, Places, Busy, Gone
  <2>4. Pending = <<>>
    BY <2>3, PendingType DEF IInv
  <2>5. Reached
    BY <2>2 DEF IInv, Knowledge, Known, Unknown
  <2>6. \A p \in Paths : stored[p] = expected[p]
    <3>1. \A p \in Paths : IsAbsent(Pending, p)
      BY <2>4 DEF IsAbsent
    <3> QED BY <2>5, <3>1 DEF Reached, Reaches
  <2> QED BY <2>3, <2>6 DEF IInv, TypeOK
<1> QED BY Inductive, <1>1, PTL DEF Spec, FlushDrains
=============================================================================
