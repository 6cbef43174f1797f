--------------------------- MODULE TimerLogsProofs ---------------------------
(***************************************************************************)
(* Theorems about Timer, for any finite set of timers and of timeouts, and *)
(* for callbacks which set any timer; then about Logs, for any limits of   *)
(* the rotation and any number of lines and of crashes.  Both count finite *)
(* sets of numbers and look for the last one.                              *)
(*                                                                         *)
(* Timer: Indexed is almost inductive: it only lacks that the bucket under *)
(* call is empty out of the calls, without which raise() could overwrite   *)
(* it.                                                                     *)
(*                                                                         *)
(* Logs: that the oldest lines only are lost, and for the sake of the      *)
(* limit, depends on the numbers which no file has: a rotation which ends  *)
(* leaves no hole between two files, a death of the process in its renames *)
(* leaves one.  Each step of the renames moves a hole down by one.         *)
(***************************************************************************)
EXTENDS Timer, Logs, FiniteSetTheorems, WellFoundedInduction, TLAPS

(* Finite sets.                                                            *)

\* What is true of the empty set, and stays so when an element is added, is true of
\* every finite set.
LEMMA SetInduction ==
  ASSUME NEW S, IsFiniteSet(S), NEW T, {} \in T,
         \A X \in SUBSET S, x \in S : X \in T => X \cup {x} \in T
  PROVE  S \in T
<1>1. SUFFICES ASSUME S \notin T PROVE FALSE
  OBVIOUS
<1> DEFINE F == FiniteSubsetsOf(S)
           R == StrictSubsetOrdering(S)
           B == {X \in F : X \notin T}
<1>2. S \in F
  BY DEF FiniteSubsetsOf
<1>3. IsWellFoundedOn(R, F)
  BY FS_StrictSubsetOrderingWellFounded
<1>4. B \subseteq F /\ B # {}
  BY <1>1, <1>2
<1>5. PICK X \in B : \A Y \in B : <<Y, X>> \notin R
  <2> HIDE DEF B, F, R
  <2> QED BY <1>3, <1>4, WFMin
<1>6. X \subseteq S /\ IsFiniteSet(X) /\ X \notin T /\ X # {}
  BY DEF FiniteSubsetsOf
<1>7. PICK x \in X : TRUE
  BY <1>6
<1> DEFINE Y == X \ {x}
<1>8. Y \in F /\ Y \subseteq S /\ X = Y \cup {x} /\ x \notin Y
  BY <1>6, FS_Subset DEF FiniteSubsetsOf
<1>9. <<Y, X>> \in R
  BY <1>6, <1>7 DEF StrictSubsetOrdering
<1>10. Y \in T
  BY <1>5, <1>8, <1>9
<1> QED BY <1>6, <1>7, <1>8, <1>10

\* A finite set of numbers has its first and its last element.
LEMMA MinMax ==
  ASSUME NEW S, S \subseteq Int, IsFiniteSet(S), S # {}
  PROVE  /\ Min(S) \in S /\ \A y \in S : Min(S) <= y
         /\ Max(S) \in S /\ \A y \in S : y <= Max(S)
<1> DEFINE Ends(X) == X # {} => \E m \in X, n \in X : \A y \in X : m <= y /\ y <= n
           T == {X \in SUBSET S : Ends(X)}
<1>1. {} \in T
  OBVIOUS
<1>2. ASSUME NEW X \in SUBSET S, NEW x \in S, X \in T PROVE X \cup {x} \in T
  <2>1. CASE X = {}
    BY <2>1
  <2>2. CASE X # {}
    <3>1. PICK m \in X, n \in X : \A y \in X : m <= y /\ y <= n
      BY <1>2, <2>2
    <3>2. \A y \in X : y \in Int
      OBVIOUS
    <3>3. PICK a \in X \cup {x} : a <= m /\ a <= x
      BY <3>1, <3>2
    <3>4. PICK b \in X \cup {x} : n <= b /\ x <= b
      BY <3>1, <3>2
    <3>5. \A y \in X \cup {x} : a <= y /\ y <= b
      BY <3>1, <3>2, <3>3, <3>4
    <3> QED BY <3>5
  <2> QED BY <2>1, <2>2
<1>3. S \in T
  <2> HIDE DEF T
  <2> QED BY <1>1, <1>2, SetInduction
<1>4. PICK m \in S, n \in S : \A y \in S : m <= y /\ y <= n
  BY <1>3
<1>5. Min(S) \in S /\ \A y \in S : Min(S) <= y
  BY <1>4 DEF Min
<1>6. Max(S) \in S /\ \A y \in S : Max(S) >= y
  BY <1>4 DEF Max
<1> QED BY <1>5, <1>6

\* The timers which are armed.
On(d) == {t \in Timers : d[t] # 0}

\* Their number when one of them is armed or not.
LEMMA OnCount ==
  ASSUME NEW d \in [Timers -> Nat], NEW t \in Timers, NEW v \in Nat
  PROVE  /\ Cardinality(On(d)) \in Nat
         /\ Cardinality(On([d EXCEPT ![t] = v])) =
              Cardinality(On(d)) - (IF d[t] # 0 THEN 1 ELSE 0) + (IF v # 0 THEN 1 ELSE 0)
<1> DEFINE e == [d EXCEPT ![t] = v]
           R == On(d) \ {t}
<1>1. IsFiniteSet(On(d)) /\ IsFiniteSet(R) /\ t \notin R
  <2>1. On(d) \subseteq Timers /\ R \subseteq Timers
    BY DEF On
  <2> QED BY <2>1, FS_Subset, TimerAssumption
<1>2. /\ d[t] = 0 => On(d) = R
      /\ d[t] # 0 => On(d) = R \cup {t}
      /\ v = 0 => On(e) = R
      /\ v # 0 => On(e) = R \cup {t}
  BY DEF On
<1>3. /\ Cardinality(R) \in Nat /\ Cardinality(On(d)) \in Nat
      /\ Cardinality(R \cup {t}) = Cardinality(R) + 1
  <2> HIDE DEF R
  <2> QED BY <1>1, FS_CardinalityType, FS_AddElement
<1>4. d[t] \in Nat
  OBVIOUS
<1>5. Cardinality(On(d)) = Cardinality(R) + (IF d[t] # 0 THEN 1 ELSE 0)
  <2> HIDE DEF R
  <2>1. CASE d[t] = 0
    BY <1>2, <1>3, <2>1
  <2>2. CASE d[t] # 0
    BY <1>2, <1>3, <2>2
  <2> QED BY <2>1, <2>2
<1>6. Cardinality(On(e)) = Cardinality(R) + (IF v # 0 THEN 1 ELSE 0)
  <2> HIDE DEF R, e
  <2>1. CASE v = 0
    BY <1>2, <1>3, <2>1
  <2>2. CASE v # 0
    BY <1>2, <1>3, <2>2
  <2> QED BY <2>1, <2>2
<1>7. Cardinality(On(e)) = Cardinality(On(d)) - (IF d[t] # 0 THEN 1 ELSE 0) + (IF v # 0 THEN 1 ELSE 0)
  <2> HIDE DEF R, e
  <2> QED BY <1>3, <1>5, <1>6
<1> QED BY <1>3, <1>7

-----------------------------------------------------------------------------
(* The invariant.                                                          *)

IInv == TypeOK /\ Indexed /\ (bucket # {} => phase = "raising")

\* The times of the model.
LEMMA HorizonType ==
  /\ Max(Timeouts) \in Timeouts /\ \A v \in Timeouts : v \in Nat /\ v <= Max(Timeouts)
  /\ Horizon \in Nat /\ 1 <= Horizon
<1>1. Timeouts \subseteq Int /\ IsFiniteSet(Timeouts) /\ Timeouts # {} /\ Timeouts \subseteq Nat
  BY TimerAssumption
<1>2. Max(Timeouts) \in Timeouts /\ \A v \in Timeouts : v <= Max(Timeouts)
  BY <1>1, MinMax
<1>3. \A v \in Timeouts : v \in Nat
  BY <1>1
<1>4. ASSUME NEW m \in Nat PROVE MaxTime + m \in Nat /\ 1 <= MaxTime + m
  BY TimerAssumption
<1>5. Horizon \in Nat /\ 1 <= Horizon
  BY <1>2, <1>3, <1>4 DEF Horizon
<1> QED BY <1>2, <1>3, <1>5

\* A timeout ends at one of them.
LEMMA DueType ==
  ASSUME TypeOK, NEW timeout \in Timeouts
  PROVE  now + timeout \in Times /\ timeout \in Nat /\ Times \subseteq 1 .. Horizon /\ 0 \notin Times
<1>1. now \in 1 .. MaxTime /\ timeout \in Nat /\ timeout <= Max(Timeouts) /\ Max(Timeouts) \in Nat
  BY HorizonType DEF TypeOK
<1> DEFINE m == Max(Timeouts)
<1>2. now + timeout <= MaxTime + m
  BY <1>1, TimerAssumption
<1> QED BY <1>1, <1>2, TimerAssumption DEF Times, Horizon

-----------------------------------------------------------------------------
(* The index: a timer is in the bucket of its _nextRaising and in no other *)
(* one, but for the timers under call, and the counter counts them.        *)

Keeps(nx, tm, cnt, b) ==
  /\ \A t \in Timers, k \in Times : t \in tm[k] <=> nx[t] = k /\ t \notin b
  /\ \A t \in b : nx[t] # 0
  /\ cnt = Cardinality(On(nx))

\* What the raising times, the buckets and the timers under call are.
Typed(nx, tm, b) ==
  /\ nx \in [Timers -> 0 .. Horizon]
  /\ tm \in [Times -> SUBSET Timers]
  /\ b \subseteq Timers

\* Indexed in these words.
LEMMA IndexedKeeps ==
  ASSUME TypeOK
  PROVE  Indexed <=> (Regular => next = due /\ Keeps(next, timers, count, bucket))
<1>1. next = due <=> \A t \in Timers : next[t] = due[t]
  BY DEF TypeOK
<1>2. \A t \in bucket : t \in Timers
  BY DEF TypeOK
<1> QED BY <1>1, <1>2 DEF Indexed, Keeps, On

\* Calling a timer takes it out of the index.
LEMMA CalledKeeps ==
  ASSUME NEW nx, NEW tm, NEW b, NEW cnt \in Int, Typed(nx, tm, b), NEW t \in b
  PROVE  /\ Typed(Called(t, nx), tm, b \ {t})
         /\ Keeps(nx, tm, cnt, b) => Keeps(Called(t, nx), tm, cnt - 1, b \ {t})
<1>1. t \in Timers /\ Called(t, nx) \in [Timers -> 0 .. Horizon]
  BY HorizonType DEF Typed, Called
<1>2. Typed(Called(t, nx), tm, b \ {t})
  BY <1>1 DEF Typed
<1>3. ASSUME Keeps(nx, tm, cnt, b) PROVE Keeps(Called(t, nx), tm, cnt - 1, b \ {t})
  <2>1. \A u \in Timers : Called(t, nx)[u] = IF u = t THEN 0 ELSE nx[u]
    BY DEF Called, Typed
  <2>2. \A u \in Timers, k \in Times :
          u \in tm[k] <=> Called(t, nx)[u] = k /\ u \notin b \ {t}
    BY <1>1, <1>3, <2>1 DEF Keeps, Times
  <2>3. \A u \in b \ {t} : Called(t, nx)[u] # 0
    BY <1>3, <2>1 DEF Keeps, Typed
  <2>4. nx \in [Timers -> Nat] /\ nx[t] # 0
    BY <1>3, HorizonType DEF Keeps, Typed
  <2>5. Cardinality(On(Called(t, nx))) = Cardinality(On(nx)) - 1 + 0 /\ Cardinality(On(nx)) \in Nat
    BY <1>1, <2>4, OnCount DEF Called
  <2>6. cnt - 1 = Cardinality(On(Called(t, nx)))
    BY <1>3, <2>5 DEF Keeps
  <2> QED BY <2>2, <2>3, <2>6 DEF Keeps
<1> QED BY <1>2, <1>3

\* set() moves a timer which is not under call.
LEMMA SetKeeps ==
  ASSUME TypeOK, NEW timeout \in Timeouts,
         NEW nx, NEW tm, NEW b, NEW cnt \in Int, Typed(nx, tm, b), NEW u \in Timers
  PROVE  /\ Typed(SetNext(u, timeout, nx), SetTimers(u, timeout, nx, tm), b)
         /\ SetCount(u, timeout, nx, cnt) \in Int
         /\ Keeps(nx, tm, cnt, b) /\ u \notin b =>
              Keeps(SetNext(u, timeout, nx), SetTimers(u, timeout, nx, tm),
                    SetCount(u, timeout, nx, cnt), b)
<1> DEFINE v == IF timeout = 0 THEN 0 ELSE now + timeout
<1>1. /\ v \in 0 .. Horizon /\ v \in Nat /\ (v # 0 => v = now + timeout /\ v \in Times)
      /\ v = 0 <=> timeout = 0
  BY DueType, HorizonType DEF Times
<1>2. /\ SetNext(u, timeout, nx) \in [Timers -> 0 .. Horizon]
      /\ \A x \in Timers : SetNext(u, timeout, nx)[x] = IF x = u THEN v ELSE nx[x]
  BY <1>1 DEF SetNext, Typed
<1>3. SetTimers(u, timeout, nx, tm) \in [Times -> SUBSET Timers]
  BY DEF SetTimers, Typed
<1>4. SetCount(u, timeout, nx, cnt) \in Int
  BY DEF SetCount
<1>5. ASSUME Keeps(nx, tm, cnt, b), u \notin b
      PROVE  Keeps(SetNext(u, timeout, nx), SetTimers(u, timeout, nx, tm),
                   SetCount(u, timeout, nx, cnt), b)
  <2>1. ASSUME NEW x \in Timers, NEW k \in Times
        PROVE  x \in SetTimers(u, timeout, nx, tm)[k] <=>
                 SetNext(u, timeout, nx)[x] = k /\ x \notin b
    <3>1. SetTimers(u, timeout, nx, tm)[k] =
            IF timeout # 0 /\ k = now + timeout THEN tm[k] \cup {u}
            ELSE IF k = nx[u] THEN tm[k] \ {u} ELSE tm[k]
      BY DEF SetTimers
    <3>2. x \in tm[k] <=> nx[x] = k /\ x \notin b
      BY <1>5 DEF Keeps
    <3>3. k # 0
      BY DEF Times
    <3>4. CASE x = u
      <4> HIDE DEF v
      <4>1. SetNext(u, timeout, nx)[x] = v
        BY <1>2, <3>4
      <4>2. x \in SetTimers(u, timeout, nx, tm)[k] <=> v = k
        BY <1>1, <1>5, <3>1, <3>2, <3>3, <3>4 DEF v
      <4> QED BY <4>1, <4>2, <1>5, <3>4
    <3>5. CASE x # u
      <4>1. SetNext(u, timeout, nx)[x] = nx[x]
        BY <1>2, <3>5
      <4>2. x \in SetTimers(u, timeout, nx, tm)[k] <=> x \in tm[k]
        BY <3>1, <3>5
      <4> QED BY <4>1, <4>2, <3>2
    <3> QED BY <3>4, <3>5
  <2>2. \A x \in b : SetNext(u, timeout, nx)[x] # 0
    <3>1. \A x \in b : x \in Timers /\ x # u /\ nx[x] # 0
      BY <1>5 DEF Keeps, Typed
    <3> QED BY <1>2, <3>1
  <2>3. nx \in [Timers -> Nat] /\ SetNext(u, timeout, nx) = [nx EXCEPT ![u] = v]
    BY HorizonType DEF Typed, SetNext
  <2>4. /\ Cardinality(On(nx)) \in Nat
        /\ Cardinality(On(SetNext(u, timeout, nx))) =
             Cardinality(On(nx)) - (IF nx[u] # 0 THEN 1 ELSE 0) + (IF v # 0 THEN 1 ELSE 0)
    <3> HIDE DEF v
    <3>1. /\ Cardinality(On(nx)) \in Nat
          /\ Cardinality(On([nx EXCEPT ![u] = v])) =
               Cardinality(On(nx)) - (IF nx[u] # 0 THEN 1 ELSE 0) + (IF v # 0 THEN 1 ELSE 0)
      BY <1>1, <2>3, OnCount
    <3> QED BY <2>3, <3>1
  <2>5. SetCount(u, timeout, nx, cnt) = Cardinality(On(SetNext(u, timeout, nx)))
    <3>1. cnt = Cardinality(On(nx))
      BY <1>5 DEF Keeps
    <3> HIDE DEF v
    <3>2. CASE nx[u] = 0
      BY <1>1, <2>4, <3>1, <3>2 DEF SetCount
    <3>3. CASE nx[u] # 0
      BY <1>1, <2>4, <3>1, <3>3 DEF SetCount
    <3> QED BY <3>2, <3>3
  <2> QED BY <2>1, <2>2, <2>5 DEF Keeps
<1>6. Typed(SetNext(u, timeout, nx), SetTimers(u, timeout, nx, tm), b)
  BY <1>2, <1>3 DEF Typed
<1> QED BY <1>4, <1>5, <1>6

\* add() indexes a timer which is neither armed nor under call.
LEMMA AddKeeps ==
  ASSUME TypeOK, NEW timeout \in Timeouts,
         NEW nx, NEW tm, NEW b, NEW cnt \in Int, Typed(nx, tm, b), NEW t \in Timers
  PROVE  /\ Typed(AddNext(t, timeout, nx), AddTimers(t, timeout, tm), b)
         /\ Keeps(nx, tm, cnt, b) /\ (timeout # 0 => nx[t] = 0) =>
              Keeps(AddNext(t, timeout, nx), AddTimers(t, timeout, tm),
                    cnt + (IF timeout # 0 THEN 1 ELSE 0), b)
<1>1. CASE timeout = 0
  BY <1>1 DEF AddNext, AddTimers, Keeps
<1>2. CASE timeout # 0
  <2> DEFINE v == now + timeout
  <2>1. v \in Times /\ v \in 0 .. Horizon /\ v \in Nat /\ v # 0
    BY DueType DEF Times
  <2>2. AddNext(t, timeout, nx) = [nx EXCEPT ![t] = v] /\ AddTimers(t, timeout, tm) = [tm EXCEPT ![v] = @ \cup {t}]
    BY <1>2 DEF AddNext, AddTimers
  <2> HIDE DEF v
  <2>3. Typed(AddNext(t, timeout, nx), AddTimers(t, timeout, tm), b)
    BY <2>1, <2>2 DEF Typed
  <2>4. ASSUME Keeps(nx, tm, cnt, b), nx[t] = 0
        PROVE  Keeps(AddNext(t, timeout, nx), AddTimers(t, timeout, tm), cnt + 1, b)
    <3>1. t \notin b
      BY <2>4 DEF Keeps
    <3>2. ASSUME NEW x \in Timers, NEW k \in Times
          PROVE  x \in AddTimers(t, timeout, tm)[k] <=> AddNext(t, timeout, nx)[x] = k /\ x \notin b
      <4>1. x \in tm[k] <=> nx[x] = k /\ x \notin b
        BY <2>4 DEF Keeps
      <4>2. /\ AddNext(t, timeout, nx)[x] = IF x = t THEN v ELSE nx[x]
            /\ AddTimers(t, timeout, tm)[k] = IF k = v THEN tm[k] \cup {t} ELSE tm[k]
        BY <2>1, <2>2 DEF Typed
      <4>3. k # 0
        BY DEF Times
      <4> QED BY <2>4, <3>1, <4>1, <4>2, <4>3
    <3>3. \A x \in b : AddNext(t, timeout, nx)[x] # 0
      BY <2>2, <2>4, <3>1 DEF Keeps, Typed
    <3>4. nx \in [Timers -> Nat]
      BY HorizonType DEF Typed
    <3>5. Cardinality(On(AddNext(t, timeout, nx))) = Cardinality(On(nx)) - 0 + 1 /\ Cardinality(On(nx)) \in Nat
      <4>1. /\ Cardinality(On(nx)) \in Nat
            /\ Cardinality(On([nx EXCEPT ![t] = v])) =
                 Cardinality(On(nx)) - (IF nx[t] # 0 THEN 1 ELSE 0) + (IF v # 0 THEN 1 ELSE 0)
        BY <2>1, <3>4, OnCount
      <4> QED BY <2>1, <2>2, <2>4, <4>1
    <3>6. cnt + 1 = Cardinality(On(AddNext(t, timeout, nx)))
      BY <2>4, <3>5 DEF Keeps
    <3> QED BY <3>2, <3>3, <3>6 DEF Keeps
  <2> QED BY <1>2, <2>3, <2>4
<1> QED BY <1>1, <1>2

\* The same after a step.
LEMMA IndexedKeepsNext ==
  ASSUME TypeOK'
  PROVE  Indexed' <=> (Regular' => next' = due' /\ Keeps(next', timers', count', bucket'))
<1>1. next' = due' <=> \A t \in Timers : next'[t] = due'[t]
  BY DEF TypeOK
<1>2. \A t \in bucket' : t \in Timers
  BY DEF TypeOK
<1> QED BY <1>1, <1>2 DEF Indexed, Keeps, On

-----------------------------------------------------------------------------
(* The steps.                                                              *)

\* When the index is kept, the counter is not negative.
LEMMA CountType ==
  ASSUME NEW nx \in [Timers -> 0 .. Horizon], NEW tm, NEW b, NEW cnt, Keeps(nx, tm, cnt, b)
  PROVE  cnt \in Nat
<1>1. IsFiniteSet(On(nx))
  <2>1. On(nx) \subseteq Timers
    BY DEF On
  <2> QED BY <2>1, FS_Subset, TimerAssumption
<1> QED BY <1>1, FS_CardinalityType DEF Keeps

\* The index of the initial state.
LEMMA InitKeeps == Init => IInv
<1> SUFFICES ASSUME Init PROVE IInv
  OBVIOUS
<1>1. On(next) = {} /\ Cardinality(On(next)) = 0
  BY FS_EmptySet DEF Init, On
<1>2. TypeOK
  <2>1. next \in [Timers -> 0 .. Horizon] /\ due \in [Timers -> 0 .. Horizon]
    BY HorizonType DEF Init
  <2>2. now \in 1 .. MaxTime /\ timers \in [Times -> SUBSET Timers]
    BY TimerAssumption DEF Init
  <2>3. count \in Int /\ count \in Nat /\ waiting \in Nat
    BY DEF Init
  <2>4. phase \in {"idle", "loop", "raising", "failed"} /\ bucket \subseteq Timers
    BY DEF Init
  <2>5. twice \in BOOLEAN
    BY DEF Init
  <2> QED BY <2>1, <2>2, <2>3, <2>4, <2>5 DEF TypeOK
<1>3. Keeps(next, timers, count, bucket)
  BY <1>1 DEF Init, Keeps, Times
<1> QED BY <1>2, <1>3, IndexedKeeps DEF IInv, Init

\* The application sets a timer.
LEMMA SetStep ==
  ASSUME IInv, NEW t \in Timers, NEW timeout \in Timeouts, Set(t, timeout)
  PROVE  IInv'
<1>1. TypeOK /\ Indexed /\ bucket = {} /\ Typed(next, timers, bucket)
  BY DEF IInv, Set, TypeOK, Typed
<1>2. /\ Typed(next', timers', bucket') /\ count' \in Int
      /\ Keeps(next, timers, count, bucket) => Keeps(next', timers', count', bucket')
  <2>1. count \in Int /\ bucket' = bucket
    BY <1>1 DEF TypeOK, Set
  <2> QED BY <1>1, <2>1, SetKeeps DEF Set
<1>3. due' \in [Timers -> 0 .. Horizon]
  <2>1. Typed(due, timers, bucket) /\ 0 \in Int
    BY <1>1 DEF TypeOK, Typed
  <2>2. Typed(SetNext(t, timeout, due), SetTimers(t, timeout, due, timers), bucket)
    BY <1>1, <2>1, SetKeeps
  <2> QED BY <2>2 DEF Set, Typed
<1>4. ~twice' => count' \in Nat
  <2> SUFFICES ASSUME ~twice' PROVE count' \in Nat
    OBVIOUS
  <2>1. Regular
    BY DEF Set, Regular
  <2>2. Keeps(next', timers', count', bucket')
    BY <1>1, <1>2, <2>1, IndexedKeeps
  <2> QED BY <1>2, <2>2, CountType DEF Typed
<1>5. TypeOK'
  <2>1. /\ now' \in 1 .. MaxTime /\ waiting' \in Nat /\ twice' \in BOOLEAN
        /\ phase' \in {"idle", "loop", "raising", "failed"}
    BY <1>1 DEF TypeOK, Set
  <2> QED BY <1>2, <1>3, <1>4, <2>1 DEF TypeOK, Typed
<1>6. Regular' => next' = due' /\ Keeps(next', timers', count', bucket')
  <2> SUFFICES ASSUME Regular' PROVE next' = due' /\ Keeps(next', timers', count', bucket')
    OBVIOUS
  <2>1. Regular
    BY DEF Set, Regular
  <2>2. next = due /\ Keeps(next, timers, count, bucket)
    BY <1>1, <2>1, IndexedKeeps
  <2> QED BY <1>2, <2>2 DEF Set
<1> QED BY <1>1, <1>5, <1>6, IndexedKeepsNext DEF IInv, Set

\* A timer is called; it arms itself again by what it returns.
LEMMA CallStep ==
  ASSUME IInv, NEW t \in Timers, NEW timeout \in Timeouts, Call(t, timeout)
  PROVE  IInv'
<1> DEFINE nx == Called(t, next)
           b == bucket \ {t}
<1>1. TypeOK /\ Indexed /\ t \in bucket /\ Typed(next, timers, bucket) /\ count \in Int
  BY DEF IInv, Call, TypeOK, Typed
<1>2. /\ Typed(nx, timers, b)
      /\ Keeps(next, timers, count, bucket) => Keeps(nx, timers, count - 1, b)
  BY <1>1, CalledKeeps
<1>3. nx[t] = 0 /\ count - 1 \in Int
  BY <1>1 DEF Called, Typed
<1>4. /\ Typed(next', timers', bucket') /\ count' \in Int
      /\ Keeps(next, timers, count, bucket) => Keeps(next', timers', count', bucket')
  <2>1. next' = AddNext(t, timeout, nx) /\ timers' = AddTimers(t, timeout, timers)
        /\ count' = (count - 1) + (IF timeout # 0 THEN 1 ELSE 0) /\ bucket' = b
    BY DEF Call
  <2>2. count' \in Int
    BY <1>1, <2>1
  <2> HIDE DEF nx, b
  <2> QED BY <1>1, <1>2, <1>3, <2>1, <2>2, AddKeeps
<1>5. due' \in [Timers -> 0 .. Horizon]
  <2>1. Typed(due, timers, bucket) /\ 0 \in Int
    BY <1>1 DEF TypeOK, Typed
  <2>2. Typed(Called(t, due), timers, b)
    BY <1>1, <2>1, CalledKeeps
  <2>3. Typed(AddNext(t, timeout, Called(t, due)), AddTimers(t, timeout, timers), b)
    <3> HIDE DEF b
    <3> QED BY <1>1, <2>1, <2>2, AddKeeps
  <2> QED BY <2>3 DEF Call, Typed
<1>6. ~twice' => count' \in Nat
  <2> SUFFICES ASSUME ~twice' PROVE count' \in Nat
    OBVIOUS
  <2>1. Regular
    BY DEF Call, Regular
  <2>2. Keeps(next', timers', count', bucket')
    BY <1>1, <1>4, <2>1, IndexedKeeps
  <2> QED BY <1>4, <2>2, CountType DEF Typed
<1>7. TypeOK'
  <2>1. /\ now' \in 1 .. MaxTime /\ waiting' \in Nat /\ twice' \in BOOLEAN
        /\ phase' \in {"idle", "loop", "raising", "failed"}
    BY <1>1 DEF TypeOK, Call
  <2> QED BY <1>4, <1>5, <1>6, <2>1 DEF TypeOK, Typed
<1>8. Regular' => next' = due' /\ Keeps(next', timers', count', bucket')
  <2> SUFFICES ASSUME Regular' PROVE next' = due' /\ Keeps(next', timers', count', bucket')
    OBVIOUS
  <2>1. Regular
    BY DEF Call, Regular
  <2>2. next = due /\ Keeps(next, timers, count, bucket)
    BY <1>1, <2>1, IndexedKeeps
  <2> QED BY <1>4, <2>2 DEF Call
<1>9. phase' = "raising"
  BY DEF Call
<1> QED BY <1>7, <1>8, <1>9, IndexedKeepsNext DEF IInv

\* A timer is called, which sets one before it returns.
LEMMA CallSettingStep ==
  ASSUME IInv, NEW t \in Timers, NEW timeout \in Timeouts, NEW u \in Timers,
         NEW other \in Timeouts, CallSetting(t, timeout, u, other)
  PROVE  IInv'
<1> DEFINE nx == Called(t, next)
           b == bucket \ {t}
           nx2 == SetNext(u, other, nx)
           tm2 == SetTimers(u, other, nx, timers)
           cnt2 == SetCount(u, other, nx, count - 1)
<1>1. TypeOK /\ Indexed /\ t \in bucket /\ Typed(next, timers, bucket) /\ count \in Int
  BY DEF IInv, CallSetting, TypeOK, Typed
<1>2. /\ Typed(nx, timers, b)
      /\ Keeps(next, timers, count, bucket) => Keeps(nx, timers, count - 1, b)
  BY <1>1, CalledKeeps
<1>3. /\ Typed(nx2, tm2, b) /\ cnt2 \in Int
      /\ Keeps(nx, timers, count - 1, b) /\ u \notin b => Keeps(nx2, tm2, cnt2, b)
  <2>1. count - 1 \in Int
    BY <1>1
  <2> HIDE DEF nx, b
  <2> QED BY <1>1, <1>2, <2>1, SetKeeps
<1>4. ~(u = t /\ timeout # 0 /\ other # 0) => (timeout # 0 => nx2[t] = 0)
  BY <1>1, <1>2 DEF SetNext, Called, Typed
<1>5. /\ next' = AddNext(t, timeout, nx2) /\ timers' = AddTimers(t, timeout, tm2)
      /\ count' = cnt2 + (IF timeout # 0 THEN 1 ELSE 0) /\ bucket' = b
  <2>1. SetCount(u, other, nx, count) - 1 = cnt2
    BY <1>1 DEF SetCount
  <2>2. count' = SetCount(u, other, nx, count) - 1 + (IF timeout # 0 THEN 1 ELSE 0)
    BY DEF CallSetting
  <2> HIDE DEF cnt2
  <2>3. count' = cnt2 + (IF timeout # 0 THEN 1 ELSE 0)
    BY <2>1, <2>2
  <2> QED BY <2>3 DEF CallSetting
<1>6. /\ Typed(next', timers', bucket') /\ count' \in Int
      /\ Keeps(nx2, tm2, cnt2, b) /\ (timeout # 0 => nx2[t] = 0) =>
           Keeps(next', timers', count', bucket')
  <2> HIDE DEF nx2, tm2, cnt2, b
  <2>1. count' \in Int
    BY <1>3, <1>5
  <2> QED BY <1>1, <1>3, <1>5, <2>1, AddKeeps
<1>7. Keeps(next, timers, count, bucket) => u \notin b
  <2> SUFFICES ASSUME Keeps(next, timers, count, bucket), u \in b PROVE FALSE
    OBVIOUS
  <2>1. u # t /\ ~RemoveFails(u) /\ next[u] # 0
    BY DEF CallSetting, Keeps
  <2>2. u \in timers[next[u]] /\ next[u] \in Times
    BY <1>1, <2>1, HorizonType DEF RemoveFails, Typed, Times
  <2> QED BY <2>2 DEF Keeps
<1>8. ~twice' /\ Regular =>
        next = due /\ Keeps(next', timers', count', bucket')
  <2> SUFFICES ASSUME ~twice', Regular PROVE next = due /\ Keeps(next', timers', count', bucket')
    OBVIOUS
  <2>1. next = due /\ Keeps(next, timers, count, bucket)
    BY <1>1, IndexedKeeps
  <2>2. timeout # 0 => nx2[t] = 0
    <3> HIDE DEF nx2
    <3>1. ~(u = t /\ timeout # 0 /\ other # 0)
      BY DEF CallSetting
    <3> QED BY <1>4, <3>1
  <2> HIDE DEF nx2, tm2, cnt2, b, nx
  <2> QED BY <1>2, <1>3, <1>6, <1>7, <2>1, <2>2
<1>9. ~twice' => ~twice /\ Regular
  BY DEF CallSetting, Regular
<1>10. due' \in [Timers -> 0 .. Horizon]
  <2> DEFINE d == Called(t, due)
             d2 == SetNext(u, other, d)
             dm == SetTimers(u, other, d, timers)
  <2>1. Typed(due, timers, bucket) /\ 0 \in Int
    BY <1>1 DEF TypeOK, Typed
  <2>2. Typed(d, timers, b)
    BY <1>1, <2>1, CalledKeeps
  <2>3. Typed(d2, dm, b)
    <3> HIDE DEF d, b
    <3> QED BY <1>1, <2>1, <2>2, SetKeeps
  <2>4. Typed(AddNext(t, timeout, d2), AddTimers(t, timeout, dm), b)
    <3> HIDE DEF d2, dm, b
    <3> QED BY <1>1, <2>1, <2>3, AddKeeps
  <2> QED BY <2>4 DEF CallSetting, Typed
<1>11. TypeOK'
  <2>1. /\ now' \in 1 .. MaxTime /\ waiting' \in Nat
        /\ phase' \in {"idle", "loop", "raising", "failed"}
    BY <1>1 DEF TypeOK, CallSetting
  <2>2. twice' \in BOOLEAN
    BY DEF CallSetting
  <2>3. ~twice' => count' \in Nat
    <3>1. ~twice' => Keeps(next', timers', count', bucket')
      BY <1>8, <1>9
    <3> QED BY <1>6, <3>1, CountType DEF Typed
  <2> QED BY <1>6, <1>10, <2>1, <2>2, <2>3 DEF TypeOK, Typed
<1>12. Regular' => next' = due' /\ Keeps(next', timers', count', bucket')
  <2>1. next = due => next' = due'
    BY DEF CallSetting
  <2>2. Regular' => ~twice'
    BY DEF Regular
  <2> QED BY <1>8, <1>9, <2>1, <2>2
<1>13. phase' = "raising"
  BY DEF CallSetting
<1> QED BY <1>11, <1>12, <1>13, IndexedKeepsNext DEF IInv

\* The first armed time.
LEMMA FirstArmed ==
  ASSUME Armed # {}
  PROVE  Min(Armed) \in Armed /\ Min(Armed) \in Times /\ \A k \in Armed : Min(Armed) <= k
<1>1. Armed \subseteq 1 .. Horizon /\ IsFiniteSet(1 .. Horizon)
  BY HorizonType, FS_Interval DEF Armed, Times
<1>2. IsFiniteSet(Armed)
  BY <1>1, FS_Subset
<1>3. Armed \subseteq Int
  BY <1>1, HorizonType
<1> QED BY <1>1, <1>2, <1>3, MinMax DEF Times

\* raise() takes the first bucket out of the map.
LEMMA TakeBucketStep ==
  ASSUME IInv, TakeBucket
  PROVE  IInv'
<1> DEFINE first == Min(Armed)
<1>1. first \in Times
  BY FirstArmed DEF TakeBucket
<1>2. /\ bucket' = timers[first] /\ timers' = [timers EXCEPT ![first] = {}]
      /\ phase' = "raising" /\ bucket = {}
      /\ UNCHANGED <<now, next, count, waiting, due, twice>>
  BY DEF TakeBucket, IInv
<1> HIDE DEF first
<1>3. TypeOK'
  <2>1. timers' \in [Times -> SUBSET Timers] /\ bucket' \subseteq Timers
    BY <1>1, <1>2 DEF IInv, TypeOK
  <2> QED BY <1>2, <2>1 DEF IInv, TypeOK
<1>4. ASSUME Regular' PROVE next' = due' /\ Keeps(next', timers', count', bucket')
  <2>1. Regular
    BY <1>2, <1>4 DEF Regular, TakeBucket
  <2>2. next = due /\ Keeps(next, timers, count, {})
    BY <1>2, <2>1, IndexedKeeps DEF IInv
  <2>3. \A t \in Timers, k \in Times : t \in timers'[k] <=> next'[t] = k /\ t \notin bucket'
    <3> SUFFICES ASSUME NEW t \in Timers, NEW k \in Times
                 PROVE  t \in timers'[k] <=> next[t] = k /\ t \notin timers[first]
      BY <1>2
    <3>1. timers'[k] = IF k = first THEN {} ELSE timers[k]
      BY <1>1, <1>2 DEF IInv, TypeOK
    <3>2. t \in timers[k] <=> next[t] = k
      BY <2>2 DEF Keeps
    <3>3. t \in timers[first] <=> next[t] = first
      BY <1>1, <2>2 DEF Keeps
    <3> QED BY <3>1, <3>2, <3>3
  <2>4. \A t \in bucket' : next'[t] # 0
    <3>1. \A t \in timers[first] : t \in Timers /\ next[t] = first
      BY <1>1, <2>2 DEF Keeps, IInv, TypeOK
    <3> QED BY <1>1, <1>2, <3>1 DEF Times
  <2> QED BY <1>2, <2>2, <2>3, <2>4 DEF Keeps
<1> QED BY <1>2, <1>3, <1>4, IndexedKeepsNext DEF IInv

\* The failure of remove() ends raise(): only the types are left.
LEMMA CallFailingStep ==
  ASSUME IInv, NEW t \in Timers, NEW u \in Timers, CallFailing(t, u)
  PROVE  IInv'
<1>1. next' \in [Timers -> 0 .. Horizon] /\ due' \in [Timers -> 0 .. Horizon]
  BY HorizonType DEF CallFailing, Called, IInv, TypeOK
<1>2. TypeOK'
  BY <1>1 DEF CallFailing, IInv, TypeOK
<1> QED BY <1>2 DEF CallFailing, Indexed, Regular, IInv

\* raise() returns.
LEMMA RaiseReturnsStep ==
  ASSUME IInv, RaiseReturns
  PROVE  IInv'
<1>1. waiting' \in Nat
  <2>1. CASE Armed = {}
    BY <2>1 DEF RaiseReturns
  <2>2. CASE Armed # {}
    <3>1. Min(Armed) \in Int /\ now \in Int
      BY <2>2, FirstArmed DEF IInv, TypeOK, Times
    <3> QED BY <2>2, <3>1 DEF RaiseReturns
  <2> QED BY <2>1, <2>2
<1>2. TypeOK'
  BY <1>1 DEF RaiseReturns, IInv, TypeOK
<1>3. Indexed'
  BY DEF RaiseReturns, IInv, Indexed, Regular
<1> QED BY <1>2, <1>3 DEF RaiseReturns, IInv

\* The other steps leave the index and the bucket under call as they are.
LEMMA OtherStep ==
  ASSUME IInv, Tick \/ Raise \/ EndBucket \/ UNCHANGED vars
  PROVE  IInv'
<1>1. CASE Tick
  <2>1. now' \in 1 .. MaxTime
    BY <1>1, TimerAssumption DEF Tick, IInv, TypeOK
  <2> QED BY <1>1, <2>1 DEF Tick, IInv, TypeOK, Indexed, Regular
<1>2. CASE Raise
  BY <1>2 DEF Raise, IInv, TypeOK, Indexed, Regular
<1>3. CASE EndBucket
  BY <1>3 DEF EndBucket, IInv, TypeOK, Indexed, Regular
<1>4. CASE UNCHANGED vars
  BY <1>4 DEF vars, IInv, TypeOK, Indexed, Regular
<1> QED BY <1>1, <1>2, <1>3, <1>4

-----------------------------------------------------------------------------
(* The theorems.                                                           *)

\* IInv is inductive.
THEOREM Inductive ==
  /\ Init => IInv
  /\ IInv /\ [Next]_vars => IInv'
<1>1. ASSUME IInv, Next PROVE IInv'
  <2>1. CASE \E t \in Timers, timeout \in Timeouts : Set(t, timeout) \/ Call(t, timeout)
    BY <1>1, <2>1, SetStep, CallStep
  <2>2. CASE \E t, u \in Timers, timeout, other \in Timeouts : CallSetting(t, timeout, u, other)
    BY <1>1, <2>2, CallSettingStep
  <2>3. CASE \E t, u \in Timers : CallFailing(t, u)
    BY <1>1, <2>3, CallFailingStep
  <2> QED BY <1>1, <2>1, <2>2, <2>3, OtherStep, TakeBucketStep, RaiseReturnsStep DEF Next
<1> QED BY <1>1, InitKeeps, OtherStep

\* IInv holds in every state.
THEOREM Invariance == Spec => []IInv
BY Inductive, PTL DEF Spec

\* Every variable of Timer has its type.
THEOREM TypeCorrect == Spec => []TypeOK
<1>1. IInv => TypeOK
  BY DEF IInv
<1> QED BY <1>1, Invariance, PTL

\* Every armed timer is in the bucket of its _nextRaising and in no other one, or waits
\* for its call; it is armed for the last time asked, and count() counts them.
THEOREM AlwaysIndexed == Spec => []Indexed
<1>1. IInv => Indexed
  BY DEF IInv
<1> QED BY <1>1, Invariance, PTL

\* raise() leaves no timer due behind it, and returns the time left before the first
\* timer, 0 when there is none.
THEOREM WaitExact == Spec => WaitIsExact
<1> DEFINE Exact ==
      /\ \A t \in Timers : due[t] # 0 => due[t] >= now + waiting' /\ waiting' > 0
      /\ waiting' = 0 <=> \A t \in Timers : due[t] = 0
<1>1. ASSUME IInv, RaiseReturns, Regular PROVE Exact
  <2>1. bucket = {} /\ TypeOK
    BY <1>1 DEF IInv, RaiseReturns
  <2>2. next = due /\ Keeps(next, timers, count, {})
    BY <1>1, <2>1, IndexedKeeps DEF IInv
  <2>3. \A t \in Timers : due[t] # 0 => due[t] \in Armed
    <3> SUFFICES ASSUME NEW t \in Timers, due[t] # 0 PROVE due[t] \in Armed
      OBVIOUS
    <3>1. due[t] \in Times
      BY <2>1, HorizonType DEF TypeOK, Times
    <3>2. t \in timers[due[t]]
      BY <2>2, <3>1 DEF Keeps
    <3> QED BY <3>1, <3>2 DEF Armed
  <2>4. \A k \in Armed : \E t \in Timers : due[t] = k /\ k # 0
    BY <2>1, <2>2 DEF Armed, Keeps, TypeOK, Times
  <2>5. CASE Armed = {}
    BY <1>1, <2>3, <2>5 DEF RaiseReturns
  <2>6. CASE Armed # {}
    <3>1. /\ Min(Armed) \in Armed /\ Min(Armed) \in Int /\ now \in Int
          /\ \A k \in Armed : k \in Int /\ Min(Armed) <= k
      <4>1. Armed \subseteq Times /\ Times \subseteq Int
        BY HorizonType DEF Armed, Times
      <4>2. now \in Int
        BY <2>1, TimerAssumption DEF TypeOK
      <4> QED BY <2>6, <4>1, <4>2, FirstArmed
    <3>2. waiting' = Min(Armed) - now /\ waiting' > 0 /\ now + waiting' = Min(Armed)
      BY <1>1, <2>6, <3>1 DEF RaiseReturns
    <3> QED BY <2>3, <2>4, <3>1, <3>2
  <2> QED BY <2>5, <2>6
<1>2. IInv => [RaiseReturns /\ Regular => Exact]_vars
  BY <1>1
<1> QED BY <1>2, Invariance, PTL DEF WaitIsExact

-----------------------------------------------------------------------------
(* Logs: the invariant.                                                    *)

\* A file over the size which starts a rotation, and those files.
Full(f, n) == Len(f[n]) > SizeByFile
Heavy(f) == {n \in DOMAIN f : Full(f, n)}

\* The numbers under n, but for 0, that no file of S has.
Holes(S, n) == (1 .. n - 1) \ S

\* Only 0.log may be under its size, and no file is beyond the rotation.
Numbered ==
  /\ IsFiniteSet(DOMAIN files) /\ DOMAIN files \subseteq Nat
  /\ rotation # 0 => \A n \in DOMAIN files : n < rotation
  /\ \A n \in DOMAIN files : n # 0 => Full(files, n)

\* _written is what the next write appends to; only a rotation under way has a file
\* which this write would truncate.
Opened ==
  /\ written = IF 0 \in DOMAIN files /\ ~fresh THEN Len(files[0]) ELSE 0
  /\ IF step \in {"delete", "rename"} THEN fresh ELSE fresh => 0 \notin DOMAIN files

\* A rotation starts from a full 0.log, which it deletes when it is the only file; then
\* a rename finds the next number free, and never goes beyond the rotation.
Rotating ==
  /\ step = "delete" => rotation = 1 \/ (0 \in DOMAIN files /\ Full(files, 0))
  /\ step = "rename" =>
       /\ maxNum + 1 \notin DOMAIN files
       /\ \/ DOMAIN files = {}
          \/ 0 \in DOMAIN files /\ Full(files, 0) /\ (rotation = 0 \/ maxNum + 2 <= rotation)

\* A crash makes one hole at most; the renames have one more under the files moved.
Spaced ==
  \A n \in DOMAIN files :
    Cardinality(Holes(DOMAIN files, n)) <=
      crashes + IF step = "rename" /\ n > maxNum THEN 1 ELSE 0

\* The files tell the lines in their order.
Sorted(f) ==
  /\ \A n, m \in DOMAIN f : n < m => \A i \in DOMAIN f[n], j \in DOMAIN f[m] : f[n][i] > f[m][j]
  /\ \A n \in DOMAIN f : \A i, j \in DOMAIN f[n] : i < j => f[n][i] < f[n][j]

\* A line is lost when the files have reached the limit, but for the holes.
Limited == Lost # {} => rotation # 0 /\ Cardinality(Heavy(files)) + crashes + 1 >= rotation

LogsTyped ==
  /\ rotation \in Nat /\ written \in Nat /\ maxNum \in Nat /\ lines \in Nat /\ crashes \in Nat
  /\ fresh \in BOOLEAN /\ step \in {"idle", "delete", "rename", "flush"}
  /\ \A n \in DOMAIN files :
       files[n] \in Seq(Nat) /\ \A i \in DOMAIN files[n] : files[n][i] <= lines

LogsIInv ==
  /\ LogsTyped /\ Numbered /\ Opened /\ Rotating /\ Spaced
  /\ Sorted(files) /\ (\A i \in Lost, j \in OnDisk : i < j) /\ Limited

\* A line of the files.
LEMMA KeptLine ==
  \A i : i \in OnDisk <=> \E n \in DOMAIN files : \E k \in DOMAIN files[n] : files[n][k] = i
BY DEF OnDisk, Range

\* The holes are numbers.
LEMMA HolesFinite ==
  ASSUME NEW S, NEW n \in Nat
  PROVE  IsFiniteSet(Holes(S, n)) /\ Cardinality(Holes(S, n)) \in Nat
<1>1. IsFiniteSet(1 .. n - 1)
  BY FS_Interval
<1>2. Holes(S, n) \subseteq 1 .. n - 1
  BY DEF Holes
<1> QED BY <1>1, <1>2, FS_Subset, FS_CardinalityType

\* The full files are a number of files.
LEMMA HeavyFinite ==
  ASSUME IsFiniteSet(DOMAIN files)
  PROVE  IsFiniteSet(Heavy(files)) /\ Cardinality(Heavy(files)) \in Nat
<1>1. Heavy(files) \subseteq DOMAIN files
  BY DEF Heavy
<1> QED BY <1>1, FS_Subset, FS_CardinalityType

\* The invariant says what LogsKept does.
LEMMA LogsIInvKept ==
  ASSUME LogsIInv
  PROVE  LogsKept
<1>1. \A n, m \in DOMAIN files : n < m =>
        \A i \in Range(files[n]), j \in Range(files[m]) : i > j
  BY DEF LogsIInv, Sorted, Range
<1>2. \A n \in DOMAIN files : \A i, j \in DOMAIN files[n] : i < j => files[n][i] < files[n][j]
  BY DEF LogsIInv, Sorted
<1>3. rotation # 0 => Cardinality(DOMAIN files) <= rotation
  <2>1. SUFFICES ASSUME rotation # 0 PROVE Cardinality(DOMAIN files) <= rotation
    OBVIOUS
  <2>2. rotation \in Nat /\ rotation - 1 \in Nat /\ DOMAIN files \in SUBSET Nat
        /\ \A n \in DOMAIN files : n <= rotation - 1
    BY <2>1 DEF LogsIInv, LogsTyped, Numbered
  <2>3. IsFiniteSet(DOMAIN files) /\ Cardinality(DOMAIN files) <= (rotation - 1) + 1
    BY <2>2, FS_BoundedSetOfNaturals
  <2> QED BY <2>2, <2>3, FS_CardinalityType
<1>4. Heavy(files) = {n \in DOMAIN files : Len(files[n]) > SizeByFile}
  BY DEF Heavy, Full
<1> QED BY <1>1, <1>2, <1>3, <1>4 DEF LogsIInv, LogsKept, Limited

\* At the start there is no file.
LEMMA LogsInitInv ==
  ASSUME LogsInit
  PROVE  LogsIInv
<1>1. DOMAIN files = {}
  BY DEF LogsInit
<1>2. OnDisk = {} /\ Lost = {}
  BY <1>1, KeptLine DEF Lost, LogsInit
<1>3. LogsTyped
  BY <1>1, LogsAssumption DEF LogsInit, LogsTyped
<1>4. Numbered
  BY <1>1, FS_EmptySet DEF Numbered
<1>5. Opened /\ Rotating /\ Spaced /\ Sorted(files) /\ Limited
  BY <1>1, <1>2 DEF LogsInit, Opened, Rotating, Spaced, Sorted, Limited
<1> QED BY <1>2, <1>3, <1>4, <1>5 DEF LogsIInv

-----------------------------------------------------------------------------
(* A line.                                                                 *)

\* A step which leaves the files alone, while no rotation goes on.
LEMMA SameFiles ==
  ASSUME LogsIInv, UNCHANGED <<rotation, files>>, Opened', LogsTyped',
         crashes <= crashes', lines <= lines',
         step' = "idle" \/ step' = "flush",
         step = "rename" => crashes' = crashes + 1,
         Lost' \subseteq Lost
  PROVE  LogsIInv'
<1> USE DEF LogsIInv
<1>1. Numbered' /\ Rotating' /\ Sorted(files)'
  BY DEF Numbered, Rotating, Sorted, Full
<1>2. Spaced'
  <2>1. ASSUME NEW n \in DOMAIN files PROVE Cardinality(Holes(DOMAIN files, n)) <= crashes'
    <3>1. /\ Cardinality(Holes(DOMAIN files, n)) <=
               crashes + IF step = "rename" /\ n > maxNum THEN 1 ELSE 0
          /\ n \in Nat
      BY DEF Spaced, Numbered
    <3>2. Cardinality(Holes(DOMAIN files, n)) \in Nat
      BY <3>1, HolesFinite
    <3> QED BY <3>1, <3>2 DEF LogsTyped
  <2> QED BY <2>1 DEF Spaced, LogsTyped
<1>3. OnDisk' = OnDisk
  BY DEF OnDisk
<1>4. Limited'
  <2>1. Cardinality(Heavy(files)) \in Nat
    BY HeavyFinite DEF Numbered
  <2>2. Heavy(files)' = Heavy(files)
    BY DEF Heavy, Full
  <2> QED BY <2>1, <2>2 DEF Limited, LogsTyped
<1>5. \A i \in Lost', j \in OnDisk' : i < j
  BY <1>3
<1> QED BY <1>1, <1>2, <1>4, <1>5

\* Nothing is left to flush.
LEMMA FlushEndInv ==
  ASSUME LogsIInv, FlushEnd
  PROVE  LogsIInv'
<1> USE DEF FlushEnd, disk, book
<1>1. Opened' /\ LogsTyped'
  BY DEF LogsIInv, Opened, LogsTyped
<1>2. Lost' = Lost
  BY DEF Lost, OnDisk
<1> QED BY <1>1, <1>2, SameFiles DEF LogsIInv, LogsTyped

\* The process dies and appends to the 0.log that it finds: in a rotation, the hole of
\* the renames becomes one of the crashes.
LEMMA LogsCrashInv ==
  ASSUME LogsIInv, Crash
  PROVE  LogsIInv'
<1> USE DEF Crash
<1>1. Opened'
  BY DEF Opened
<1>2. LogsTyped'
  <2>1. \A n \in DOMAIN files : Len(files[n]) \in Nat
    BY DEF LogsIInv, LogsTyped
  <2>2. written' \in Nat
    BY <2>1
  <2>3. /\ crashes' \in Nat /\ maxNum' \in Nat /\ rotation' \in Nat /\ lines' \in Nat
        /\ step' \in {"idle", "delete", "rename", "flush"}
    BY DEF LogsIInv, LogsTyped
  <2>4. fresh' \in BOOLEAN
    OBVIOUS
  <2>5. \A n \in DOMAIN files :
          files[n] \in Seq(Nat) /\ \A i \in DOMAIN files[n] : files[n][i] <= lines
    BY DEF LogsIInv, LogsTyped
  <2>6. files' = files /\ lines' = lines
    OBVIOUS
  <2> HIDE DEF Crash
  <2> QED BY <2>2, <2>3, <2>4, <2>5, <2>6 DEF LogsTyped
<1>3. Lost' = Lost
  BY DEF Lost, OnDisk
<1> QED BY <1>1, <1>2, <1>3, SameFiles DEF LogsIInv, LogsTyped

\* What the file holds before a line, and what it has once the line is written.
LEMMA AppendedFiles ==
  ASSUME LogsIInv, step \in {"idle", "flush"}
  PROVE  LET f == Appended(lines + 1) IN
         /\ DOMAIN f = DOMAIN files \cup {0}
         /\ \A n \in DOMAIN files \ {0} : f[n] = files[n]
         /\ f[0] \in Seq(Nat) /\ Len(f[0]) = written + 1 /\ f[0][written + 1] = lines + 1
         /\ 0 \in DOMAIN files =>
              written = Len(files[0]) /\ \A i \in 1 .. written : f[0][i] = files[0][i]
         /\ 0 \notin DOMAIN files => written = 0
<1> DEFINE before == IF 0 \in DOMAIN files /\ ~fresh THEN files[0] ELSE <<>>
           f == Appended(lines + 1)
<1>1. DOMAIN f = DOMAIN files \cup {0} /\ \A n \in DOMAIN files \ {0} : f[n] = files[n]
  BY DEF Appended
<1>2. f[0] = Append(before, lines + 1)
  BY DEF Appended
<1>3. before \in Seq(Nat) /\ Len(before) = written /\ lines + 1 \in Nat /\ written \in Nat
  BY DEF LogsIInv, LogsTyped, Opened
<1>4. 0 \in DOMAIN files => before = files[0]
  BY DEF LogsIInv, Opened
<1>5. 0 \notin DOMAIN files => written = 0
  BY DEF LogsIInv, Opened
<1>6. /\ Append(before, lines + 1) \in Seq(Nat)
      /\ Len(Append(before, lines + 1)) = written + 1
      /\ Append(before, lines + 1)[written + 1] = lines + 1
      /\ \A i \in 1 .. written : Append(before, lines + 1)[i] = before[i]
  <2> HIDE DEF before
  <2> QED BY <1>3
<1> HIDE DEF before, f
<1>7. f[0] \in Seq(Nat) /\ Len(f[0]) = written + 1 /\ f[0][written + 1] = lines + 1
      /\ \A i \in 1 .. written : f[0][i] = before[i]
  BY <1>2, <1>6
<1>8. 0 \in DOMAIN files => written = Len(files[0]) /\ \A i \in 1 .. written : f[0][i] = files[0][i]
  BY <1>3, <1>4, <1>7
<1> QED BY <1>1, <1>5, <1>7, <1>8 DEF f

\* A line of the FileLogger.
LEMMA WrittenInv ==
  ASSUME LogsIInv, step \in {"idle", "flush"},
         NEW full \in BOOLEAN, full <=> written + 1 > SizeByFile /\ SizeByFile # 0,
         files' = Appended(lines + 1), lines' = lines + 1,
         written' = IF full THEN 0 ELSE written + 1, fresh' = full,
         step' = IF full THEN "delete" ELSE "flush",
         UNCHANGED <<missed, rotation, maxNum, crashes>>
  PROVE  LogsIInv'
<1> DEFINE f == files'
<1>1. /\ DOMAIN f = DOMAIN files \cup {0}
      /\ \A n \in DOMAIN files \ {0} : f[n] = files[n]
  BY AppendedFiles
<1>2. /\ f[0] \in Seq(Nat) /\ Len(f[0]) = written + 1 /\ f[0][written + 1] = lines + 1
      /\ DOMAIN f[0] = 1 .. written + 1
  BY AppendedFiles
<1>3. 0 \in DOMAIN files =>
        /\ written = Len(files[0]) /\ DOMAIN files[0] = 1 .. written
        /\ \A i \in 1 .. written : f[0][i] = files[0][i]
  BY AppendedFiles DEF LogsIInv, LogsTyped
<1>4. 0 \notin DOMAIN files => written = 0
  BY AppendedFiles
<1>5. /\ lines \in Nat /\ written \in Nat /\ crashes \in Nat /\ rotation \in Nat
      /\ SizeByFile \in Nat
  BY LogsAssumption DEF LogsIInv, LogsTyped
<1> HIDE DEF f
<1> USE <1>5
\* A line of 0.log is one of before, or the new one.
<1>6. ASSUME NEW i \in DOMAIN f[0]
      PROVE  \/ 0 \in DOMAIN files /\ i \in DOMAIN files[0] /\ f[0][i] = files[0][i]
             \/ i = written + 1 /\ f[0][i] = lines + 1
  <2>1. CASE i = written + 1
    BY <1>2, <2>1
  <2>2. CASE i # written + 1
    <3>1. i \in 1 .. written
      BY <1>2, <2>2
    <3>2. 0 \in DOMAIN files
      BY <3>1, <1>4
    <3> QED BY <3>1, <3>2, <1>3
  <2> QED BY <2>1, <2>2
\* The lines of before.
<1>7. \A n \in DOMAIN files : \A i \in DOMAIN files[n] :
        files[n][i] \in Nat /\ files[n][i] <= lines
  BY DEF LogsIInv, LogsTyped
<1>8. LogsTyped'
  <2>1. ASSUME NEW n \in DOMAIN f
        PROVE  f[n] \in Seq(Nat) /\ \A i \in DOMAIN f[n] : f[n][i] <= lines + 1
    <3>1. CASE n = 0
      BY <3>1, <1>2, <1>6, <1>7
    <3>2. CASE n # 0
      BY <3>2, <1>1, <1>7 DEF LogsIInv, LogsTyped
    <3> QED BY <3>1, <3>2
  <2> QED BY <2>1 DEF LogsIInv, LogsTyped, f
<1>9. Numbered'
  <2>1. IsFiniteSet(DOMAIN f) /\ DOMAIN f \subseteq Nat
    BY <1>1, FS_AddElement DEF LogsIInv, Numbered
  <2>2. rotation # 0 => \A n \in DOMAIN f : n < rotation
    BY <1>1 DEF LogsIInv, Numbered
  <2>3. \A n \in DOMAIN f : n # 0 => Full(f, n)
    BY <1>1 DEF LogsIInv, Numbered, Full
  <2> QED BY <2>1, <2>2, <2>3 DEF Numbered, Full, f
<1>10. Opened'
  BY <1>1, <1>2 DEF Opened, f
<1>11. Rotating'
  BY <1>1, <1>2 DEF Rotating, Full, f
<1>12. Spaced'
  <2>1. ASSUME NEW n \in DOMAIN f
        PROVE  Cardinality(Holes(DOMAIN f, n)) <= crashes
    <3>1. Holes(DOMAIN f, n) = Holes(DOMAIN files, n)
      BY <1>1 DEF Holes
    <3>2. CASE n \in DOMAIN files
      BY <3>1, <3>2 DEF LogsIInv, Spaced
    <3>3. CASE n = 0
      <4>1. Holes(DOMAIN f, n) = {}
        BY <3>3 DEF Holes
      <4> QED BY <4>1, FS_EmptySet
    <3> QED BY <3>2, <3>3, <1>1
  <2> QED BY <2>1 DEF Spaced, f
<1>13. Sorted(files)'
  <2>1. ASSUME NEW n \in DOMAIN f, NEW m \in DOMAIN f, n < m,
               NEW i \in DOMAIN f[n], NEW j \in DOMAIN f[m]
        PROVE  f[n][i] > f[m][j]
    <3>1. m \in DOMAIN files \ {0} /\ f[m] = files[m] /\ n \in Nat
      BY <2>1, <1>1 DEF LogsIInv, Numbered
    <3>2. CASE n = 0
      <4>1. CASE 0 \in DOMAIN files /\ i \in DOMAIN files[0] /\ f[0][i] = files[0][i]
        BY <4>1, <3>1, <3>2, <2>1 DEF LogsIInv, Sorted
      <4>2. CASE f[0][i] = lines + 1
        BY <4>2, <3>1, <3>2, <1>7
      <4> QED BY <4>1, <4>2, <1>6, <3>2
    <3>3. CASE n # 0
      <4>1. n \in DOMAIN files /\ f[n] = files[n]
        BY <3>3, <1>1
      <4> QED BY <4>1, <3>1, <2>1 DEF LogsIInv, Sorted
    <3> QED BY <3>2, <3>3
  <2>2. ASSUME NEW n \in DOMAIN f, NEW i \in DOMAIN f[n], NEW j \in DOMAIN f[n], i < j
        PROVE  f[n][i] < f[n][j]
    <3>1. CASE n = 0
      <4>1. i \in 1 .. written /\ j \in 1 .. written + 1
        BY <3>1, <2>2, <1>2
      <4>2. 0 \in DOMAIN files /\ i \in DOMAIN files[0] /\ f[0][i] = files[0][i]
        BY <4>1, <1>3, <1>4
      <4>3. CASE j = written + 1
        BY <4>2, <4>3, <3>1, <1>2, <1>7
      <4>4. CASE j # written + 1
        <5>1. j \in DOMAIN files[0] /\ f[0][j] = files[0][j]
          BY <4>1, <4>2, <4>4, <1>3
        <5> QED BY <5>1, <4>2, <3>1, <2>2 DEF LogsIInv, Sorted
      <4> QED BY <4>3, <4>4
    <3>2. CASE n # 0
      <4>1. n \in DOMAIN files /\ f[n] = files[n]
        BY <3>2, <1>1
      <4> QED BY <4>1, <2>2 DEF LogsIInv, Sorted
    <3> QED BY <3>1, <3>2
  <2> QED BY <2>1, <2>2 DEF Sorted, f
\* No line is lost.
<1>14. ASSUME NEW i
       PROVE  i \in OnDisk' <=> i \in OnDisk \/ i = lines + 1
  <2>1. i \in OnDisk' <=> \E n \in DOMAIN f : \E k \in DOMAIN f[n] : f[n][k] = i
    BY DEF OnDisk, Range, f
  <2>2. ASSUME NEW n \in DOMAIN files, NEW k \in DOMAIN files[n]
        PROVE  n \in DOMAIN f /\ k \in DOMAIN f[n] /\ f[n][k] = files[n][k]
    <3>1. CASE n = 0
      BY <3>1, <2>2, <1>1, <1>2, <1>3
    <3>2. CASE n # 0
      BY <3>2, <1>1
    <3> QED BY <3>1, <3>2
  <2>3. ASSUME NEW n \in DOMAIN f, NEW k \in DOMAIN f[n], f[n][k] = i
        PROVE  i \in OnDisk \/ i = lines + 1
    <3>1. CASE n = 0
      BY <3>1, <2>3, <1>6, KeptLine
    <3>2. CASE n # 0
      BY <3>2, <2>3, <1>1, KeptLine
    <3> QED BY <3>1, <3>2
  <2>4. 0 \in DOMAIN f /\ written + 1 \in DOMAIN f[0] /\ f[0][written + 1] = lines + 1
    BY <1>1, <1>2
  <2>5. i \in OnDisk => i \in OnDisk'
    BY <2>1, <2>2, KeptLine
  <2> QED BY <2>1, <2>3, <2>4, <2>5
<1>15. Lost' = Lost /\ \A i \in Lost : i \in Nat /\ i <= lines
  BY <1>14 DEF Lost
<1>16. \A i \in Lost', j \in OnDisk' : i < j
  BY <1>14, <1>15 DEF LogsIInv
<1>17. Limited'
  <2>1. Heavy(files) \subseteq Heavy(f)
    <3>1. ASSUME NEW n \in Heavy(files) PROVE n \in Heavy(f)
      <4>1. CASE n = 0
        BY <4>1, <1>1, <1>2, <1>3 DEF Heavy, Full
      <4>2. CASE n # 0
        BY <4>2, <1>1 DEF Heavy, Full
      <4> QED BY <4>1, <4>2
    <3> QED BY <3>1
  <2>2. IsFiniteSet(Heavy(f)) /\ Cardinality(Heavy(f)) \in Nat
    <3>1. IsFiniteSet(DOMAIN f)
      BY <1>9 DEF Numbered, f
    <3>2. Heavy(f) \subseteq DOMAIN f
      BY DEF Heavy
    <3> QED BY <3>1, <3>2, FS_Subset, FS_CardinalityType
  <2>3. Cardinality(Heavy(files)) <= Cardinality(Heavy(f)) /\ Cardinality(Heavy(files)) \in Nat
    BY <2>1, <2>2, FS_Subset, FS_CardinalityType
  <2>4. Heavy(files)' = Heavy(f)
    BY DEF f, Heavy, Full
  <2> QED BY <2>2, <2>3, <2>4, <1>15 DEF LogsIInv, Limited
<1> QED BY <1>8, <1>9, <1>10, <1>11, <1>12, <1>13, <1>16, <1>17 DEF LogsIInv

\* A line, to the FileLogger or without it.
LEMMA DispatchInv ==
  ASSUME LogsIInv, step \in {"idle", "flush"}, NEW loggers, NEW fails, Dispatch(loggers, fails)
  PROVE  LogsIInv'
<1> DEFINE full == written + 1 > SizeByFile /\ SizeByFile # 0
<1>1. lines' = lines + 1 /\ UNCHANGED <<rotation, maxNum, crashes>>
  BY DEF Dispatch
<1>2. CASE File \in loggers \ {fails}
  <2>1. /\ files' = Appended(lines + 1) /\ written' = IF full THEN 0 ELSE written + 1
        /\ fresh' = full /\ step' = (IF full THEN "delete" ELSE "flush") /\ missed' = missed
    BY <1>2 DEF Dispatch
  <2>2. full \in BOOLEAN /\ (full <=> written + 1 > SizeByFile /\ SizeByFile # 0)
    OBVIOUS
  <2> HIDE DEF full
  <2> QED BY <1>1, <2>1, <2>2, WrittenInv
<1>3. CASE File \notin loggers \ {fails}
  <2>1. missed' = missed \cup {lines + 1} /\ step' = "flush" /\ UNCHANGED disk
    BY <1>3 DEF Dispatch
  <2> HIDE DEF full
  <2>2. lines \in Nat
    BY DEF LogsIInv, LogsTyped
  <2>3. Opened'
    BY <2>1 DEF LogsIInv, Opened, disk
  <2>4. LogsTyped'
    BY <1>1, <2>1 DEF LogsIInv, LogsTyped, disk
  <2>5. Lost' \subseteq Lost
    BY <1>1, <2>1, <2>2 DEF Lost, OnDisk, disk
  <2> QED BY <1>1, <2>1, <2>2, <2>3, <2>4, <2>5, SameFiles DEF disk, LogsIInv, LogsTyped
<1> QED BY <1>2, <1>3

-----------------------------------------------------------------------------
(* A rotation.                                                             *)

\* The files from 0.log to a number are as many as this number, less its holes.
LEMMA FilesBelow ==
  ASSUME NEW S, IsFiniteSet(S), 0 \in S, NEW n \in Nat \ {0}, NEW T, IsFiniteSet(T),
         \A m \in S : m < n => m \in T, S \subseteq Nat
  PROVE  Cardinality(T) + Cardinality(Holes(S, n)) >= n
<1> DEFINE B == (1 .. n - 1) \ Holes(S, n)
<1>1. IsFiniteSet(1 .. n - 1) /\ Cardinality(1 .. n - 1) = n - 1
  BY FS_Interval
<1>2. (1 .. n - 1) \cap Holes(S, n) = Holes(S, n)
  BY DEF Holes
<1>3. IsFiniteSet(B) /\ Cardinality(B) = (n - 1) - Cardinality(Holes(S, n))
  <2> DEFINE I == 1 .. n - 1
             H == Holes(S, n)
  <2>1. IsFiniteSet(I) /\ Cardinality(I) = n - 1 /\ I \cap H = H /\ B = I \ H
    BY <1>1, <1>2
  <2> HIDE DEF I, H, B
  <2>2. IsFiniteSet(I \ H) /\ Cardinality(I \ H) = Cardinality(I) - Cardinality(I \cap H)
    BY <2>1, FS_Difference
  <2> QED BY <2>1, <2>2 DEF H
<1>4. 0 \notin B /\ B \cup {0} \subseteq T
  BY DEF Holes
<1> HIDE DEF B
<1>5. Cardinality(B \cup {0}) = Cardinality(B) + 1
  BY <1>3, <1>4, FS_AddElement
<1>6. Cardinality(B \cup {0}) <= Cardinality(T)
  BY <1>4, FS_Subset
<1>7. Cardinality(B) \in Nat /\ Cardinality(T) \in Nat /\ Cardinality(Holes(S, n)) \in Nat
  BY <1>3, FS_CardinalityType, HolesFinite
<1> QED BY <1>3, <1>5, <1>6, <1>7

\* The file deleted is the oldest one, and the others reach the limit.
LEMMA LogsDeleteInv ==
  ASSUME LogsIInv, NEW n \in DOMAIN files, Delete(n)
  PROVE  LogsIInv'
<1> DEFINE f == files'
<1>1. /\ step = "delete" /\ UNCHANGED <<written, fresh, step, maxNum>>
      /\ UNCHANGED <<rotation, lines, missed, crashes>>
      /\ n >= rotation - 1 /\ rotation # 0
  BY DEF Delete, Old, book
<1>2. DOMAIN f = DOMAIN files \ {n} /\ \A m \in DOMAIN f : f[m] = files[m]
  BY DEF Delete
<1>3. /\ DOMAIN files \subseteq Nat /\ IsFiniteSet(DOMAIN files)
      /\ \A m \in DOMAIN files : m < rotation
      /\ rotation \in Nat /\ n \in Nat
      /\ written \in Nat /\ lines \in Nat /\ crashes \in Nat /\ SizeByFile \in Nat
  BY <1>1, LogsAssumption DEF LogsIInv, Numbered, LogsTyped
\* It is the oldest file.
<1>4. n = rotation - 1 /\ \A m \in DOMAIN f : m \in Nat /\ m < n
  BY <1>1, <1>2, <1>3
<1> HIDE DEF f
<1>5. LogsTyped'
  <2>1. \A m \in DOMAIN f : f[m] \in Seq(Nat) /\ \A i \in DOMAIN f[m] : f[m][i] <= lines
    BY <1>2 DEF LogsIInv, LogsTyped
  <2> QED BY <1>1, <2>1 DEF f, LogsIInv, LogsTyped
<1>6. Numbered'
  <2>1. IsFiniteSet(DOMAIN f)
    BY <1>2, <1>3, FS_RemoveElement
  <2>2. \A m \in DOMAIN f : m # 0 => Full(f, m)
    BY <1>2 DEF LogsIInv, Numbered, Full
  <2> QED BY <1>1, <1>2, <1>3, <2>1, <2>2 DEF f, Numbered, Full
<1>7. Opened'
  BY <1>1 DEF LogsIInv, Opened
<1>8. rotation = 1 \/ (0 \in DOMAIN f /\ Full(f, 0))
  <2>1. SUFFICES ASSUME rotation # 1 PROVE 0 \in DOMAIN f /\ Full(f, 0)
    OBVIOUS
  <2>2. 0 \in DOMAIN files /\ Full(files, 0)
    BY <1>1, <2>1 DEF LogsIInv, Rotating
  <2>3. n # 0
    BY <1>3, <1>4, <2>1
  <2> QED BY <1>2, <2>2, <2>3 DEF Full
<1>9. Rotating'
  BY <1>1, <1>8 DEF Rotating, f, Full
<1>10. Spaced'
  <2>1. ASSUME NEW m \in DOMAIN f PROVE Cardinality(Holes(DOMAIN f, m)) <= crashes
    <3>1. Holes(DOMAIN f, m) = Holes(DOMAIN files, m)
      BY <1>2, <1>3, <1>4 DEF Holes
    <3> QED BY <3>1, <1>1, <1>2, <1>3 DEF LogsIInv, Spaced
  <2> QED BY <1>1, <1>3, <2>1 DEF Spaced, f
<1>11. Sorted(files)'
  <2>1. Sorted(f)
    BY <1>2 DEF LogsIInv, Sorted
  <2> QED BY <2>1 DEF Sorted, f
\* Its lines are the oldest ones.
<1>12. ASSUME NEW i
       PROVE  i \in OnDisk' <=> \E m \in DOMAIN f : \E k \in DOMAIN files[m] : files[m][k] = i
  BY <1>2 DEF OnDisk, Range, f
<1>13. \A i \in OnDisk' : i \in OnDisk
  BY <1>2, <1>12, KeptLine
<1>14. ASSUME NEW i \in Lost', NEW j \in OnDisk' PROVE i < j
  <2>1. CASE i \in Lost
    BY <2>1, <1>13 DEF LogsIInv
  <2>2. CASE i \notin Lost
    <3>1. i \in OnDisk /\ i \notin OnDisk'
      BY <2>2, <1>1 DEF Lost
    <3>2. PICK m \in DOMAIN files : \E k \in DOMAIN files[m] : files[m][k] = i
      BY <3>1, KeptLine
    <3>3. m = n
      BY <3>1, <3>2, <1>2, <1>12
    <3>4. PICK l \in DOMAIN f : \E k \in DOMAIN files[l] : files[l][k] = j
      BY <1>12
    <3>5. l \in DOMAIN files /\ l < n
      BY <1>2, <1>4
    <3>6. \A a \in DOMAIN files[l], b \in DOMAIN files[n] : files[l][a] > files[n][b]
      BY <3>5 DEF LogsIInv, Sorted
    <3>7. \A m1 \in DOMAIN files : \A k \in DOMAIN files[m1] : files[m1][k] \in Nat
      BY DEF LogsIInv, LogsTyped
    <3> QED BY <3>2, <3>3, <3>4, <3>5, <3>6, <3>7
  <2> QED BY <2>1, <2>2
<1>15. Limited'
  <2>1. Heavy(f) \subseteq DOMAIN f /\ IsFiniteSet(DOMAIN f)
    BY <1>6 DEF Heavy, Numbered, f
  <2>2. IsFiniteSet(Heavy(f)) /\ Cardinality(Heavy(f)) \in Nat
    BY <2>1, FS_Subset, FS_CardinalityType
  <2>3. CASE rotation = 1
    BY <2>2, <2>3, <1>1, <1>3 DEF Limited, Heavy, Full, f
  <2>4. CASE rotation # 1
    <3>1. n \in Nat \ {0} /\ 0 \in DOMAIN files
      BY <1>1, <1>3, <1>4, <2>4 DEF LogsIInv, Rotating
    <3>2. \A m \in DOMAIN files : m < n => m \in Heavy(f)
      <4>1. ASSUME NEW m \in DOMAIN files, m < n PROVE m \in DOMAIN f /\ Full(f, m)
        <5>1. m \in DOMAIN f
          BY <4>1, <1>2, <1>3
        <5>2. Full(f, m)
          BY <5>1, <1>6, <1>8, <2>4 DEF Numbered, f, Full
        <5> QED BY <5>1, <5>2
      <4> QED BY <4>1 DEF Heavy
    <3>3. Cardinality(Heavy(f)) + Cardinality(Holes(DOMAIN files, n)) >= n
      BY <3>1, <3>2, <2>2, <1>3, FilesBelow
    <3>4. Cardinality(Holes(DOMAIN files, n)) <= crashes
          /\ Cardinality(Holes(DOMAIN files, n)) \in Nat
      BY <1>1, <1>3, HolesFinite DEF LogsIInv, Spaced
    <3>5. Cardinality(Heavy(f)) + crashes + 1 >= rotation
      BY <3>3, <3>4, <2>2, <1>3, <1>4
    <3> QED BY <3>5, <1>1 DEF Limited, Heavy, Full, f
  <2> QED BY <2>3, <2>4
<1> QED BY <1>5, <1>6, <1>7, <1>9, <1>10, <1>11, <1>14, <1>15 DEF LogsIInv

\* The renames start from the last of the files which stay.
LEMMA DeleteEndInv ==
  ASSUME LogsIInv, DeleteEnd
  PROVE  LogsIInv'
<1> DEFINE S == DOMAIN files \cup {0}
<1>1. /\ step = "delete" /\ step' = "rename" /\ maxNum' = Max(S)
      /\ UNCHANGED <<files, written, fresh, rotation, lines, missed, crashes>>
  BY DEF DeleteEnd, disk, book
<1>2. \A n \in DOMAIN files : rotation # 0 => n < rotation - 1
  <2>1. \A n \in DOMAIN files : rotation = 0 \/ ~(n >= rotation - 1)
    BY DEF DeleteEnd, Old
  <2>2. DOMAIN files \subseteq Nat /\ rotation \in Nat
    BY DEF LogsIInv, Numbered, LogsTyped
  <2> QED BY <2>1, <2>2
<1>3. Max(S) \in S /\ (\A n \in S : n <= Max(S)) /\ S \subseteq Nat
  <2>1. S \subseteq Int /\ S \subseteq Nat /\ IsFiniteSet(S) /\ S # {}
    BY FS_AddElement DEF LogsIInv, Numbered
  <2> HIDE DEF S
  <2> QED BY <2>1, MinMax
<1> DEFINE max == Max(S)
<1>4. /\ max \in Nat /\ \A n \in DOMAIN files : n \in Nat /\ n <= max
      /\ max \in DOMAIN files \/ max = 0
  BY <1>3
<1> HIDE DEF max
<1>5. LogsTyped'
  BY <1>1, <1>4 DEF LogsIInv, LogsTyped, max
<1>6. Numbered' /\ Sorted(files)'
  BY <1>1 DEF LogsIInv, Numbered, Sorted, Full
<1>7. Opened'
  BY <1>1 DEF LogsIInv, Opened
<1>8. Rotating'
  <2>1. max + 1 \notin DOMAIN files
    BY <1>4
  <2>2. DOMAIN files # {} => 0 \in DOMAIN files /\ Full(files, 0)
                            /\ (rotation = 0 \/ max + 2 <= rotation)
    <3>1. SUFFICES ASSUME DOMAIN files # {}
                   PROVE  0 \in DOMAIN files /\ Full(files, 0)
                          /\ (rotation = 0 \/ max + 2 <= rotation)
      OBVIOUS
    <3>2. rotation # 1
      BY <3>1, <1>2, <1>4
    <3>3. 0 \in DOMAIN files /\ Full(files, 0)
      BY <3>2, <1>1 DEF LogsIInv, Rotating
    <3>4. rotation = 0 \/ max < rotation - 1
      BY <3>3, <1>2, <1>4
    <3> QED BY <3>3, <3>4, <1>4 DEF LogsIInv, LogsTyped
  <2> QED BY <1>1, <2>1, <2>2 DEF Rotating, Full, max
<1>9. Spaced'
  <2>1. crashes \in Nat
    BY DEF LogsIInv, LogsTyped
  <2>2. ASSUME NEW n \in DOMAIN files PROVE Cardinality(Holes(DOMAIN files, n)) <= crashes
    BY <1>1, <2>1 DEF LogsIInv, Spaced
  <2>3. \A n \in DOMAIN files : ~(n > max)
    BY <1>4
  <2> QED BY <1>1, <2>1, <2>2, <2>3 DEF Spaced, max
<1>10. OnDisk' = OnDisk /\ Lost' = Lost
  BY <1>1 DEF OnDisk, Lost
<1>11. Limited'
  BY <1>1, <1>10 DEF LogsIInv, Limited, Heavy, Full
<1>12. \A i \in Lost', j \in OnDisk' : i < j
  BY <1>10 DEF LogsIInv
<1> QED BY <1>5, <1>6, <1>7, <1>8, <1>9, <1>11, <1>12 DEF LogsIInv

\* What a rename does beyond the files.
LEMMA RenameRest ==
  ASSUME LogsIInv, Rename
  PROVE  /\ step = "rename" /\ files' = Renamed(maxNum)
         /\ UNCHANGED <<written, fresh, rotation, lines, missed, crashes>>
         /\ maxNum = 0 => maxNum' = 0 /\ step' = "flush"
         /\ maxNum # 0 => maxNum' = maxNum - 1 /\ step' = "rename"
         /\ maxNum \in Nat /\ crashes \in Nat /\ rotation \in Nat /\ lines \in Nat
         /\ DOMAIN files \subseteq Nat /\ IsFiniteSet(DOMAIN files)
         /\ maxNum + 1 \notin DOMAIN files
         /\ \/ DOMAIN files = {}
            \/ 0 \in DOMAIN files /\ Full(files, 0) /\ (rotation = 0 \/ maxNum + 2 <= rotation)
BY DEF Rename, book, LogsIInv, LogsTyped, Numbered, Rotating

\* No file has the number.
LEMMA RenameNothing ==
  ASSUME LogsIInv, Rename, maxNum \notin DOMAIN files
  PROVE  LogsIInv'
<1>1. files' = files
  BY RenameRest DEF Renamed
<1> USE RenameRest, <1>1
<1>2. LogsTyped'
  BY DEF LogsIInv, LogsTyped
<1>3. Numbered' /\ Sorted(files)'
  BY DEF LogsIInv, Numbered, Sorted, Full
<1>4. Opened'
  BY DEF LogsIInv, Opened
<1>5. Rotating'
  BY DEF Rotating, Full
<1>6. Spaced'
  <2>1. CASE maxNum = 0
    BY <2>1 DEF Spaced
  <2>2. CASE maxNum # 0
    <3>1. ASSUME NEW n \in DOMAIN files
          PROVE  Cardinality(Holes(DOMAIN files, n)) <= crashes + IF n > maxNum - 1 THEN 1 ELSE 0
      <4>1. n \in Nat /\ n # maxNum
        OBVIOUS
      <4>2. Cardinality(Holes(DOMAIN files, n)) <= crashes + IF n > maxNum THEN 1 ELSE 0
        BY DEF LogsIInv, Spaced
      <4> QED BY <4>1, <4>2
    <3> QED BY <2>2, <3>1 DEF Spaced
  <2> QED BY <2>1, <2>2
<1>7. OnDisk' = OnDisk /\ Lost' = Lost /\ Heavy(files)' = Heavy(files)
  BY DEF OnDisk, Lost, Heavy, Full
<1>8. Limited'
  BY <1>7 DEF LogsIInv, Limited
<1>9. \A i \in Lost', j \in OnDisk' : i < j
  BY <1>7 DEF LogsIInv
<1> QED BY <1>2, <1>3, <1>4, <1>5, <1>6, <1>8, <1>9 DEF LogsIInv

\* A file takes the next number, which is free.
LEMMA RenameFile ==
  ASSUME LogsIInv, Rename, maxNum \in DOMAIN files
  PROVE  LogsIInv'
<1> DEFINE f == files'
           m == maxNum
           was(k) == IF k = m + 1 THEN m ELSE k
<1>1. DOMAIN f = (DOMAIN files \ {m}) \cup {m + 1}
      /\ \A k \in DOMAIN f : f[k] = IF k = m + 1 THEN files[m] ELSE files[k]
  BY RenameRest DEF Renamed
<1>2. \A k \in DOMAIN f : was(k) \in DOMAIN files /\ f[k] = files[was(k)] /\ k \in Nat
  BY <1>1, RenameRest
<1>3. ASSUME NEW k \in DOMAIN files
      PROVE  \E l \in DOMAIN f : was(l) = k
  <2>1. CASE k = m
    BY <2>1, <1>1
  <2>2. CASE k # m
    BY <2>2, <1>1, RenameRest
  <2> QED BY <2>1, <2>2
<1>4. /\ step = "rename" /\ m \in Nat /\ m + 1 \notin DOMAIN files
      /\ UNCHANGED <<written, fresh, rotation, lines, missed, crashes>>
      /\ m = 0 => maxNum' = 0 /\ step' = "flush"
      /\ m # 0 => maxNum' = m - 1 /\ step' = "rename"
      /\ crashes \in Nat /\ rotation \in Nat /\ lines \in Nat
      /\ DOMAIN files \subseteq Nat /\ IsFiniteSet(DOMAIN files)
      /\ 0 \in DOMAIN files /\ Full(files, 0) /\ (rotation = 0 \/ m + 2 <= rotation)
  BY RenameRest
<1> HIDE DEF f
<1> USE <1>4
<1>5. LogsTyped'
  <2>1. maxNum' \in Nat /\ step' \in {"idle", "delete", "rename", "flush"}
    <3> HIDE DEF was
    <3> QED BY DEF m
  <2>2. \A k \in DOMAIN f : f[k] \in Seq(Nat) /\ \A i \in DOMAIN f[k] : f[k][i] <= lines
    BY <1>2 DEF LogsIInv, LogsTyped
  <2> QED BY <2>1, <2>2 DEF LogsIInv, LogsTyped, f
\* All the files but 0.log are full, and this one is full as well.
<1>6. \A k \in DOMAIN files : Full(files, k)
  BY DEF LogsIInv, Numbered
<1>7. \A k \in DOMAIN f : Full(f, k)
  BY <1>2, <1>6 DEF Full
<1>8. IsFiniteSet(DOMAIN f) /\ Cardinality(DOMAIN f) = Cardinality(DOMAIN files)
  <2>1. /\ IsFiniteSet(DOMAIN files \ {m})
        /\ Cardinality(DOMAIN files \ {m}) = Cardinality(DOMAIN files) - 1
    BY FS_RemoveElement
  <2> DEFINE R == DOMAIN files \ {m}
  <2>2. m + 1 \notin R /\ DOMAIN f = R \cup {m + 1}
    BY <1>1
  <2> HIDE DEF R
  <2>3. IsFiniteSet(R \cup {m + 1}) /\ Cardinality(R \cup {m + 1}) = Cardinality(R) + 1
    BY <2>1, <2>2, FS_AddElement DEF R
  <2>4. Cardinality(DOMAIN files) \in Nat
    BY FS_CardinalityType
  <2> QED BY <2>1, <2>2, <2>3, <2>4 DEF R
<1>9. Numbered'
  <2>1. rotation # 0 => \A k \in DOMAIN f : k < rotation
    BY <1>1, <1>2 DEF LogsIInv, Numbered
  <2> QED BY <1>2, <1>7, <1>8, <2>1 DEF Numbered, Full, f
<1>10. m = 0 => 0 \notin DOMAIN f
  BY <1>1
<1>11. m # 0 => 0 \in DOMAIN f
  BY <1>1
<1>12. Opened'
  BY <1>10 DEF LogsIInv, Opened, f
<1>13. Rotating'
  <2>1. CASE m = 0
    BY <2>1 DEF Rotating
  <2>2. CASE m # 0
    <3>1. (m - 1) + 1 \notin DOMAIN f /\ 0 \in DOMAIN f /\ Full(f, 0)
          /\ (rotation = 0 \/ (m - 1) + 2 <= rotation)
      BY <2>2, <1>1, <1>7, <1>11
    <3> QED BY <2>2, <3>1 DEF Rotating, Full, f
  <2> QED BY <2>1, <2>2
<1>14. Spaced'
  <2> DEFINE H(k) == Holes(DOMAIN files, k)
  <2>1. \A k \in DOMAIN files : /\ IsFiniteSet(H(k)) /\ Cardinality(H(k)) \in Nat
                                /\ Cardinality(H(k)) <= crashes + IF k > m THEN 1 ELSE 0
    BY HolesFinite DEF LogsIInv, Spaced
  <2>2. ASSUME NEW k \in DOMAIN f
        PROVE  Cardinality(Holes(DOMAIN f, k)) <= crashes + IF m # 0 /\ k > m - 1 THEN 1 ELSE 0
    <3>1. CASE k < m
      <4>1. Holes(DOMAIN f, k) = H(k) /\ k \in DOMAIN files
        BY <3>1, <1>1, <1>2 DEF Holes
      <4> QED BY <4>1, <3>1, <2>1
    <3>2. CASE k = m + 1
      <4>1. CASE m = 0
        <5>1. Holes(DOMAIN f, k) = {}
          BY <4>1, <3>2 DEF Holes
        <5> QED BY <5>1, <4>1, FS_EmptySet
      <4>2. CASE m # 0
        <5>1. Holes(DOMAIN f, k) = H(m) \cup {m} /\ m \notin H(m)
          BY <4>2, <3>2, <1>1 DEF Holes
        <5>2. Cardinality(H(m)) <= crashes /\ Cardinality(H(m)) \in Nat /\ IsFiniteSet(H(m))
          BY <2>1
        <5> HIDE DEF H
        <5> DEFINE R == H(m)
        <5>3. m \notin R /\ IsFiniteSet(R) /\ Cardinality(R) <= crashes /\ Cardinality(R) \in Nat
          BY <5>1, <5>2
        <5> HIDE DEF R
        <5>4. Cardinality(R \cup {m}) = Cardinality(R) + 1
          BY <5>3, FS_AddElement
        <5>5. m # 0 /\ k > m - 1 /\ Holes(DOMAIN f, k) = R \cup {m}
          BY <5>1, <4>2, <3>2 DEF R
        <5> DEFINE Q == R \cup {m}
        <5>6. Holes(DOMAIN f, k) = Q /\ Cardinality(Q) = Cardinality(R) + 1
          BY <5>4, <5>5
        <5> HIDE DEF Q
        <5>7. Cardinality(Holes(DOMAIN f, k)) <= crashes + 1
          BY <5>3, <5>6
        <5> QED BY <5>5, <5>7
      <4> QED BY <4>1, <4>2
    <3>3. CASE k > m + 1
      <4>1. k \in DOMAIN files /\ m + 1 \in H(k)
        BY <3>3, <1>1, <1>2 DEF Holes
      <4>2. Cardinality(H(k)) <= crashes + 1 /\ Cardinality(H(k)) \in Nat /\ IsFiniteSet(H(k))
        BY <4>1, <3>3, <2>1
      <4>3. CASE m = 0
        <5>1. Holes(DOMAIN f, k) = H(k) \ {m + 1}
          BY <4>3, <3>3, <1>1, <1>2 DEF Holes
        <5> HIDE DEF H
        <5>2. Cardinality(H(k) \ {m + 1}) = Cardinality(H(k)) - 1
          BY <4>1, <4>2, FS_RemoveElement
        <5> QED BY <5>1, <5>2, <4>2, <4>3
      <4>4. CASE m # 0
        <5>1. Holes(DOMAIN f, k) = (H(k) \ {m + 1}) \cup {m} /\ m \notin H(k) \ {m + 1}
          BY <4>4, <3>3, <1>1, <1>2 DEF Holes
        <5> HIDE DEF H
        <5> DEFINE R == H(k) \ {m + 1}
        <5>2. IsFiniteSet(R) /\ Cardinality(R) = Cardinality(H(k)) - 1
          BY <4>1, <4>2, FS_RemoveElement
        <5>3. m \notin R /\ Holes(DOMAIN f, k) = R \cup {m}
          BY <5>1
        <5> HIDE DEF R
        <5>4. Cardinality(R \cup {m}) = Cardinality(R) + 1
          BY <5>2, <5>3, FS_AddElement
        <5>5. m # 0 /\ k > m - 1
          BY <4>4, <3>3, <1>2
        <5> DEFINE Q == R \cup {m}
        <5>6. Holes(DOMAIN f, k) = Q /\ Cardinality(Q) = Cardinality(R) + 1
          BY <5>3, <5>4
        <5> HIDE DEF Q
        <5>7. Cardinality(Holes(DOMAIN f, k)) <= crashes + 1
          BY <5>2, <5>6, <4>2
        <5> QED BY <5>5, <5>7
      <4> QED BY <4>3, <4>4
    <3>4. k < m \/ k = m + 1 \/ k > m + 1
      BY <1>1, <1>2
    <3> QED BY <3>1, <3>2, <3>3, <3>4
  <2> HIDE DEF H, was
  <2> QED BY <2>2 DEF Spaced, f
<1>15. Sorted(files)'
  <2>1. ASSUME NEW k \in DOMAIN f, NEW l \in DOMAIN f, k < l
        PROVE  was(k) < was(l) /\ was(k) \in DOMAIN files /\ was(l) \in DOMAIN files
    BY <2>1, <1>1, <1>2
  <2> HIDE DEF was
  <2>2. Sorted(f)
    BY <2>1, <1>2 DEF LogsIInv, Sorted
  <2> QED BY <2>2 DEF Sorted, f
<1>16. OnDisk' = OnDisk
  <2>1. OnDisk' = UNION {Range(f[k]) : k \in DOMAIN f}
    BY DEF OnDisk, f
  <2> HIDE DEF was
  <2> QED BY <2>1, <1>2, <1>3 DEF OnDisk
<1>17. Lost' = Lost
  BY <1>16 DEF Lost
<1>18. Limited'
  <2>1. Heavy(files) = DOMAIN files /\ Heavy(files)' = DOMAIN f
    BY <1>6, <1>7 DEF Heavy, Full, f
  <2> HIDE DEF was
  <2> QED BY <2>1, <1>8, <1>17 DEF LogsIInv, Limited
<1>19. \A i \in Lost', j \in OnDisk' : i < j
  BY <1>16, <1>17 DEF LogsIInv
<1> HIDE DEF was, m
<1> QED BY <1>5, <1>9, <1>12, <1>13, <1>14, <1>15, <1>18, <1>19 DEF LogsIInv

-----------------------------------------------------------------------------
\* The rotation loses the oldest lines only, for the sake of the limit, and the files tell
\* the others in their order, wherever the process has died: FileLogger::manage().
THEOREM LogsAlwaysKept == LogsInit /\ [][LogsNext]_logVars => []LogsKept
<1>1. LogsInit => LogsIInv
  BY LogsInitInv
<1>2. LogsIInv /\ [LogsNext]_logVars => LogsIInv'
  <2> SUFFICES ASSUME LogsIInv, [LogsNext]_logVars PROVE LogsIInv'
    OBVIOUS
  <2>1. ASSUME NEW fails, Log(fails) PROVE LogsIInv'
    BY <2>1, DispatchInv DEF Log
  <2>2. ASSUME NEW fails, Flush(fails) PROVE LogsIInv'
    BY <2>2, DispatchInv DEF Flush
  <2>3. ASSUME NEW n \in DOMAIN files, Delete(n) PROVE LogsIInv'
    BY <2>3, LogsDeleteInv
  <2>4. CASE FlushEnd
    BY <2>4, FlushEndInv
  <2>5. CASE DeleteEnd
    BY <2>5, DeleteEndInv
  <2>6. CASE Rename
    BY <2>6, RenameNothing, RenameFile
  <2>7. CASE Crash
    BY <2>7, LogsCrashInv
  <2>8. CASE UNCHANGED logVars
    BY <2>8 DEF logVars, disk, book, LogsIInv, LogsTyped, Numbered, Opened, Rotating, Spaced,
                Sorted, Limited, Lost, OnDisk, Heavy, Full
  <2> QED BY <2>1, <2>2, <2>3, <2>4, <2>5, <2>6, <2>7, <2>8 DEF LogsNext
<1>3. LogsIInv => LogsKept
  BY LogsIInvKept
<1> QED BY <1>1, <1>2, <1>3, PTL
=============================================================================
