------------------------------ MODULE Parameters ------------------------------
(***************************************************************************)
(* Parameters (Util/Parameters.h, Parameters.cpp) and an observer, which   *)
(* keeps a copy of them from the events onChange and onClear: what the     *)
(* persistence of a server does.  A prefix stands for the range of keys    *)
(* between it and the prefix with its last character plus one.              *)
(***************************************************************************)
EXTENDS Naturals, Functions

CONSTANTS
  Objects,  \* Parameters objects
  Keys, Values,
  Ranges    \* the sets of keys that a prefix selects

VARIABLES
  params,  \* *_pMap, empty when it is null
  mirror,  \* the copy of the observer
  untold   \* keys whose erasure had no event

paramVars == <<params, mirror, untold>>

\* new @@ old of TLC, which tlapm does not define.
Over(new, old) ==
  [k \in DOMAIN new \cup DOMAIN old |-> IF k \in DOMAIN new THEN new[k] ELSE old[k]]

Put(map, k, v) == Over([l \in {k} |-> v], map)
Without(map, keys) == Restrict(map, DOMAIN map \ keys)

ParametersInit ==
  /\ params = [o \in Objects |-> <<>>] /\ mirror = [o \in Objects |-> <<>>]
  /\ untold = [o \in Objects |-> {}]

\* onParamChange(key, value), with a null value for an erasure, and onParamClear().
Told(o, map, keys) ==
  /\ mirror' = [mirror EXCEPT ![o] = map]
  /\ untold' = [untold EXCEPT ![o] = @ \cap keys]
OnChange(o, k, v) == Told(o, Put(mirror[o], k, v), Keys \ {k})
OnErase(o, keys) == Told(o, Without(mirror[o], keys), Keys \ keys)
OnClear(o) == Told(o, <<>>, {})
NoEvent == UNCHANGED <<mirror, untold>>

\* emplace(): an event for a new key or a new value.
Emplace(o, k, v) ==
  /\ params' = [params EXCEPT ![o] = Put(@, k, v)]
  /\ IF k \in DOMAIN params[o] /\ params[o][k] = v THEN NoEvent ELSE OnChange(o, k, v)

\* Mutant of Erase: no event for the erasures.
EraseSilently(o, k) ==
  /\ k \in DOMAIN params[o]
  /\ params' = [params EXCEPT ![o] = Without(@, {k})]
  /\ IF DOMAIN params[o] = {k}
     THEN UNCHANGED mirror /\ untold' = [untold EXCEPT ![o] = @ \cup {k}]
     ELSE NoEvent

\* erase(key): clear() after the last one, which returns for want of entries before
\* its event.
Erase(o, k) ==
  /\ k \in DOMAIN params[o]
  /\ params' = [params EXCEPT ![o] = Without(@, {k})]
  /\ IF DOMAIN params[o] = {k}
     THEN UNCHANGED mirror /\ untold' = [untold EXCEPT ![o] = @ \cup {k}]
     ELSE OnErase(o, {k})

\* clear(prefix) and erase(first, last): one event for all the entries, or one for each.
Clear(o, keys) ==
  /\ params[o] # <<>>
  /\ params' = [params EXCEPT ![o] = Without(@, keys)]
  /\ IF DOMAIN params[o] \subseteq keys THEN OnClear(o)
     ELSE OnErase(o, keys \cap DOMAIN params[o])

\* setParams(): clear(), which tells nothing of an empty map, then an event for each entry.
Copied(o, map) ==
  /\ mirror' = [mirror EXCEPT ![o] = Over(map, IF params[o] = <<>> THEN @ ELSE <<>>)]
  /\ untold' = [untold EXCEPT ![o] = IF params[o] = <<>> THEN @ \ DOMAIN map ELSE {}]

Copy(o, other) ==
  /\ o # other
  /\ params' = [params EXCEPT ![o] = params[other]]
  /\ Copied(o, params[other])

\* setParams(Parameters&&): the other map is taken and onParamClear() tells its observer.
Move(o, other) ==
  /\ o # other
  /\ params' = [params EXCEPT ![o] = params[other], ![other] = <<>>]
  /\ IF params[other] = <<>> THEN Copied(o, <<>>)
     ELSE LET cleared == params[o] = <<>> IN
          /\ mirror' = [mirror EXCEPT ![other] = <<>>,
                          ![o] = Over(params[other], IF cleared THEN @ ELSE <<>>)]
          /\ untold' = [untold EXCEPT ![other] = {},
                          ![o] = IF cleared THEN @ \ DOMAIN params[other] ELSE {}]

ParametersNext ==
  \E o \in Objects :
    \/ \E k \in Keys, v \in Values : Emplace(o, k, v)
    \/ \E k \in Keys : Erase(o, k)
    \/ \E keys \in Ranges \cup {Keys} : Clear(o, keys)
    \/ \E other \in Objects : Copy(o, other) \/ Move(o, other)

-----------------------------------------------------------------------------
(* Correctness *)

\* An observer of the events has the parameters, after any sequence of calls, but for
\* the keys erased as the last ones by erase(key).
ObserversFollow ==
  \A o \in Objects :
    /\ DOMAIN mirror[o] = DOMAIN params[o] \cup untold[o]
    /\ \A k \in DOMAIN params[o] : mirror[o][k] = params[o][k]
    /\ untold[o] \cap DOMAIN params[o] = {}
=============================================================================
