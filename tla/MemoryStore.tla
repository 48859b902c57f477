---------------------------- MODULE MemoryStore ----------------------------
(***************************************************************************)
(* What the pose graph memory promises the brains that use it: one map of  *)
(* places per user, a copy of it that survives a restart, and named states *)
(* a user can save the copy to and get it back from.  Every operation is   *)
(* one step.  As long as nothing fails the copy is the map itself; a       *)
(* failure costs the acting user what was being written, the other users   *)
(* at most what had not been kept, and no other saved state anything.      *)
(***************************************************************************)
EXTENDS Integers, Sequences, SequencesExt

CONSTANTS Users, Names, Places, MaxNodes, Absent

VARIABLES view,    \* view[u]: the places of u's map, oldest first
          kept,    \* kept[u]: the copy a restart would read; Absent: none
          shelf,   \* shelf[s]: a saved state, [owner, map], or Absent
          faults   \* the failures so far

store == <<view, kept, shelf, faults>>

Read(map) == IF map = Absent THEN <<>> ELSE map

\* The maps a pose image may turn map m into.
Shrunk(m) == {RemoveAt(m, i) : i \in DOMAIN m}
Grown(m)  == {n \in {Append(h, p) : h \in {m} \cup Shrunk(m), p \in Places} :
                 Len(n) <= MaxNodes}

Init == /\ view = [u \in Users |-> <<>>]
        /\ kept = [u \in Users |-> Absent]
        /\ shelf = [s \in Names |-> Absent]
        /\ faults = 0

Holds(u, map) == /\ view' = [view EXCEPT ![u] = map]
                 /\ kept' = [kept EXCEPT ![u] = map]
                 /\ UNCHANGED <<shelf, faults>>

Remember(u) == \E map \in Grown(view[u]) : Holds(u, map)

Forget(u) == Holds(u, <<>>)

Shelve(u, s) == /\ shelf' = [shelf EXCEPT ![s] = [owner |-> u, map |-> kept[u]]]
                /\ UNCHANGED <<view, kept, faults>>

\* A state saved by another user, or before there was anything to keep,
\* changes nothing.
Unshelve(u, s) == /\ shelf[s] # Absent
                  /\ shelf[s].owner = u
                  /\ shelf[s].map # Absent
                  /\ Holds(u, shelf[s].map)

\* What may be left of u's map, and of the state s, after a failure while u
\* was changing them.
Remains(u, s) == {view[u], Read(kept[u]), <<>>} \cup Shrunk(view[u]) \cup Grown(view[u])
                 \cup (IF shelf[s] = Absent THEN {} ELSE {Read(shelf[s].map)})
Debris(u, s) ==
  LET owners == {u} \cup (IF shelf[s] = Absent THEN {} ELSE {shelf[s].owner})
      maps   == {Absent, <<>>, kept[u]} \cup
                (IF shelf[s] = Absent THEN {} ELSE {shelf[s].map})
  IN  {shelf[s], Absent} \cup [owner : owners, map : maps]

Damage(u, s) ==
  /\ faults' > faults
  /\ \E map \in Remains(u, s) \cup {kept[u]} : kept' = [kept EXCEPT ![u] = map]
  /\ \E state \in Debris(u, s) : shelf' = [shelf EXCEPT ![s] = state]
  /\ \/ \E map \in Remains(u, s) : view' = [view EXCEPT ![u] = map]
     \/ view' = [v \in Users |-> Read(kept'[v])]

Next == \E u \in Users :
          \/ Remember(u) \/ Forget(u)
          \/ \E s \in Names : Shelve(u, s) \/ Unshelve(u, s) \/ Damage(u, s)

Spec == Init /\ [][Next]_store
=============================================================================
