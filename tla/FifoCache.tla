----------------------------- MODULE FifoCache -----------------------------
(***************************************************************************)
(* What the bounded read-through cache promises, free of how the store     *)
(* keeps its books: each kind of record is a first-in first-out cache with *)
(* a capacity.  Writing a key makes it the newest of its kind (a rewrite   *)
(* renews its age) and, only when the kind is over its capacity, drops the *)
(* oldest-written other keys, exactly as many as the excess.               *)
(* ReadThroughStore is shown to implement this specification.              *)
(***************************************************************************)
EXTENDS Integers, FiniteSets

CONSTANTS Kinds, Keys, Caps

VARIABLES
    age,    \* age[kind]: held key -> the position of its last write
    cap     \* the capacity in force

vars == <<age, cap>>

Held(kind) == DOMAIN age[kind]

Init ==
    /\ DOMAIN age = Kinds
    /\ \A kind \in Kinds : Held(kind) \subseteq Keys
    /\ cap \in Caps

(***************************************************************************)
(* `Drops' is what a write of `key' under capacity `cap' removes.          *)
(***************************************************************************)
Drops(kind, key, dropped) ==
    LET others == Held(kind) \ {key}
        after  == Held(kind) \cup {key}
    IN  /\ dropped \subseteq others
        /\ Cardinality(dropped) = IF Cardinality(after) > cap
                                  THEN Cardinality(after) - cap
                                  ELSE 0
        /\ \A d \in dropped, k \in others \ dropped : age[kind][d] < age[kind][k]

Put(kind, key) ==
    \E dropped \in SUBSET (Held(kind) \ {key}) :
        /\ Drops(kind, key, dropped)
        /\ DOMAIN age'[kind] = (Held(kind) \cup {key}) \ dropped
        /\ age' = [age EXCEPT ![kind] = age'[kind]]
        /\ \A k \in Held(kind) \ {key} :
               /\ age[kind][k] < age'[kind][key]
               /\ k \notin dropped => age'[kind][k] = age[kind][k]
        /\ UNCHANGED cap

\* Expiry, at a read or in a sweep, removes keys and renumbers none.
Remove(kind) ==
    \E gone \in SUBSET Held(kind) :
        /\ age' = [age EXCEPT ![kind] =
                      [k \in Held(kind) \ gone |-> age[kind][k]]]
        /\ UNCHANGED cap

\* The operator restarts the process with another capacity.
Resize == cap' \in Caps /\ UNCHANGED age

Next ==
    \/ \E kind \in Kinds, key \in Keys : Put(kind, key)
    \/ \E kind \in Kinds : Remove(kind)
    \/ Resize

Spec == Init /\ [][Next]_vars
=============================================================================
