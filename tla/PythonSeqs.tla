------------------------------- MODULE PythonSeqs -------------------------------
(***************************************************************************)
(* What Python's comprehensions, sorted() and dict do to a list, as the    *)
(* scripts use them.  Each picks places of the list, in some order.        *)
(***************************************************************************)
EXTENDS Integers, Sequences, FiniteSets, SequencesExt

(* The places by rank, from 0. *)
InOrder(rank) ==
    [k \in 1..Cardinality(DOMAIN rank) |-> CHOOSE i \in DOMAIN rank : rank[i] = k - 1]

Ascending(I) == InOrder([i \in I |-> Cardinality({j \in I : j < i})])

At(seq, places) == [k \in DOMAIN places |-> seq[places[k]]]

(* [x for x in seq if ...] *)
Those(seq, Test(_)) == At(seq, Ascending({i \in DOMAIN seq : Test(seq[i])}))

(* sorted(seq, key=...) is stable. *)
StableOrder(keys) ==
    InOrder([i \in DOMAIN keys |-> Cardinality({j \in DOMAIN keys :
        keys[j] < keys[i] \/ (keys[j] = keys[i] /\ j < i)})])

StableBy(seq, key(_)) == At(seq, StableOrder([i \in DOMAIN seq |-> key(seq[i])]))

(* The same with tuples for keys. *)
StableFor(seq, Before(_, _)) ==
    At(seq, InOrder([i \in DOMAIN seq |-> Cardinality({j \in DOMAIN seq :
        Before(seq[j], seq[i]) \/ (~Before(seq[i], seq[j]) /\ j < i)})]))

(* {key(x): x for x in seq}: the place of the first of a key, the value of *)
(* the last.                                                               *)
LastPlaces(keys) ==
    LET firsts == {i \in DOMAIN keys : \A j \in 1..i - 1 : keys[j] # keys[i]}
        last == [i \in DOMAIN keys |-> CHOOSE l \in DOMAIN keys :
                    keys[l] = keys[i] /\ \A j \in DOMAIN keys : j > l => keys[j] # keys[i]]
    IN  At(last, Ascending(firsts))

LastOfEach(seq, key(_)) == At(seq, LastPlaces([i \in DOMAIN seq |-> key(seq[i])]))
================================================================================
