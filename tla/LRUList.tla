------------------------------ MODULE LRUList ------------------------------
(***************************************************************************)
(* The list of a shard (pkg/store/kv): a head, a tail and two pointer      *)
(* maps, and the two operations that change them, in the order in which    *)
(* they do it.                                                             *)
(***************************************************************************)
EXTENDS FiniteSets, Integers

CONSTANTS Entries, NoEntry  \* pointers, nil

Pointer == Entries \cup {NoEntry}

List == [head : Pointer, tail : Pointer, next : [Entries -> Pointer], prev : [Entries -> Pointer]]

EmptyList ==
    [head |-> NoEntry, tail |-> NoEntry,
     next |-> [e \in Entries |-> NoEntry], prev |-> [e \in Entries |-> NoEntry]]

(* ptr[e] = to, for an e that may be nil. *)
Point(ptr, e, to) == IF e = NoEntry THEN ptr ELSE [ptr EXCEPT ![e] = to]

(* Take e out of its place.  An e that is in no list and one that is last  *)
(* both have no next, and the tail becomes what is before e.               *)
Unlinked(l, e) ==
    [l EXCEPT !.next = Point(l.next, l.prev[e], l.next[e]),
              !.prev = Point(l.prev, l.next[e], l.prev[e]),
              !.tail = IF l.next[e] = NoEntry THEN l.prev[e] ELSE @]

MoveToFront(l, e) ==
    LET u == Unlinked(l, e) IN
    IF l.head = e THEN l
    ELSE [u EXCEPT !.next = [u.next EXCEPT ![e] = l.head],
                   !.prev = Point([u.prev EXCEPT ![e] = NoEntry], l.head, e),
                   !.head = e,
                   !.tail = IF @ = NoEntry THEN e ELSE @]

(* deleteFromShard: an e without a previous one is taken for the head.     *)
Remove(l, e) ==
    LET u == Unlinked(l, e) IN
    [u EXCEPT !.head = IF l.prev[e] = NoEntry THEN l.next[e] ELSE @,
              !.next = [u.next EXCEPT ![e] = NoEntry],
              !.prev = [u.prev EXCEPT ![e] = NoEntry]]

(* The entries from the head on, in any number of steps.                   *)
Chain(l) ==
    LET after[n \in 0..Cardinality(Entries)] ==
          IF n = 0 THEN {l.head} \ {NoEntry}
          ELSE after[n - 1] \cup ({l.next[e] : e \in after[n - 1]} \ {NoEntry})
    IN after[Cardinality(Entries)]
=============================================================================
