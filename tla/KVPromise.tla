----------------------------- MODULE KVPromise -----------------------------
(***************************************************************************)
(* What the key-value store promises about its keys over restarts: a       *)
(* restart shows for each key one of its writes, not older than the last   *)
(* one that was settled (flushed to disk) and not newer than the one       *)
(* memory showed, and each key goes its own way.  Only a store of which a  *)
(* snapshot was taken may expose a key to losing settled writes as well.   *)
(*                                                                         *)
(* Writes are numbered; the number stands for the value, or for the key's  *)
(* absence when the write is a delete.                                     *)
(***************************************************************************)
EXTENDS Integers

CONSTANTS Keys, MaxWrites

VARIABLES
    latest,             \* the writes so far
    shown,              \* the write each key shows
    sure,               \* the last settled write of each key
    snapshots,          \* snapshots taken
    exposed             \* keys a snapshot has put at risk

vars == <<latest, shown, sure, snapshots, exposed>>

Init ==
    /\ latest = 0
    /\ shown = [k \in Keys |-> 0]
    /\ sure = [k \in Keys |-> 0]
    /\ snapshots = 0
    /\ exposed = {}

Write(k) ==
    /\ latest < MaxWrites
    /\ latest' = latest + 1
    /\ shown' = [shown EXCEPT ![k] = latest + 1]
    /\ UNCHANGED <<sure, snapshots, exposed>>

(* Settled writes stay settled; exposed keys are settled no longer. *)
Settle ==
    /\ \A k \in Keys : sure'[k] \in sure[k]..shown[k]
    /\ exposed \subseteq exposed'
    /\ snapshots = 0 => exposed' = exposed
    /\ UNCHANGED <<latest, shown, snapshots>>

Snapshot ==
    /\ snapshots' = snapshots + 1
    /\ UNCHANGED <<latest, shown, sure, exposed>>

Floor(k) == IF k \in exposed THEN 0 ELSE sure[k]

Restart ==
    /\ \A k \in Keys : shown'[k] \in Floor(k)..shown[k]
    /\ sure' = shown'
    /\ exposed' = {}
    /\ UNCHANGED <<latest, snapshots>>

Next ==
    \/ \E k \in Keys : Write(k)
    \/ Settle
    \/ Snapshot
    \/ Restart

Spec == Init /\ [][Next]_vars
=============================================================================
