------------------------------ MODULE KVCache ------------------------------
(***************************************************************************)
(* The key-value store in memory (pkg/store/kv): shards with a lock and an *)
(* LRU list each, and two counters they share, while goroutines set, get   *)
(* and delete, entries expire and the cleaner runs.                        *)
(*                                                                         *)
(* An entry is a pointer of the code, named by its key and a number: every *)
(* Set makes a new one, with a number no pointer uses any more.  What      *)
(* happens under a shard's lock is one step, except that Set tests and     *)
(* changes the shared counters in steps of their own.                      *)
(***************************************************************************)
EXTENDS FiniteSetsExt, Integers

CONSTANTS
    Keys,
    ShardCount,
    Numbers,            \* that tell the entries of a key apart
    ShardOf,            \* getShard
    Threads,            \* goroutines that call the store
    SizeOf,             \* the size of each key's entries
    TTLs,               \* that a Set may ask for: "never", "later"
    MaxEntries, MaxMemory,
    NoKey, NoEntry, Nobody, Cleaner

Shards == 1..ShardCount
Entries == Keys \X Numbers
KeyOf(e) == e[1]

INSTANCE LRUList

ASSUME StoreAssumption ==
    /\ ShardCount \in Nat \ {0}
    /\ ShardOf \in [Keys -> Shards]
    /\ SizeOf \in [Keys -> Nat \ {0}]
    /\ TTLs \subseteq {"never", "later"}
    /\ MaxEntries \in Nat \ {0} /\ MaxMemory \in Nat \ {0}
    /\ NoKey \notin Keys /\ NoEntry \notin Entries
    /\ {Nobody, Cleaner} \cap Threads = {} /\ Nobody # Cleaner

(* A process has finitely many pointers.                                   *)
ASSUME FiniteAssumption == IsFiniteSet(Entries)

VARIABLES
    data,               \* Shard.data, of all shards
    lru,                \* lruHead, lruTail, next and prev of each shard
    ttl,                \* of each key's entry; "past" once it has expired
    entries, memory,    \* the shared counters
    lock,               \* who holds a shard's write lock over several steps
    pc, key,            \* the calls
    cpc, now, shard, found  \* cleanExpired

store == <<data, lru, ttl>>
counters == <<entries, memory>>
call == <<pc, key>>
cleaner == <<cpc, now, shard, found>>
vars == <<store, counters, lock, call, cleaner>>

Init ==
    /\ data = [k \in Keys |-> NoEntry]
    /\ lru = [s \in Shards |-> EmptyList]
    /\ ttl = [k \in Keys |-> "never"]
    /\ entries = 0 /\ memory = 0
    /\ lock = [s \in Shards |-> Nobody]
    /\ pc = [t \in Threads |-> "idle"]
    /\ key = [t \in Threads |-> NoKey]
    /\ cpc = "idle" /\ now = {} /\ shard = 1 /\ found = {}

Stored == {data[k] : k \in Keys} \ {NoEntry}
Present(k) == data[k] # NoEntry
Expired(k) == ttl[k] = "past"
Unlocked(k) == lock[ShardOf[k]] = Nobody

(* An entry nothing points to may be allocated.                            *)
Unused(e) ==
    /\ e \notin Stored \cup now
    /\ \A s \in Shards :
          /\ e \notin {lru[s].head, lru[s].tail}
          /\ \A x \in Entries : e \notin {lru[s].next[x], lru[s].prev[x]}

(* Time passes. *)
Expire(k) ==
    /\ ttl[k] = "later"
    /\ ttl' = [ttl EXCEPT ![k] = "past"]
    /\ UNCHANGED <<data, lru, counters, lock, call, cleaner>>

(* deleteFromShard, of the entry e under key k in shard s. *)
DeleteFromShard(s, k, e) ==
    /\ data' = [data EXCEPT ![k] = NoEntry]
    /\ ttl' = [ttl EXCEPT ![k] = "never"]
    /\ lru' = [lru EXCEPT ![s] = Remove(@, e)]
    /\ entries' = entries - 1
    /\ memory' = memory - SizeOf[k]

Return(t) ==
    /\ pc' = [pc EXCEPT ![t] = "idle"]
    /\ key' = [key EXCEPT ![t] = NoKey]

-----------------------------------------------------------------------------
(* Set.  The lock is held from SetBegin to SetEnd.                         *)

SetBegin(t, k) ==
    /\ pc[t] = "idle"
    /\ Unlocked(k)
    /\ lock' = [lock EXCEPT ![ShardOf[k]] = t]
    /\ pc' = [pc EXCEPT ![t] = "count"]
    /\ key' = [key EXCEPT ![t] = k]
    /\ UNCHANGED <<store, counters, cleaner>>

(* evictLRU: the tail, if there is one. *)
EvictLRU(s) ==
    /\ lru[s].tail # NoEntry
    /\ DeleteFromShard(s, KeyOf(lru[s].tail), lru[s].tail)

(* Mutant: the limit is passed by one. *)
Full_AtLimit(t) ==
    \/ pc[t] = "count" /\ entries > MaxEntries
    \/ pc[t] = "memory" /\ memory + SizeOf[key[t]] > MaxMemory

(* The condition of the loop the Set is in. *)
Full(t) ==
    \/ pc[t] = "count" /\ entries >= MaxEntries
    \/ pc[t] = "memory" /\ memory + SizeOf[key[t]] > MaxMemory

(* Both loops evict from the shard of the key until a counter that all     *)
(* shards share has come down.  On a shard without a tail they turn        *)
(* without effect.                                                         *)
Evict(t) ==
    /\ Full(t)
    /\ EvictLRU(ShardOf[key[t]])
    /\ UNCHANGED <<lock, call, cleaner>>

CountPasses(t) ==
    /\ pc[t] = "count" /\ ~Full(t)
    /\ pc' = [pc EXCEPT ![t] = "memory"]
    /\ UNCHANGED <<store, counters, lock, key, cleaner>>

(* Mutant: an entry that is replaced stays counted. *)
Insert_OldCounted(t, e, x) ==
    LET k == key[t]
        s == ShardOf[k]
        l == IF Present(k) THEN Remove(lru[s], data[k]) ELSE lru[s]
    IN
    /\ pc[t] = "memory" /\ ~Full(t)
    /\ Unused(e) /\ KeyOf(e) = k
    /\ data' = [data EXCEPT ![k] = e]
    /\ lru' = [lru EXCEPT ![s] = MoveToFront(l, e)]
    /\ ttl' = [ttl EXCEPT ![k] = x]
    /\ pc' = [pc EXCEPT ![t] = "account"]
    /\ UNCHANGED <<counters, lock, key, cleaner>>

(* The new entry takes the place of the old one ... *)
Insert(t, e, x) ==
    LET k == key[t]
        s == ShardOf[k]
        l == IF Present(k) THEN Remove(lru[s], data[k]) ELSE lru[s]
    IN
    /\ pc[t] = "memory" /\ ~Full(t)
    /\ Unused(e) /\ KeyOf(e) = k
    /\ data' = [data EXCEPT ![k] = e]
    /\ lru' = [lru EXCEPT ![s] = MoveToFront(l, e)]
    /\ ttl' = [ttl EXCEPT ![k] = x]
    /\ entries' = IF Present(k) THEN entries - 1 ELSE entries
    /\ memory' = IF Present(k) THEN memory - SizeOf[k] ELSE memory
    /\ pc' = [pc EXCEPT ![t] = "account"]
    /\ UNCHANGED <<lock, key, cleaner>>

(* ... and is counted. *)
SetEnd(t) ==
    /\ pc[t] = "account"
    /\ entries' = entries + 1
    /\ memory' = memory + SizeOf[key[t]]
    /\ lock' = [lock EXCEPT ![ShardOf[key[t]]] = Nobody]
    /\ Return(t)
    /\ UNCHANGED <<store, cleaner>>

-----------------------------------------------------------------------------
(* Get: a look under the read lock, and then, under the write lock, either *)
(* the move to the front or the removal of what has expired.  Delete.      *)

Get(t, k) ==
    /\ pc[t] = "idle"
    /\ Unlocked(k) /\ Present(k)
    /\ pc' = [pc EXCEPT ![t] = IF Expired(k) THEN "purge" ELSE "touch"]
    /\ key' = [key EXCEPT ![t] = k]
    /\ UNCHANGED <<store, counters, lock, cleaner>>

Touch(t) ==
    LET k == key[t] IN
    /\ pc[t] = "touch"
    /\ Unlocked(k)
    /\ lru' = IF Present(k) /\ ~Expired(k)
              THEN [lru EXCEPT ![ShardOf[k]] = MoveToFront(@, data[k])] ELSE lru
    /\ Return(t)
    /\ UNCHANGED <<data, ttl, counters, lock, cleaner>>

(* Mutant: the entry is not looked at again under the write lock. *)
Purge_NoRecheck(t) ==
    LET k == key[t] IN
    /\ pc[t] = "purge"
    /\ Unlocked(k)
    /\ IF Present(k) THEN DeleteFromShard(ShardOf[k], k, data[k])
       ELSE UNCHANGED <<data, lru, ttl, counters>>
    /\ Return(t)
    /\ UNCHANGED <<lock, cleaner>>

Purge(t) ==
    LET k == key[t] IN
    /\ pc[t] = "purge"
    /\ Unlocked(k)
    /\ IF Expired(k) THEN DeleteFromShard(ShardOf[k], k, data[k])
       ELSE UNCHANGED <<data, lru, ttl, counters>>
    /\ Return(t)
    /\ UNCHANGED <<lock, cleaner>>

Delete(k) ==
    /\ Unlocked(k) /\ Present(k)
    /\ DeleteFromShard(ShardOf[k], k, data[k])
    /\ UNCHANGED <<lock, call, cleaner>>

-----------------------------------------------------------------------------
(* cleanExpired takes the time once and then goes through the shards:      *)
(* `now` holds the entries that had expired by then.                       *)

CleanTick ==
    /\ cpc = "idle"
    /\ now' = {data[k] : k \in {x \in Keys : Expired(x)}}
    /\ now' # {}        \* else the round changes nothing
    /\ shard' = 1
    /\ cpc' = "scan"
    /\ UNCHANGED <<store, counters, lock, call, found>>

CleanScan ==
    /\ cpc = "scan"
    /\ shard \in Shards /\ lock[shard] = Nobody
    /\ found' = {k \in Keys : ShardOf[k] = shard /\ data[k] \in now}
    /\ shard' = IF found' = {} THEN shard + 1 ELSE shard
    /\ cpc' = IF found' = {} THEN "scan" ELSE "delete"
    /\ UNCHANGED <<store, counters, lock, call, now>>

(* The lock is taken for the first key found and kept for the others.      *)
CleanDelete(k) ==
    /\ cpc = "delete"
    /\ k \in found
    /\ lock[shard] \in {Nobody, Cleaner}
    /\ lock' = [lock EXCEPT ![shard] = Cleaner]
    /\ found' = found \ {k}
    /\ IF data[k] \in now THEN DeleteFromShard(shard, k, data[k])
       ELSE UNCHANGED <<data, lru, ttl, counters>>
    /\ UNCHANGED <<call, cpc, now, shard>>

(* Mutant: a shard is passed over. *)
CleanUnlock_SkipsOne ==
    /\ cpc = "delete" /\ found = {}
    /\ lock' = [lock EXCEPT ![shard] = Nobody]
    /\ shard' = shard + 2
    /\ cpc' = "scan"
    /\ UNCHANGED <<store, counters, call, now, found>>

CleanUnlock ==
    /\ cpc = "delete" /\ found = {}
    /\ lock' = [lock EXCEPT ![shard] = Nobody]
    /\ shard' = shard + 1
    /\ cpc' = "scan"
    /\ UNCHANGED <<store, counters, call, now, found>>

CleanEnd ==
    /\ cpc = "scan" /\ shard \notin Shards
    /\ cpc' = "idle"
    /\ now' = {}
    /\ shard' = 1
    /\ UNCHANGED <<store, counters, lock, call, found>>

-----------------------------------------------------------------------------
SetStep(t) ==
    \/ Evict(t) \/ CountPasses(t) \/ SetEnd(t)
    \/ \E e \in Entries, x \in TTLs : Insert(t, e, x)

CleanStep ==
    \/ CleanScan \/ CleanUnlock \/ CleanEnd
    \/ \E k \in Keys : CleanDelete(k)

Next ==
    \/ \E k \in Keys : Expire(k)
    \/ \E t \in Threads :
          \/ \E k \in Keys : SetBegin(t, k)
          \/ SetStep(t)
          \/ \E k \in Keys : Get(t, k)
          \/ Touch(t) \/ Purge(t)
    \/ \E k \in Keys : Delete(k)
    \/ CleanTick \/ CleanStep

Spec == Init /\ [][Next]_vars

-----------------------------------------------------------------------------
(* Properties.                                                             *)

(* The shape of the state. *)
TypeOK ==
    /\ data \in [Keys -> Pointer]
    /\ lru \in [Shards -> List]
    /\ ttl \in [Keys -> {"never", "later", "past"}]
    /\ entries \in Int /\ memory \in Int
    /\ lock \in [Shards -> Threads \cup {Nobody, Cleaner}]
    /\ pc \in [Threads -> {"idle", "count", "memory", "account", "touch", "purge"}]
    /\ key \in [Threads -> Keys \cup {NoKey}]
    /\ cpc \in {"idle", "scan", "delete"}
    /\ now \subseteq Entries /\ found \subseteq Keys
    /\ shard \in 1..ShardCount + 1

Uncounted == {t \in Threads : pc[t] = "account"}
Taken == [t \in Uncounted |-> SizeOf[key[t]]]
Memory == SumFunctionOnSet(SizeOf, {k \in Keys : Present(k)})

(* The counters never promise more than there is.  They may promise less:  *)
(* see SizeIsKeys.                                                         *)
EntriesUnderstate == entries + Cardinality(Uncounted) <= Cardinality(Stored)

MemoryUnderstates == memory + SumFunctionOnSet(Taken, Uncounted) <= Memory

CountersUnderstate == EntriesUnderstate /\ MemoryUnderstates

(* Set tests the shared counter under the lock of one shard only, so the    *)
(* limit may be passed, but by no more than one entry for each other shard *)
(* (with one shard never), the Sets that have passed the test included.    *)
Committed == {t \in Threads : pc[t] \in {"memory", "account"}}

OvershootBounded == entries + Cardinality(Committed) <= MaxEntries + ShardCount - 1

(* What a walk from the head meets is stored, in this shard and, the other *)
(* way round, by the previous pointers: no deleted entry is ever reached.  *)
ChainIsStored ==
    \A s \in Shards : \A e \in Chain(lru[s]) :
        /\ ShardOf[KeyOf(e)] = s /\ data[KeyOf(e)] = e
        /\ lru[s].next[e] # NoEntry => lru[s].prev[lru[s].next[e]] = e

(* The tail may be an entry that is no longer stored, but then its key has *)
(* no other one: an eviction, which deletes by key, takes the tail or      *)
(* nothing.                                                                *)
TailIsItsOwn ==
    \A s \in Shards :
        LET e == lru[s].tail IN
        e # NoEntry => ShardOf[KeyOf(e)] = s /\ data[KeyOf(e)] \in {e, NoEntry}

(* Counters, lists and maps agree as far as they do. *)
BooksAgree == CountersUnderstate /\ ChainIsStored /\ TailIsItsOwn

(* An entry that has not expired leaves the store only when it is deleted, *)
(* evicted or replaced: neither the cleaner nor a Get that saw an older,   *)
(* expired entry of the same key takes it away.                            *)
NeverDropsLive ==
    [][\A k \in Keys : Present(k) /\ ~Expired(k) /\ data'[k] = NoEntry =>
          Delete(k) \/ \E t \in Threads : Evict(t)]_vars

(* Size() is the number of keys (kv_test.go:219) when nobody is in a Set.  *)
(* Violated: the removal of an entry that is head and tail of a longer     *)
(* list leaves it as the tail, and the next eviction takes it once more.   *)
SizeIsKeys ==
    (\A t \in Threads : pc[t] \in {"idle", "touch", "purge"}) => entries = Cardinality(Stored)
=============================================================================
