--------------------------- MODULE KVCacheProofs ---------------------------
(***************************************************************************)
(* Proofs about KVCache, for any keys, shards, goroutines and limits.      *)
(***************************************************************************)
EXTENDS KVCache, FoldProofs, TLAPS

(* A key's place in the map holds an entry of that key; only what is       *)
(* stored has a time to live; what the cleaner's round may take has        *)
(* expired if it is stored still.                                          *)
KeyInv ==
    /\ \A k \in Keys : Present(k) => KeyOf(data[k]) = k
    /\ \A k \in Keys : ttl[k] # "never" => Present(k)
    /\ \A k \in Keys : data[k] \in now => Expired(k)

(* A Set holds its shard's lock, and so does the cleaner once it deletes.  *)
LockInv ==
    /\ \A t \in Threads :
          /\ pc[t] # "idle" => key[t] \in Keys
          /\ pc[t] \in {"count", "memory", "account"} => lock[ShardOf[key[t]]] = t
    /\ cpc = "delete" => shard \in Shards
    /\ cpc = "delete" /\ found = {} => lock[shard] = Cleaner

(* The cleaner looks for keys of the shard it is at, and only there.       *)
FoundInv ==
    /\ \A k \in found : ShardOf[k] = shard
    /\ cpc # "delete" => found = {}

StoredInv == IsFiniteSet(Stored) /\ EntriesUnderstate

(* The pointers of a list join entries of S, each next to what is previous *)
(* to it and the other way round, and nothing is before the head.  Some of *)
(* S may have been lost from the list: they may be linked to each other.   *)
Linked(l, S) ==
    /\ \A e \in Entries : l.next[e] # NoEntry => e \in S /\ l.next[e] \in S /\ l.prev[l.next[e]] = e
    /\ \A e \in Entries : l.prev[e] # NoEntry => e \in S /\ l.prev[e] \in S /\ l.next[l.prev[e]] = e
    /\ l.head # NoEntry => l.head \in S /\ l.prev[l.head] = NoEntry

Members(s) == {e \in Entries : ShardOf[KeyOf(e)] = s /\ data[KeyOf(e)] = e}

ListInv == (\A s \in Shards : Linked(lru[s], Members(s))) /\ TailIsItsOwn

IInv ==
    /\ TypeOK /\ KeyInv /\ LockInv /\ FoundInv
    /\ OvershootBounded
    /\ StoredInv /\ MemoryUnderstates
    /\ ListInv

-----------------------------------------------------------------------------
(* The list's operations keep its type.                                    *)

LEMMA PointType ==
  ASSUME NEW ptr \in [Entries -> Pointer], NEW e \in Pointer, NEW to \in Pointer
  PROVE  Point(ptr, e, to) \in [Entries -> Pointer]
  BY DEF Point, Pointer

LEMMA UnlinkedType ==
  ASSUME NEW l \in List, NEW e \in Entries
  PROVE  Unlinked(l, e) \in List
<1>1. /\ l.head \in Pointer /\ l.tail \in Pointer
      /\ l.next \in [Entries -> Pointer] /\ l.prev \in [Entries -> Pointer]
      /\ l.next[e] \in Pointer /\ l.prev[e] \in Pointer
  BY DEF List
<1>2. /\ Point(l.next, l.prev[e], l.next[e]) \in [Entries -> Pointer]
      /\ Point(l.prev, l.next[e], l.prev[e]) \in [Entries -> Pointer]
  BY <1>1, PointType
<1>3. QED
  BY <1>1, <1>2 DEF List, Unlinked

LEMMA MoveToFrontType ==
  ASSUME NEW l \in List, NEW e \in Entries
  PROVE  MoveToFront(l, e) \in List
<1> DEFINE u == Unlinked(l, e)
<1>1. u \in List
  BY UnlinkedType
<1>2. e \in Pointer /\ NoEntry \in Pointer /\ l.head \in Pointer
  BY DEF Pointer, List
<1>3. /\ [u.next EXCEPT ![e] = l.head] \in [Entries -> Pointer]
      /\ [u.prev EXCEPT ![e] = NoEntry] \in [Entries -> Pointer]
  BY <1>1, <1>2 DEF List
<1>4. Point([u.prev EXCEPT ![e] = NoEntry], l.head, e) \in [Entries -> Pointer]
  BY <1>2, <1>3, PointType
<1>5. QED
  BY <1>1, <1>2, <1>3, <1>4 DEF List, MoveToFront

LEMMA RemoveType ==
  ASSUME NEW l \in List, NEW e \in Entries
  PROVE  Remove(l, e) \in List
<1> DEFINE u == Unlinked(l, e)
<1>1. u \in List
  BY UnlinkedType
<1>2. NoEntry \in Pointer /\ l.next[e] \in Pointer
  BY DEF Pointer, List
<1>3. /\ [u.next EXCEPT ![e] = NoEntry] \in [Entries -> Pointer]
      /\ [u.prev EXCEPT ![e] = NoEntry] \in [Entries -> Pointer]
  BY <1>1, <1>2 DEF List
<1>4. QED
  BY <1>1, <1>2, <1>3 DEF List, Remove

(* As many threads as have shards of their own: no more than shards.       *)
LEMMA FitsShards ==
  ASSUME NEW C, NEW f \in [C -> Shards],
         \A a, b \in C : f[a] = f[b] => a = b
  PROVE  IsFiniteSet(C) /\ Cardinality(C) \in Nat /\ Cardinality(C) <= ShardCount
<1>1. IsFiniteSet(Shards) /\ Cardinality(Shards) = ShardCount
  BY StoreAssumption, FS_Interval DEF Shards
<1>2. f \in Injection(C, Shards)
  BY DEF Injection, IsInjective
<1>3. QED
  BY <1>1, <1>2, FS_Injection, FS_CardinalityType

(* Which threads are in a Set's locked part is bounded by the shards.      *)
LEMMA LockedFit ==
  ASSUME NEW C \in SUBSET Threads, NEW k \in [C -> Keys], NEW l,
         \A t \in C : l[ShardOf[k[t]]] = t
  PROVE  IsFiniteSet(C) /\ Cardinality(C) \in Nat /\ Cardinality(C) <= ShardCount
<1> DEFINE f == [t \in C |-> ShardOf[k[t]]]
<1>1. f \in [C -> Shards]
  BY StoreAssumption
<1>2. \A a, b \in C : f[a] = f[b] => a = b
  OBVIOUS
<1>3. QED
  BY <1>1, <1>2, FitsShards

-----------------------------------------------------------------------------
(* Types.                                                                  *)

StoreTypes ==
    /\ data \in [Keys -> Pointer]
    /\ lru \in [Shards -> List]
    /\ ttl \in [Keys -> {"never", "later", "past"}]
    /\ entries \in Int /\ memory \in Int

LEMMA DeleteTypes ==
  ASSUME StoreTypes, NEW s \in Shards, NEW k \in Keys, NEW e \in Entries, DeleteFromShard(s, k, e)
  PROVE  StoreTypes'
<1>1. Remove(lru[s], e) \in List
  BY RemoveType DEF StoreTypes
<1>2. NoEntry \in Pointer /\ SizeOf[k] \in Int
  BY StoreAssumption DEF Pointer
<1>3. QED
  BY <1>1, <1>2 DEF StoreTypes, DeleteFromShard

LEMMA EvictTypes ==
  ASSUME TypeOK, LockInv, NEW t \in Threads, Evict(t)
  PROVE  ShardOf[key[t]] \in Shards /\ lru[ShardOf[key[t]]].tail \in Entries
         /\ KeyOf(lru[ShardOf[key[t]]].tail) \in Keys
         /\ DeleteFromShard(ShardOf[key[t]], KeyOf(lru[ShardOf[key[t]]].tail), lru[ShardOf[key[t]]].tail)
<1>1. key[t] \in Keys /\ ShardOf[key[t]] \in Shards
  BY StoreAssumption DEF Evict, Full, LockInv
<1>2. lru[ShardOf[key[t]]].tail \in Entries
  BY <1>1 DEF Evict, EvictLRU, TypeOK, List, Pointer
<1>3. QED
  BY <1>1, <1>2 DEF Evict, EvictLRU, KeyOf, Entries

LEMMA TypeStep == TypeOK /\ KeyInv /\ LockInv /\ [Next]_vars => TypeOK'
<1> SUFFICES ASSUME TypeOK, KeyInv, LockInv, [Next]_vars PROVE TypeOK'
  OBVIOUS
<1> USE StoreAssumption
<1>0. /\ StoreTypes
      /\ ShardOf \in [Keys -> Shards]
      /\ \A k \in Keys : Present(k) => data[k] \in Entries
      /\ \A t \in Threads : key[t] \in Keys => ShardOf[key[t]] \in Shards
  BY DEF TypeOK, StoreTypes, Present, Pointer
<1>1. CASE UNCHANGED vars
  BY <1>1 DEF TypeOK, vars, store, counters, call, cleaner
<1>2. ASSUME NEW k \in Keys, Expire(k) PROVE TypeOK'
  BY <1>2 DEF Expire, TypeOK, counters, call, cleaner
<1>3. ASSUME NEW t \in Threads, NEW k \in Keys, SetBegin(t, k) PROVE TypeOK'
  BY <1>3, <1>0 DEF SetBegin, TypeOK, store, counters, cleaner
<1>4. ASSUME NEW t \in Threads, Evict(t) PROVE TypeOK'
  <2>1. StoreTypes'
    BY <1>0, <1>4, EvictTypes, DeleteTypes
  <2>2. QED
    BY <1>4, <2>1 DEF Evict, TypeOK, StoreTypes, call, cleaner
<1>5. ASSUME NEW t \in Threads, CountPasses(t) PROVE TypeOK'
  BY <1>5 DEF CountPasses, TypeOK, store, counters, cleaner
<1>6. ASSUME NEW t \in Threads, NEW e \in Entries, NEW x \in TTLs, Insert(t, e, x) PROVE TypeOK'
  <2> DEFINE k == key[t]
             s == ShardOf[k]
             l == IF Present(k) THEN Remove(lru[s], data[k]) ELSE lru[s]
  <2>1. k \in Keys /\ s \in Shards
    BY <1>0, <1>6 DEF Insert, LockInv
  <2>2. l \in List
    BY <1>0, <2>1, RemoveType DEF TypeOK
  <2>3. MoveToFront(l, e) \in List
    BY <2>2, MoveToFrontType
  <2>4. /\ data' = [data EXCEPT ![k] = e]
        /\ lru' = [lru EXCEPT ![s] = MoveToFront(l, e)]
        /\ ttl' = [ttl EXCEPT ![k] = x]
        /\ pc' = [pc EXCEPT ![t] = "account"]
        /\ entries' = IF Present(k) THEN entries - 1 ELSE entries
        /\ memory' = IF Present(k) THEN memory - SizeOf[k] ELSE memory
        /\ UNCHANGED <<lock, key, cleaner>>
    BY <1>6 DEF Insert
  <2> HIDE DEF k, s, l
  <2>5. e \in Pointer /\ x \in {"never", "later", "past"} /\ SizeOf[k] \in Int
    BY <2>1 DEF Pointer
  <2>6. QED
    BY <2>1, <2>3, <2>4, <2>5 DEF TypeOK, cleaner
<1>7. ASSUME NEW t \in Threads, SetEnd(t) PROVE TypeOK'
  <2>1. key[t] \in Keys /\ SizeOf[key[t]] \in Int
    BY <1>7 DEF SetEnd, LockInv
  <2>2. QED
    BY <1>7, <2>1 DEF SetEnd, Return, TypeOK, store, cleaner
<1>8. ASSUME NEW t \in Threads, NEW k \in Keys, Get(t, k) PROVE TypeOK'
  BY <1>8 DEF Get, TypeOK, store, counters, cleaner
<1>9. ASSUME NEW t \in Threads, Touch(t) PROVE TypeOK'
  <2>1. key[t] \in Keys /\ ShardOf[key[t]] \in Shards
    BY <1>0, <1>9 DEF Touch, LockInv
  <2>2. Present(key[t]) => MoveToFront(lru[ShardOf[key[t]]], data[key[t]]) \in List
    BY <1>0, <2>1, MoveToFrontType DEF TypeOK
  <2>3. lru' \in [Shards -> List]
    BY <1>9, <2>1, <2>2 DEF Touch, TypeOK
  <2>4. QED
    BY <1>9, <2>3 DEF Touch, Return, TypeOK, counters, cleaner
<1>10. ASSUME NEW t \in Threads, Purge(t) PROVE TypeOK'
  <2>1. key[t] \in Keys /\ ShardOf[key[t]] \in Shards
    BY <1>0, <1>10 DEF Purge, LockInv
  <2>2. StoreTypes'
    <3>1. CASE Expired(key[t])
      <4>1. data[key[t]] \in Entries
        BY <1>0, <2>1, <3>1 DEF KeyInv, Expired
      <4>2. QED
        BY <1>0, <1>10, <2>1, <3>1, <4>1, DeleteTypes DEF Purge
    <3>2. CASE ~Expired(key[t])
      BY <1>0, <1>10, <3>2 DEF Purge, StoreTypes, counters
    <3>3. QED
      BY <3>1, <3>2
  <2>3. QED
    BY <1>10, <2>2 DEF Purge, Return, TypeOK, StoreTypes, cleaner
<1>11. ASSUME NEW k \in Keys, Delete(k) PROVE TypeOK'
  <2>1. StoreTypes'
    BY <1>0, <1>11, DeleteTypes DEF Delete
  <2>2. QED
    BY <1>11, <2>1 DEF Delete, TypeOK, StoreTypes, call, cleaner
<1>12. CASE CleanTick
  <2>1. now' \subseteq Entries
    BY <1>0, <1>12 DEF CleanTick, KeyInv, Expired
  <2>2. 1 \in 1..ShardCount + 1
    OBVIOUS
  <2>3. QED
    BY <1>12, <2>1, <2>2 DEF CleanTick, TypeOK, store, counters, call
<1>13. CASE CleanScan
  <2>1. shard + 1 \in 1..ShardCount + 1
    BY <1>13 DEF CleanScan, Shards
  <2>2. QED
    BY <1>13, <2>1 DEF CleanScan, TypeOK, store, counters, call
<1>14. ASSUME NEW k \in Keys, CleanDelete(k) PROVE TypeOK'
  <2>1. StoreTypes'
    <3>1. CASE data[k] \in now
      <4>1. data[k] \in Entries /\ shard \in Shards
        BY <1>14, <3>1 DEF CleanDelete, TypeOK, LockInv
      <4>2. QED
        BY <1>0, <1>14, <3>1, <4>1, DeleteTypes DEF CleanDelete
    <3>2. CASE data[k] \notin now
      BY <1>0, <1>14, <3>2 DEF CleanDelete, StoreTypes, counters
    <3>3. QED
      BY <3>1, <3>2
  <2>2. QED
    BY <1>14, <2>1 DEF CleanDelete, TypeOK, StoreTypes, call
<1>15. CASE CleanUnlock
  <2>1. shard \in Shards /\ shard + 1 \in 1..ShardCount + 1
    BY <1>15 DEF CleanUnlock, LockInv, Shards
  <2>2. QED
    BY <1>15, <2>1 DEF CleanUnlock, TypeOK, store, counters, call
<1>16. CASE CleanEnd
  <2>1. 1 \in 1..ShardCount + 1
    OBVIOUS
  <2>2. QED
    BY <1>16, <2>1 DEF CleanEnd, TypeOK, store, counters, call
<1>17. QED
  BY <1>1, <1>2, <1>3, <1>4, <1>5, <1>6, <1>7, <1>8, <1>9, <1>10, <1>11, <1>12, <1>13, <1>14,
     <1>15, <1>16
  DEF Next, SetStep, CleanStep

-----------------------------------------------------------------------------
(* Keys and locks.                                                         *)

LEMMA DeleteKeys ==
  ASSUME TypeOK, KeyInv, NEW s, NEW k \in Keys, NEW e, DeleteFromShard(s, k, e), now' = now
  PROVE  KeyInv'
<1>1. NoEntry \notin now
  BY StoreAssumption DEF TypeOK
<1>2. /\ data' = [data EXCEPT ![k] = NoEntry] /\ ttl' = [ttl EXCEPT ![k] = "never"]
      /\ data \in [Keys -> Pointer] /\ ttl \in [Keys -> {"never", "later", "past"}]
  BY DEF DeleteFromShard, TypeOK
<1>3. QED
  BY <1>1, <1>2 DEF KeyInv, Present, Expired

LEMMA KeysKept == KeyInv /\ UNCHANGED <<data, ttl, now>> => KeyInv'
  BY DEF KeyInv, Present, Expired

LEMMA KeyStep == TypeOK /\ KeyInv /\ LockInv /\ [Next]_vars => KeyInv'
<1> SUFFICES ASSUME TypeOK, KeyInv, LockInv, [Next]_vars PROVE KeyInv'
  OBVIOUS
<1>1. CASE UNCHANGED vars
  BY <1>1, KeysKept DEF vars, store, cleaner
<1>2. ASSUME NEW k \in Keys, Expire(k) PROVE KeyInv'
  BY <1>2 DEF Expire, TypeOK, KeyInv, Present, Expired, cleaner
<1>3. ASSUME NEW t \in Threads, NEW k \in Keys, SetBegin(t, k) PROVE KeyInv'
  BY <1>3, KeysKept DEF SetBegin, store, cleaner
<1>4. ASSUME NEW t \in Threads, Evict(t) PROVE KeyInv'
  <2>1. now' = now
    BY <1>4 DEF Evict, cleaner
  <2>2. QED
    BY <1>4, <2>1, EvictTypes, DeleteKeys
<1>5. ASSUME NEW t \in Threads, CountPasses(t) PROVE KeyInv'
  BY <1>5, KeysKept DEF CountPasses, store, cleaner
<1>6. ASSUME NEW t \in Threads, NEW e \in Entries, NEW x \in TTLs, Insert(t, e, x) PROVE KeyInv'
  <2>1. /\ data' = [data EXCEPT ![key[t]] = e] /\ ttl' = [ttl EXCEPT ![key[t]] = x]
        /\ now' = now /\ e \notin now /\ KeyOf(e) = key[t] /\ e # NoEntry
        /\ data \in [Keys -> Pointer] /\ ttl \in [Keys -> {"never", "later", "past"}]
    BY <1>6, StoreAssumption DEF Insert, Unused, TypeOK, cleaner
  <2>2. QED
    BY <2>1 DEF KeyInv, Present, Expired
<1>7. ASSUME NEW t \in Threads, SetEnd(t) PROVE KeyInv'
  BY <1>7, KeysKept DEF SetEnd, store, cleaner
<1>8. ASSUME NEW t \in Threads, NEW k \in Keys, Get(t, k) PROVE KeyInv'
  BY <1>8, KeysKept DEF Get, store, cleaner
<1>9. ASSUME NEW t \in Threads, Touch(t) PROVE KeyInv'
  BY <1>9, KeysKept DEF Touch, cleaner
<1>10. ASSUME NEW t \in Threads, Purge(t) PROVE KeyInv'
  <2>1. key[t] \in Keys /\ now' = now
    BY <1>10 DEF Purge, LockInv, cleaner
  <2>2. CASE Expired(key[t])
    BY <1>10, <2>1, <2>2, DeleteKeys DEF Purge
  <2>3. CASE ~Expired(key[t])
    BY <1>10, <2>1, <2>3, KeysKept DEF Purge
  <2>4. QED
    BY <2>2, <2>3
<1>11. ASSUME NEW k \in Keys, Delete(k) PROVE KeyInv'
  <2>1. now' = now
    BY <1>11 DEF Delete, cleaner
  <2>2. QED
    BY <1>11, <2>1, DeleteKeys DEF Delete
<1>12. CASE CleanTick
  <2>1. data' = data /\ ttl' = ttl /\ now' = {data[x] : x \in {y \in Keys : Expired(y)}}
    BY <1>12 DEF CleanTick, store
  <2>2. ASSUME NEW k \in Keys, data[k] \in now' PROVE Expired(k)
    <3>1. PICK x \in Keys : Expired(x) /\ data[x] = data[k]
      BY <2>1, <2>2
    <3>2. Present(x) /\ Present(k)
      BY <3>1 DEF KeyInv, Expired, Present
    <3>3. x = k
      BY <3>1, <3>2 DEF KeyInv
    <3>4. QED
      BY <3>1, <3>3
  <2>3. QED
    BY <2>1, <2>2 DEF KeyInv, Present, Expired
<1>13. CASE CleanScan
  BY <1>13, KeysKept DEF CleanScan, store
<1>14. ASSUME NEW k \in Keys, CleanDelete(k) PROVE KeyInv'
  <2>1. now' = now
    BY <1>14 DEF CleanDelete
  <2>2. CASE data[k] \in now
    BY <1>14, <2>1, <2>2, DeleteKeys DEF CleanDelete
  <2>3. CASE data[k] \notin now
    BY <1>14, <2>1, <2>3, KeysKept DEF CleanDelete
  <2>4. QED
    BY <2>2, <2>3
<1>15. CASE CleanUnlock
  BY <1>15, KeysKept DEF CleanUnlock, store
<1>16. CASE CleanEnd
  BY <1>16 DEF CleanEnd, store, KeyInv, Present, Expired
<1>17. QED
  BY <1>1, <1>2, <1>3, <1>4, <1>5, <1>6, <1>7, <1>8, <1>9, <1>10, <1>11, <1>12, <1>13, <1>14,
     <1>15, <1>16
  DEF Next, SetStep, CleanStep

LEMMA LocksKept == LockInv /\ UNCHANGED <<lock, call, cpc, shard, found>> => LockInv'
  BY DEF LockInv, call

LEMMA LockStep == TypeOK /\ LockInv /\ [Next]_vars => LockInv'
<1> SUFFICES ASSUME TypeOK, LockInv, [Next]_vars PROVE LockInv'
  OBVIOUS
<1>0. /\ pc \in [Threads -> {"idle", "count", "memory", "account", "touch", "purge"}]
      /\ key \in [Threads -> Keys \cup {NoKey}]
      /\ lock \in [Shards -> Threads \cup {Nobody, Cleaner}]
      /\ Nobody \notin Threads /\ Cleaner \notin Threads /\ Nobody # Cleaner
      /\ \A k \in Keys : ShardOf[k] \in Shards
  BY StoreAssumption DEF TypeOK
<1>1. CASE UNCHANGED vars
  BY <1>1, LocksKept DEF vars, cleaner
<1>2. ASSUME NEW k \in Keys, Expire(k) PROVE LockInv'
  BY <1>2, LocksKept DEF Expire, cleaner
<1>3. ASSUME NEW t \in Threads, NEW k \in Keys, SetBegin(t, k) PROVE LockInv'
  BY <1>0, <1>3 DEF SetBegin, LockInv, Unlocked, cleaner
<1>4. ASSUME NEW t \in Threads, Evict(t) PROVE LockInv'
  BY <1>4, LocksKept DEF Evict, cleaner
<1>5. ASSUME NEW t \in Threads, CountPasses(t) PROVE LockInv'
  BY <1>0, <1>5 DEF CountPasses, LockInv, cleaner
<1>6. ASSUME NEW t \in Threads, NEW e \in Entries, NEW x \in TTLs, Insert(t, e, x) PROVE LockInv'
  BY <1>0, <1>6 DEF Insert, LockInv, cleaner
<1>7. ASSUME NEW t \in Threads, SetEnd(t) PROVE LockInv'
  <2>1. /\ key[t] \in Keys /\ lock[ShardOf[key[t]]] = t
        /\ lock' = [lock EXCEPT ![ShardOf[key[t]]] = Nobody]
        /\ pc' = [pc EXCEPT ![t] = "idle"] /\ key' = [key EXCEPT ![t] = NoKey]
        /\ UNCHANGED <<cpc, shard, found>>
    BY <1>7 DEF SetEnd, Return, LockInv, cleaner
  <2>2. QED
    BY <1>0, <2>1 DEF LockInv
<1>8. ASSUME NEW t \in Threads, NEW k \in Keys, Get(t, k) PROVE LockInv'
  BY <1>0, <1>8 DEF Get, LockInv, cleaner
<1>9. ASSUME NEW t \in Threads, Touch(t) PROVE LockInv'
  BY <1>0, <1>9 DEF Touch, Return, LockInv, cleaner
<1>10. ASSUME NEW t \in Threads, Purge(t) PROVE LockInv'
  BY <1>0, <1>10 DEF Purge, Return, LockInv, cleaner
<1>11. ASSUME NEW k \in Keys, Delete(k) PROVE LockInv'
  BY <1>11, LocksKept DEF Delete, cleaner
<1>12. CASE CleanTick
  BY <1>12 DEF CleanTick, LockInv, call
<1>13. CASE CleanScan
  BY <1>13 DEF CleanScan, LockInv, call
<1>14. ASSUME NEW k \in Keys, CleanDelete(k) PROVE LockInv'
  <2>1. /\ shard \in Shards /\ lock[shard] \in {Nobody, Cleaner}
        /\ lock' = [lock EXCEPT ![shard] = Cleaner]
        /\ UNCHANGED <<pc, key, cpc, shard>>
    BY <1>14 DEF CleanDelete, LockInv, call
  <2>2. QED
    BY <1>0, <2>1 DEF LockInv
<1>15. CASE CleanUnlock
  <2>1. /\ lock[shard] = Cleaner /\ lock' = [lock EXCEPT ![shard] = Nobody]
        /\ cpc' = "scan" /\ UNCHANGED <<pc, key>>
    BY <1>15 DEF CleanUnlock, LockInv, call
  <2>2. QED
    BY <1>0, <2>1 DEF LockInv
<1>16. CASE CleanEnd
  BY <1>16 DEF CleanEnd, LockInv, call
<1>17. QED
  BY <1>1, <1>2, <1>3, <1>4, <1>5, <1>6, <1>7, <1>8, <1>9, <1>10, <1>11, <1>12, <1>13, <1>14,
     <1>15, <1>16
  DEF Next, SetStep, CleanStep

-----------------------------------------------------------------------------
(* The limit.                                                              *)

LEMMA CommittedFinite ==
  ASSUME TypeOK, LockInv
  PROVE  IsFiniteSet(Committed) /\ Cardinality(Committed) \in Nat
<1> DEFINE k == [t \in Committed |-> key[t]]
<1>1. k \in [Committed -> Keys] /\ \A t \in Committed : lock[ShardOf[k[t]]] = t
  BY DEF Committed, LockInv
<1>2. Committed \in SUBSET Threads
  BY DEF Committed
<1> HIDE DEF k
<1>3. QED
  BY <1>1, <1>2, LockedFit

(* A step that commits no thread and raises no counter keeps the limit.    *)
LEMMA LimitKept ==
  ASSUME TypeOK, LockInv, OvershootBounded, TypeOK',
         Committed' \subseteq Committed, entries' <= entries
  PROVE  OvershootBounded'
<1>1. Cardinality(Committed') <= Cardinality(Committed) /\ Cardinality(Committed') \in Nat
  BY CommittedFinite, FS_Subset, FS_CardinalityType
<1>2. entries \in Int /\ entries' \in Int /\ MaxEntries \in Int /\ ShardCount \in Int
  BY StoreAssumption DEF TypeOK
<1>3. QED
  BY <1>1, <1>2, CommittedFinite DEF OvershootBounded

LEMMA DeleteLowers ==
  ASSUME TypeOK, NEW s, NEW k, NEW e, DeleteFromShard(s, k, e)
  PROVE  entries' <= entries
  BY DEF DeleteFromShard, TypeOK

LEMMA LimitStep ==
  TypeOK /\ TypeOK' /\ LockInv /\ LockInv' /\ OvershootBounded /\ [Next]_vars => OvershootBounded'
<1> SUFFICES ASSUME TypeOK, TypeOK', LockInv, LockInv', OvershootBounded, [Next]_vars
             PROVE  OvershootBounded'
  OBVIOUS
<1>0. entries \in Int /\ MaxEntries \in Int /\ ShardCount \in Int /\ pc \in [Threads ->
        {"idle", "count", "memory", "account", "touch", "purge"}]
  BY StoreAssumption DEF TypeOK
<1>1. CASE UNCHANGED <<pc, entries>>
  BY <1>0, <1>1, LimitKept DEF Committed
<1>2. ASSUME NEW t \in Threads, Evict(t) PROVE OvershootBounded'
  <2>1. Committed' = Committed
    BY <1>2 DEF Evict, call, Committed
  <2>2. QED
    BY <1>2, <2>1, EvictTypes, DeleteLowers, LimitKept
<1>3. ASSUME NEW t \in Threads, CountPasses(t) PROVE OvershootBounded'
  <2> DEFINE C == Committed \cup {t}
             k == [u \in C |-> key[u]]
  <2>1. Committed' = C /\ t \notin Committed /\ entries' = entries /\ entries < MaxEntries
    BY <1>0, <1>3 DEF CountPasses, Full, Committed, counters
  <2>2. k \in [C -> Keys] /\ \A u \in C : lock[ShardOf[k[u]]] = u
    BY <1>3 DEF CountPasses, Committed, LockInv
  <2>3. C \in SUBSET Threads
    BY DEF Committed
  <2>4. Cardinality(C) \in Nat /\ Cardinality(C) <= ShardCount
    BY <2>2, <2>3, LockedFit
  <2> HIDE DEF C
  <2>5. QED
    BY <1>0, <2>1, <2>4 DEF OvershootBounded
<1>4. ASSUME NEW t \in Threads, NEW e \in Entries, NEW x \in TTLs, Insert(t, e, x)
      PROVE  OvershootBounded'
  <2>1. Committed' = Committed
    BY <1>0, <1>4 DEF Insert, Committed
  <2>2. entries' <= entries
    BY <1>0, <1>4 DEF Insert
  <2>3. QED
    BY <2>1, <2>2, LimitKept
<1>5. ASSUME NEW t \in Threads, SetEnd(t) PROVE OvershootBounded'
  <2>1. Committed' = Committed \ {t} /\ t \in Committed /\ entries' = entries + 1
    BY <1>0, <1>5 DEF SetEnd, Return, Committed
  <2>2. Cardinality(Committed') = Cardinality(Committed) - 1
    BY <2>1, CommittedFinite, FS_RemoveElement
  <2>3. QED
    BY <1>0, <2>1, <2>2, CommittedFinite DEF OvershootBounded
<1>6. ASSUME NEW t \in Threads, NEW k \in Keys, SetBegin(t, k) \/ Get(t, k) PROVE OvershootBounded'
  <2>1. Committed' \subseteq Committed /\ entries' = entries
    BY <1>0, <1>6 DEF SetBegin, Get, Committed, counters
  <2>2. QED
    BY <1>0, <2>1, LimitKept
<1>7. ASSUME NEW t \in Threads, Touch(t) \/ Purge(t) PROVE OvershootBounded'
  <2>1. Committed' \subseteq Committed
    BY <1>0, <1>7 DEF Touch, Purge, Return, Committed
  <2>2. entries' <= entries
    BY <1>0, <1>7, DeleteLowers DEF Touch, Purge, counters
  <2>3. QED
    BY <2>1, <2>2, LimitKept
<1>8. ASSUME NEW k \in Keys, Delete(k) \/ CleanDelete(k) PROVE OvershootBounded'
  <2>1. Committed' = Committed
    BY <1>8 DEF Delete, CleanDelete, call, Committed
  <2>2. entries' <= entries
    BY <1>0, <1>8, DeleteLowers DEF Delete, CleanDelete, counters
  <2>3. QED
    BY <2>1, <2>2, LimitKept
<1>9. QED
  BY <1>1, <1>2, <1>3, <1>4, <1>5, <1>6, <1>7, <1>8
  DEF Next, SetStep, CleanStep, Expire, CleanTick, CleanScan, CleanUnlock, CleanEnd, vars, counters, call

-----------------------------------------------------------------------------
(* The entry counter against what is stored.                               *)

LEMMA UncountedFinite ==
  ASSUME TypeOK, LockInv
  PROVE  IsFiniteSet(Uncounted) /\ Cardinality(Uncounted) \in Nat
<1>1. Uncounted \subseteq Committed
  BY DEF Uncounted, Committed
<1>2. QED
  BY <1>1, CommittedFinite, FS_Subset, FS_CardinalityType

LEMMA StoredKept == StoredInv /\ UNCHANGED <<data, entries>> /\ Uncounted' = Uncounted => StoredInv'
  BY DEF StoredInv, EntriesUnderstate, Stored

(* Taking a key out takes at most one entry out, and no other key's.       *)
LEMMA StoredLess ==
  ASSUME TypeOK, KeyInv, NEW k \in Keys, data' = [data EXCEPT ![k] = NoEntry]
  PROVE  Stored' = Stored \ {data[k]}
<1>1. \A x \in Keys : Present(x) /\ data[x] = data[k] => x = k
  BY DEF KeyInv, Present
<1>2. QED
  BY <1>1 DEF Stored, TypeOK, Present

LEMMA DeleteCounts ==
  ASSUME TypeOK, KeyInv, LockInv, StoredInv,
         NEW s, NEW k \in Keys, NEW e, DeleteFromShard(s, k, e), Uncounted' = Uncounted
  PROVE  StoredInv'
<1>1. Stored' = Stored \ {data[k]} /\ entries' = entries - 1
  BY StoredLess DEF DeleteFromShard
<1>2. /\ IsFiniteSet(Stored') /\ Cardinality(Stored) \in Nat
      /\ Cardinality(Stored') = IF data[k] \in Stored THEN Cardinality(Stored) - 1 ELSE Cardinality(Stored)
  BY <1>1, FS_RemoveElement, FS_CardinalityType DEF StoredInv
<1>3. entries \in Int
  BY DEF TypeOK
<1>4. QED
  BY <1>1, <1>2, <1>3, UncountedFinite DEF StoredInv, EntriesUnderstate

LEMMA StoredStep ==
  TypeOK /\ KeyInv /\ LockInv /\ StoredInv /\ [Next]_vars => StoredInv'
<1> SUFFICES ASSUME TypeOK, KeyInv, LockInv, StoredInv, [Next]_vars PROVE StoredInv'
  OBVIOUS
<1>0. entries \in Int /\ pc \in [Threads -> {"idle", "count", "memory", "account", "touch", "purge"}]
  BY DEF TypeOK
<1>1. CASE UNCHANGED <<data, entries, pc>>
  BY <1>1, StoredKept DEF Uncounted
<1>2. ASSUME NEW t \in Threads, Evict(t) PROVE StoredInv'
  <2>1. Uncounted' = Uncounted
    BY <1>2 DEF Evict, call, Uncounted
  <2>2. QED
    BY <1>2, <2>1, EvictTypes, DeleteCounts
<1>3. ASSUME NEW t \in Threads, CountPasses(t) PROVE StoredInv'
  <2>1. Uncounted' = Uncounted /\ UNCHANGED <<data, entries>>
    BY <1>0, <1>3 DEF CountPasses, Uncounted, store, counters
  <2>2. QED
    BY <2>1, StoredKept
<1>4. ASSUME NEW t \in Threads, NEW e \in Entries, NEW x \in TTLs, Insert(t, e, x) PROVE StoredInv'
  <2> DEFINE k == key[t]
             rest == Stored \ {data[k]}
  <2>1. /\ k \in Keys /\ e \notin Stored /\ e # NoEntry
        /\ data' = [data EXCEPT ![k] = e] /\ data \in [Keys -> Pointer]
        /\ entries' = IF Present(k) THEN entries - 1 ELSE entries
    BY <1>4, StoreAssumption DEF Insert, Unused, LockInv, TypeOK
  <2>2. Stored' = rest \cup {e}
    <3>1. \A y \in Keys : Present(y) /\ data[y] = data[k] => y = k
      BY <2>1 DEF KeyInv, Present
    <3>2. QED
      BY <2>1, <3>1 DEF Stored, Present
  <2>3. Uncounted' = Uncounted \cup {t} /\ t \notin Uncounted
    BY <1>0, <1>4 DEF Insert, Uncounted
  <2>4. Cardinality(Uncounted') = Cardinality(Uncounted) + 1
    BY <2>3, UncountedFinite, FS_AddElement
  <2>5. /\ IsFiniteSet(rest) /\ Cardinality(Stored) \in Nat
        /\ Cardinality(rest) = IF Present(k) THEN Cardinality(Stored) - 1 ELSE Cardinality(Stored)
    <3>1. data[k] \in Stored <=> Present(k)
      BY <2>1 DEF Stored, Present
    <3>2. QED
      BY <3>1, FS_RemoveElement, FS_CardinalityType DEF StoredInv
  <2>6. IsFiniteSet(Stored') /\ Cardinality(Stored') = Cardinality(rest) + 1
    BY <2>1, <2>2, <2>5, FS_AddElement
  <2>7. entries + Cardinality(Uncounted) <= Cardinality(Stored)
    BY DEF StoredInv, EntriesUnderstate
  <2> HIDE DEF k, rest
  <2>8. entries' + Cardinality(Uncounted') <= Cardinality(Stored')
    BY <1>0, <2>1, <2>4, <2>5, <2>6, <2>7, UncountedFinite
  <2>9. QED
    BY <2>6, <2>8 DEF StoredInv, EntriesUnderstate
<1>5. ASSUME NEW t \in Threads, SetEnd(t) PROVE StoredInv'
  <2>1. Uncounted' = Uncounted \ {t} /\ t \in Uncounted /\ entries' = entries + 1 /\ Stored' = Stored
    BY <1>0, <1>5 DEF SetEnd, Return, Uncounted, store, Stored
  <2>2. Cardinality(Uncounted') = Cardinality(Uncounted) - 1
    BY <2>1, UncountedFinite, FS_RemoveElement
  <2>3. Cardinality(Stored) \in Nat
    BY FS_CardinalityType DEF StoredInv
  <2>4. QED
    BY <1>0, <2>1, <2>2, <2>3, UncountedFinite DEF StoredInv, EntriesUnderstate
<1>6. ASSUME NEW t \in Threads, NEW k \in Keys, SetBegin(t, k) \/ Get(t, k) PROVE StoredInv'
  <2>1. Uncounted' = Uncounted /\ UNCHANGED <<data, entries>>
    BY <1>0, <1>6 DEF SetBegin, Get, Uncounted, store, counters
  <2>2. QED
    BY <2>1, StoredKept
<1>7. ASSUME NEW t \in Threads, Touch(t) PROVE StoredInv'
  <2>1. Uncounted' = Uncounted /\ UNCHANGED <<data, entries>>
    BY <1>0, <1>7 DEF Touch, Return, Uncounted, counters
  <2>2. QED
    BY <2>1, StoredKept
<1>8. ASSUME NEW t \in Threads, Purge(t) PROVE StoredInv'
  <2>1. Uncounted' = Uncounted /\ key[t] \in Keys
    BY <1>0, <1>8 DEF Purge, Return, Uncounted, LockInv
  <2>2. CASE Expired(key[t])
    BY <1>8, <2>1, <2>2, DeleteCounts DEF Purge
  <2>3. CASE ~Expired(key[t])
    BY <1>8, <2>1, <2>3, StoredKept DEF Purge, counters
  <2>4. QED
    BY <2>2, <2>3
<1>9. ASSUME NEW k \in Keys, Delete(k) PROVE StoredInv'
  <2>1. Uncounted' = Uncounted
    BY <1>9 DEF Delete, call, Uncounted
  <2>2. QED
    BY <1>9, <2>1, DeleteCounts DEF Delete
<1>10. ASSUME NEW k \in Keys, CleanDelete(k) PROVE StoredInv'
  <2>1. Uncounted' = Uncounted
    BY <1>10 DEF CleanDelete, call, Uncounted
  <2>2. CASE data[k] \in now
    BY <1>10, <2>1, <2>2, DeleteCounts DEF CleanDelete
  <2>3. CASE data[k] \notin now
    BY <1>10, <2>1, <2>3, StoredKept DEF CleanDelete, counters
  <2>4. QED
    BY <2>2, <2>3
<1>11. QED
  BY <1>1, <1>2, <1>3, <1>4, <1>5, <1>6, <1>7, <1>8, <1>9, <1>10
  DEF Next, SetStep, CleanStep, Expire, CleanTick, CleanScan, CleanUnlock, CleanEnd, vars, store, counters, call

-----------------------------------------------------------------------------
(* The memory counter against the sizes of what is stored.                 *)

Held == {k \in Keys : Present(k)}

LEMMA MemoryIs == MemoryUnderstates <=> memory + Sum(Taken, Uncounted) <= Sum(SizeOf, Held)
  BY DEF MemoryUnderstates, Memory, Sum, Held

LEMMA HeldFinite ==
  ASSUME KeyInv, StoredInv
  PROVE  IsFiniteSet(Held)
<1> DEFINE f == [k \in Held |-> data[k]]
<1>1. \A k \in Held : data[k] \in Stored /\ KeyOf(data[k]) = k
  BY DEF Held, Stored, Present, KeyInv
<1>2. f \in Injection(Held, Stored)
  BY <1>1 DEF Injection, IsInjective
<1>3. QED
  BY <1>2, FS_Injection DEF StoredInv

LEMMA MemoryTypes ==
  ASSUME TypeOK, KeyInv, LockInv, StoredInv
  PROVE  /\ memory \in Int /\ IsFiniteSet(Held) /\ IsFiniteSet(Uncounted)
         /\ \A k \in Held : SizeOf[k] \in Nat
         /\ \A t \in Uncounted : key[t] \in Keys /\ Taken[t] = SizeOf[key[t]] /\ Taken[t] \in Nat
         /\ Sum(SizeOf, Held) \in Nat /\ Sum(Taken, Uncounted) \in Nat
<1>1. memory \in Int /\ \A k \in Keys : SizeOf[k] \in Nat
  BY StoreAssumption DEF TypeOK
<1>2. \A k \in Held : SizeOf[k] \in Nat
  BY <1>1 DEF Held
<1>3. \A t \in Uncounted : key[t] \in Keys /\ Taken[t] = SizeOf[key[t]] /\ Taken[t] \in Nat
  BY <1>1 DEF Taken, Uncounted, LockInv
<1>4. Held \in SUBSET Held /\ Uncounted \in SUBSET Uncounted
  OBVIOUS
<1>5. IsFiniteSet(Held) /\ IsFiniteSet(Uncounted)
  BY HeldFinite, UncountedFinite
<1>6. Sum(SizeOf, Held) \in Nat
  BY <1>2, <1>4, <1>5, SumType
<1>7. Sum(Taken, Uncounted) \in Nat
  BY <1>3, <1>4, <1>5, SumType
<1>8. QED
  BY <1>1, <1>2, <1>3, <1>5, <1>6, <1>7

(* Who is about to count keeps its key. *)
LEMMA TakenKept ==
  ASSUME IsFiniteSet(Uncounted), Uncounted' = Uncounted, \A t \in Uncounted : key'[t] = key[t]
  PROVE  Sum(Taken', Uncounted') = Sum(Taken, Uncounted)
<1>1. \A t \in Uncounted : Taken'[t] = Taken[t]
  BY DEF Taken
<1>2. QED
  BY <1>1, SumSame

LEMMA DeleteMemory ==
  ASSUME TypeOK, KeyInv, LockInv, StoredInv, MemoryUnderstates,
         NEW s, NEW k \in Keys, NEW e, DeleteFromShard(s, k, e),
         Uncounted' = Uncounted, \A t \in Uncounted : key'[t] = key[t]
  PROVE  MemoryUnderstates'
<1>1. memory' = memory - SizeOf[k] /\ SizeOf[k] \in Nat
  BY StoreAssumption DEF DeleteFromShard
<1>2. Held' = Held \ {k}
  BY DEF DeleteFromShard, Held, Present, TypeOK
<1>3. Sum(SizeOf, Held) <= Sum(SizeOf, Held \ {k}) + SizeOf[k] /\ Sum(SizeOf, Held \ {k}) \in Nat
  <2>1. /\ IsFiniteSet(Held) /\ (\A x \in Held : SizeOf[x] \in Nat /\ SizeOf[x] \in Int)
        /\ Sum(SizeOf, Held) \in Nat /\ Held \in SUBSET Held /\ Held \ {k} \in SUBSET Held
    BY MemoryTypes
  <2>2. Sum(SizeOf, Held \ {k}) \in Nat
    BY <2>1, SumType
  <2>3. CASE k \in Held
    <3>1. Sum(SizeOf, Held) = SizeOf[k] + Sum(SizeOf, Held \ {k})
      BY <2>1, <2>3, SumTake
    <3>2. QED
      BY <1>1, <2>2, <3>1
  <2>4. CASE k \notin Held
    <3>1. Held \ {k} = Held
      BY <2>4
    <3>2. Sum(SizeOf, Held) = Sum(SizeOf, Held \ {k})
      BY <3>1
    <3>3. QED
      BY <1>1, <2>2, <3>2
  <2>5. QED
    BY <2>3, <2>4
<1>4. /\ Sum(Taken', Uncounted') = Sum(Taken, Uncounted)
      /\ Sum(Taken, Uncounted) \in Nat /\ memory \in Int /\ Sum(SizeOf, Held) \in Nat
  BY MemoryTypes, TakenKept
<1>5. memory + Sum(Taken, Uncounted) <= Sum(SizeOf, Held)
  BY MemoryIs
<1>6. memory' + Sum(Taken', Uncounted') <= Sum(SizeOf, Held \ {k})
  BY <1>1, <1>3, <1>4, <1>5
<1>7. QED
  BY <1>2, <1>6 DEF MemoryUnderstates, Memory, Sum, Held

LEMMA MemoryKept ==
  ASSUME MemoryUnderstates, IsFiniteSet(Uncounted), UNCHANGED <<data, memory>>,
         Uncounted' = Uncounted, \A t \in Uncounted : key'[t] = key[t]
  PROVE  MemoryUnderstates'
<1>1. Sum(Taken', Uncounted') = Sum(Taken, Uncounted)
  BY TakenKept
<1>2. QED
  BY <1>1 DEF MemoryUnderstates, Memory, Sum, Present

LEMMA MemoryStep ==
  TypeOK /\ KeyInv /\ LockInv /\ StoredInv /\ MemoryUnderstates /\ [Next]_vars => MemoryUnderstates'
<1> SUFFICES ASSUME TypeOK, KeyInv, LockInv, StoredInv, MemoryUnderstates, [Next]_vars
             PROVE  MemoryUnderstates'
  OBVIOUS
<1>0. /\ pc \in [Threads -> {"idle", "count", "memory", "account", "touch", "purge"}]
      /\ key \in [Threads -> Keys \cup {NoKey}]
      /\ IsFiniteSet(Uncounted)
  BY MemoryTypes DEF TypeOK
<1> DEFINE Same == Uncounted' = Uncounted /\ \A t \in Uncounted : key'[t] = key[t]
<1>1. CASE UNCHANGED <<data, memory, pc, key>>
  BY <1>0, <1>1, MemoryKept DEF Uncounted
<1>2. ASSUME NEW t \in Threads, Evict(t) PROVE MemoryUnderstates'
  <2>1. Same
    BY <1>2 DEF Evict, call, Uncounted
  <2>2. QED
    BY <1>2, <2>1, EvictTypes, DeleteMemory
<1>3. ASSUME NEW t \in Threads, NEW e \in Entries, NEW x \in TTLs, Insert(t, e, x)
      PROVE  MemoryUnderstates'
  <2> DEFINE k == key[t]
             W == Sum(Taken, Uncounted)
             M == Sum(SizeOf, Held)
  <2>1. /\ k \in Keys /\ SizeOf[k] \in Nat /\ e # NoEntry
        /\ data' = [data EXCEPT ![k] = e] /\ data \in [Keys -> Pointer]
        /\ memory' = IF Present(k) THEN memory - SizeOf[k] ELSE memory
        /\ pc' = [pc EXCEPT ![t] = "account"] /\ key' = key /\ pc[t] = "memory"
    BY <1>3, StoreAssumption DEF Insert, LockInv, TypeOK
  <2>2. Held' = Held \cup {k} /\ (Present(k) <=> k \in Held)
    BY <2>1 DEF Held, Present
  <2>3. Uncounted' = Uncounted \cup {t} /\ t \notin Uncounted
    BY <1>0, <2>1 DEF Uncounted
  <2>4. Taken'[t] = SizeOf[k] /\ \A u \in Uncounted : Taken'[u] = Taken[u]
    BY <2>1, <2>3 DEF Taken
  <2> HIDE DEF k
  <2>5. Sum(Taken', Uncounted \cup {t}) = SizeOf[k] + W
    <3>1. Sum(Taken', Uncounted) = W
      BY <1>0, <2>4, SumSame
    <3>2. \A u \in Uncounted \cup {t} : Taken'[u] \in Int
      BY <2>1, <2>4, MemoryTypes
    <3>3. Sum(Taken', Uncounted \cup {t}) = Taken'[t] + Sum(Taken', Uncounted)
      BY <1>0, <2>3, <3>2, SumJoin
    <3>4. QED
      BY <2>4, <3>1, <3>3
  <2>6. Sum(SizeOf, Held \cup {k}) = IF Present(k) THEN M ELSE SizeOf[k] + M
    <3>1. CASE Present(k)
      <4>1. Held \cup {k} = Held
        BY <2>2, <3>1
      <4>2. QED
        BY <3>1, <4>1
    <3>2. CASE ~Present(k)
      <4>1. /\ IsFiniteSet(Held) /\ k \notin Held
            /\ \A y \in Held \cup {k} : SizeOf[y] \in Int
        BY <2>1, <2>2, <3>2, MemoryTypes
      <4>2. QED
        BY <3>2, <4>1, SumJoin
    <3>3. QED
      BY <3>1, <3>2
  <2>7. memory + W <= M /\ memory \in Int /\ W \in Nat /\ M \in Nat
    BY MemoryTypes, MemoryIs
  <2> HIDE DEF W, M
  <2>8. memory' + Sum(Taken', Uncounted \cup {t}) <= Sum(SizeOf, Held \cup {k})
    BY <2>1, <2>5, <2>6, <2>7
  <2>9. QED
    BY <2>2, <2>3, <2>8 DEF MemoryUnderstates, Memory, Sum, Held
<1>4. ASSUME NEW t \in Threads, SetEnd(t) PROVE MemoryUnderstates'
  <2> DEFINE rest == Uncounted \ {t}
  <2>1. /\ memory' = memory + SizeOf[key[t]] /\ data' = data /\ pc[t] = "account"
        /\ pc' = [pc EXCEPT ![t] = "idle"] /\ key' = [key EXCEPT ![t] = NoKey]
    BY <1>4 DEF SetEnd, Return, store
  <2>2. Uncounted' = rest /\ t \in Uncounted
    BY <1>0, <2>1 DEF Uncounted
  <2>3. \A u \in rest : Taken'[u] = Taken[u]
    BY <1>0, <2>1, <2>2 DEF Taken, Uncounted
  <2>4. /\ \A u \in Uncounted : Taken[u] \in Int /\ Taken[u] \in Nat
        /\ Taken[t] = SizeOf[key[t]] /\ Taken[t] \in Nat
    BY <2>2, MemoryTypes
  <2>5. Uncounted \in SUBSET Uncounted /\ rest \in SUBSET Uncounted /\ IsFiniteSet(rest)
    BY <1>0, FS_Subset
  <2>6. Sum(Taken, Uncounted) = Taken[t] + Sum(Taken, rest)
    BY <1>0, <2>2, <2>4, <2>5, SumTake
  <2>7. Sum(Taken', rest) = Sum(Taken, rest)
    BY <2>3, <2>5, SumSame
  <2>8. Sum(Taken, rest) \in Nat
    BY <1>0, <2>4, <2>5, SumType
  <2>9. memory + Sum(Taken, Uncounted) <= Sum(SizeOf, Held) /\ memory \in Int /\ Sum(SizeOf, Held) \in Nat
    BY MemoryTypes, MemoryIs
  <2>10. Held' = Held
    BY <2>1 DEF Held, Present
  <2> HIDE DEF rest
  <2>11. memory' + Sum(Taken', rest) <= Sum(SizeOf, Held)
    BY <2>1, <2>4, <2>6, <2>7, <2>8, <2>9
  <2>12. QED
    BY <2>2, <2>10, <2>11 DEF MemoryUnderstates, Memory, Sum, Held
<1>5. ASSUME NEW t \in Threads, NEW k \in Keys, SetBegin(t, k) \/ Get(t, k) PROVE MemoryUnderstates'
  <2>1. Same /\ UNCHANGED <<data, memory>>
    BY <1>0, <1>5 DEF SetBegin, Get, Uncounted, store, counters
  <2>2. QED
    BY <1>0, <2>1, MemoryKept
<1>6. ASSUME NEW t \in Threads, CountPasses(t) \/ Touch(t) PROVE MemoryUnderstates'
  <2>1. Same /\ UNCHANGED <<data, memory>>
    BY <1>0, <1>6 DEF CountPasses, Touch, Return, Uncounted, store, counters
  <2>2. QED
    BY <1>0, <2>1, MemoryKept
<1>7. ASSUME NEW t \in Threads, Purge(t) PROVE MemoryUnderstates'
  <2>1. Same /\ key[t] \in Keys
    BY <1>0, <1>7 DEF Purge, Return, Uncounted, LockInv
  <2>2. CASE Expired(key[t])
    BY <1>7, <2>1, <2>2, DeleteMemory DEF Purge
  <2>3. CASE ~Expired(key[t])
    BY <1>0, <1>7, <2>1, <2>3, MemoryKept DEF Purge, counters
  <2>4. QED
    BY <2>2, <2>3
<1>8. ASSUME NEW k \in Keys, Delete(k) PROVE MemoryUnderstates'
  <2>1. Same
    BY <1>8 DEF Delete, call, Uncounted
  <2>2. QED
    BY <1>8, <2>1, DeleteMemory DEF Delete
<1>9. ASSUME NEW k \in Keys, CleanDelete(k) PROVE MemoryUnderstates'
  <2>1. Same
    BY <1>9 DEF CleanDelete, call, Uncounted
  <2>2. CASE data[k] \in now
    BY <1>9, <2>1, <2>2, DeleteMemory DEF CleanDelete
  <2>3. CASE data[k] \notin now
    BY <1>0, <1>9, <2>1, <2>3, MemoryKept DEF CleanDelete, counters
  <2>4. QED
    BY <2>2, <2>3
<1>10. QED
  BY <1>1, <1>2, <1>3, <1>4, <1>5, <1>6, <1>7, <1>8, <1>9
  DEF Next, SetStep, CleanStep, Expire, CleanTick, CleanScan, CleanUnlock, CleanEnd, vars, store, counters, call

-----------------------------------------------------------------------------
(* The lists.                                                              *)

LEMMA RemoveLinked ==
  ASSUME NEW l \in List, NEW S \in SUBSET Entries, Linked(l, S), NEW e \in Entries
  PROVE  /\ Linked(Remove(l, e), S \ {e})
         /\ Remove(l, e).tail \in {l.tail, NoEntry} \cup (S \ {e})
<1> DEFINE p == l.prev[e]
           n == l.next[e]
           r == Remove(l, e)
<1>1. /\ l.next \in [Entries -> Pointer] /\ l.prev \in [Entries -> Pointer]
      /\ l.head \in Pointer /\ l.tail \in Pointer /\ NoEntry \notin Entries
      /\ p \in Pointer /\ n \in Pointer /\ (\A x \in Pointer : x # NoEntry => x \in Entries)
  BY StoreAssumption DEF List, Pointer
<1>2. /\ r.head = IF p = NoEntry THEN n ELSE l.head
      /\ r.tail = IF n = NoEntry THEN p ELSE l.tail
      /\ r.next = [Point(l.next, p, n) EXCEPT ![e] = NoEntry]
      /\ r.prev = [Point(l.prev, n, p) EXCEPT ![e] = NoEntry]
  BY DEF Remove, Unlinked, List
<1>3. \A x \in Entries :
        /\ r.next[x] = IF x = e THEN NoEntry ELSE IF x = p THEN n ELSE l.next[x]
        /\ r.prev[x] = IF x = e THEN NoEntry ELSE IF x = n THEN p ELSE l.prev[x]
  BY <1>1, <1>2, PointType DEF Point
<1>4. /\ n # NoEntry => e \in S /\ n \in S /\ l.prev[n] = e
      /\ p # NoEntry => e \in S /\ p \in S /\ l.next[p] = e
      /\ (n = e <=> p = e)
  BY <1>1 DEF Linked
<1>5. /\ \A x \in Entries : l.next[x] # NoEntry =>
            x \in S /\ l.next[x] \in S /\ l.next[x] \in Entries /\ l.prev[l.next[x]] = x
      /\ \A x \in Entries : l.prev[x] # NoEntry =>
            x \in S /\ l.prev[x] \in S /\ l.prev[x] \in Entries /\ l.next[l.prev[x]] = x
      /\ l.head # NoEntry => l.head \in S /\ l.head \in Entries /\ l.prev[l.head] = NoEntry
  BY <1>1 DEF Linked
<1> HIDE DEF p, n, r
<1>6. ASSUME NEW x \in Entries, r.next[x] # NoEntry
      PROVE  x \in S \ {e} /\ r.next[x] \in S \ {e} /\ r.prev[r.next[x]] = x
  <2>1. CASE x = p
    BY <1>1, <1>3, <1>4, <1>5, <1>6, <2>1
  <2>2. CASE x # p
    BY <1>1, <1>3, <1>4, <1>5, <1>6, <2>2 DEF p, n
  <2>3. QED
    BY <2>1, <2>2
<1>7. ASSUME NEW x \in Entries, r.prev[x] # NoEntry
      PROVE  x \in S \ {e} /\ r.prev[x] \in S \ {e} /\ r.next[r.prev[x]] = x
  <2>1. CASE x = n
    BY <1>1, <1>3, <1>4, <1>5, <1>7, <2>1
  <2>2. CASE x # n
    BY <1>1, <1>3, <1>4, <1>5, <1>7, <2>2 DEF p, n
  <2>3. QED
    BY <2>1, <2>2
<1>8. r.head # NoEntry => r.head \in S \ {e} /\ r.prev[r.head] = NoEntry
  <2>1. CASE p = NoEntry
    BY <1>1, <1>2, <1>3, <1>4, <2>1
  <2>2. CASE p # NoEntry
    BY <1>1, <1>2, <1>3, <1>4, <1>5, <2>2 DEF p
  <2>3. QED
    BY <2>1, <2>2
<1>9. r.tail \in {l.tail, NoEntry} \cup (S \ {e})
  BY <1>1, <1>2, <1>4
<1>10. QED
  BY <1>6, <1>7, <1>8, <1>9 DEF Linked, r

(* An entry that is put in front of a list it is not in is its tail, too.  *)
LEMMA MoveLinked ==
  ASSUME NEW l \in List, NEW S \in SUBSET Entries, Linked(l, S), NEW e \in Entries
  PROVE  /\ Linked(MoveToFront(l, e), S \cup {e})
         /\ MoveToFront(l, e).tail \in {l.tail, e} \cup S
         /\ e \notin S => MoveToFront(l, e).tail = e
<1> DEFINE p == l.prev[e]
           n == l.next[e]
           h == l.head
           u == Unlinked(l, e)
           m == MoveToFront(l, e)
<1>1. /\ l.next \in [Entries -> Pointer] /\ l.prev \in [Entries -> Pointer]
      /\ h \in Pointer /\ l.tail \in Pointer /\ NoEntry \notin Entries
      /\ p \in Pointer /\ n \in Pointer /\ (\A x \in Pointer : x # NoEntry => x \in Entries)
  BY StoreAssumption DEF List, Pointer
<1>2. /\ n # NoEntry => e \in S /\ n \in S /\ l.prev[n] = e
      /\ p # NoEntry => e \in S /\ p \in S /\ l.next[p] = e
      /\ (n = e <=> p = e)
  BY <1>1 DEF Linked
<1>3. /\ \A x \in Entries : l.next[x] # NoEntry =>
            x \in S /\ l.next[x] \in S /\ l.next[x] \in Entries /\ l.prev[l.next[x]] = x
      /\ \A x \in Entries : l.prev[x] # NoEntry =>
            x \in S /\ l.prev[x] \in S /\ l.prev[x] \in Entries /\ l.next[l.prev[x]] = x
      /\ h # NoEntry => h \in S /\ h \in Entries /\ l.prev[h] = NoEntry
  BY <1>1 DEF Linked
<1>4. CASE h = e
  <2>1. m = l /\ S \cup {e} = S /\ e \in S
    BY <1>1, <1>3, <1>4 DEF MoveToFront
  <2>2. l.tail \in {l.tail, e} \cup S
    OBVIOUS
  <2> HIDE DEF m, h
  <2>3. Linked(m, S \cup {e}) /\ m.tail \in {l.tail, e} \cup S
    BY <2>1, <2>2
  <2>4. QED
    BY <2>1, <2>3 DEF m
<1>5. CASE h # e
  <2>1. /\ u.next = Point(l.next, p, n) /\ u.prev = Point(l.prev, n, p)
        /\ u.next \in [Entries -> Pointer] /\ u.prev \in [Entries -> Pointer]
        /\ u.tail = (IF n = NoEntry THEN p ELSE l.tail) /\ u \in List
    BY <1>1, PointType, UnlinkedType DEF Unlinked, List
  <2>2. /\ m.head = e
        /\ m.tail = IF u.tail = NoEntry THEN e ELSE u.tail
        /\ m.next = [u.next EXCEPT ![e] = h]
        /\ m.prev = Point([u.prev EXCEPT ![e] = NoEntry], h, e)
    <3> HIDE DEF u
    <3>1. m = [u EXCEPT !.next = [u.next EXCEPT ![e] = h],
                        !.prev = Point([u.prev EXCEPT ![e] = NoEntry], h, e),
                        !.head = e,
                        !.tail = IF @ = NoEntry THEN e ELSE @]
      BY <1>5 DEF MoveToFront, u
    <3>2. QED
      BY <2>1, <3>1 DEF List
  <2>3. \A x \in Entries :
          /\ m.next[x] = IF x = e THEN h ELSE IF x = p THEN n ELSE l.next[x]
          /\ m.prev[x] = IF x = h THEN e ELSE IF x = e THEN NoEntry
                         ELSE IF x = n THEN p ELSE l.prev[x]
    <3> HIDE DEF u, m, p, n, h
    <3>1. \A x \in Entries : /\ u.next[x] = IF x = p THEN n ELSE l.next[x]
                             /\ u.prev[x] = IF x = n THEN p ELSE l.prev[x]
      BY <1>1, <2>1 DEF Point
    <3>2. QED
      BY <1>1, <2>1, <2>2, <3>1 DEF Point
  <2> HIDE DEF p, n, h, u, m
  <2>4. h # NoEntry => n # h /\ (\A x \in Entries : l.next[x] # h)
    BY <1>1, <1>2, <1>3
  <2>5. ASSUME NEW x \in Entries, m.next[x] # NoEntry
        PROVE  x \in S \cup {e} /\ m.next[x] \in S \cup {e} /\ m.prev[m.next[x]] = x
    <3>1. CASE x = e
      BY <1>1, <1>3, <2>3, <2>5, <3>1
    <3>2. CASE x # e /\ x = p
      BY <1>1, <1>2, <2>3, <2>4, <2>5, <3>2
    <3>3. CASE x # e /\ x # p
      <4>1. m.next[x] = l.next[x] /\ l.next[x] \in Entries /\ x \in S /\ l.next[x] \in S
        BY <1>3, <2>3, <2>5, <3>3
      <4>2. l.next[x] # h /\ l.next[x] # e /\ l.next[x] # n
        BY <1>1, <1>2, <1>3, <2>4, <3>3, <4>1 DEF p
      <4>3. QED
        BY <1>1, <1>3, <2>3, <4>1, <4>2
    <3>4. QED
      BY <3>1, <3>2, <3>3
  <2>6. ASSUME NEW x \in Entries, m.prev[x] # NoEntry
        PROVE  x \in S \cup {e} /\ m.prev[x] \in S \cup {e} /\ m.next[m.prev[x]] = x
    <3>1. CASE x = h
      BY <1>1, <1>3, <2>3, <2>6, <3>1
    <3>2. CASE x # h /\ x = n
      BY <1>1, <1>2, <2>3, <2>4, <2>6, <3>2
    <3>3. CASE x # h /\ x # n
      <4>1. x # e /\ m.prev[x] = l.prev[x] /\ l.prev[x] \in Entries /\ x \in S /\ l.prev[x] \in S
        BY <1>3, <2>3, <2>6, <3>3
      <4>2. l.prev[x] # e /\ l.prev[x] # p
        BY <1>1, <1>2, <1>3, <3>3, <4>1 DEF n
      <4>3. QED
        BY <1>1, <1>3, <2>3, <4>1, <4>2
    <3>4. QED
      BY <3>1, <3>2, <3>3
  <2>7. m.head \in S \cup {e} /\ m.prev[m.head] = NoEntry
    BY <1>5, <2>2, <2>3
  <2>8. m.tail \in {l.tail, e} \cup S /\ (e \notin S => m.tail = e)
    BY <1>1, <1>2, <2>1, <2>2
  <2>9. QED
    BY <2>5, <2>6, <2>7, <2>8 DEF Linked, m
<1>6. QED
  BY <1>4, <1>5

(* A walk from the head stays within S. *)
LEMMA ChainIn ==
  ASSUME NEW l \in List, NEW S \in SUBSET Entries, Linked(l, S)
  PROVE  Chain(l) \subseteq S
<1> DEFINE c == Cardinality(Entries)
           first == {l.head} \ {NoEntry}
           more(T) == T \cup ({l.next[e] : e \in T} \ {NoEntry})
           F == [a \in (1..c) \X SUBSET S |-> more(a[2])]
           IsChain(g) == g = [n \in 0..c |-> IF n = 0 THEN first ELSE more(g[n - 1])]
           after == CHOOSE g : IsChain(g)
<1>1. c \in Nat
  BY FiniteAssumption, FS_CardinalityType
<1>2. first \in SUBSET S
  BY DEF Linked
<1>3. \A T \in SUBSET S : more(T) \in SUBSET S
  BY DEF Linked
<1>4. Chain(l) = after[c]
  BY DEF Chain
<1> HIDE DEF c, first, more
<1>5. PICK g \in [0..c -> SUBSET S] : g[0] = first /\ \A i \in 1..c : g[i] = F[<<i, g[i - 1]>>]
  <2>1. \A i \in 1..c, T \in SUBSET S : F[<<i, T>>] \in SUBSET S
    BY <1>3
  <2> DEFINE D == SUBSET S
  <2> HIDE DEF F, D
  <2>2. first \in D /\ StaysIn(D, c, F)
    BY <1>2, <2>1 DEF D, StaysIn
  <2>3. \E g \in [0..c -> D] : g[0] = first /\ \A i \in 1..c : g[i] = F[<<i, g[i - 1]>>]
    BY <1>1, <2>2, StepsExist
  <2>4. QED
    BY <2>3 DEF D
<1>6. \A i \in 1..c : i - 1 \in 0..c /\ g[i] = more(g[i - 1])
  <2>1. ASSUME NEW i \in 1..c PROVE i - 1 \in 0..c /\ g[i - 1] \in SUBSET S
    BY <1>1, <1>5
  <2>2. QED
    BY <1>5, <2>1
<1> HIDE DEF F
<1>7. IsChain(g)
  BY <1>1, <1>5, <1>6
<1>8. IsChain(after)
  BY <1>7
<1> DEFINE C == {n \in Nat : n <= c => after[n] \in SUBSET S}
<1> HIDE DEF after
<1>9. /\ after[0] = first
      /\ \A n \in 0..c : n # 0 => after[n] = more(after[n - 1])
  BY <1>1, <1>8
<1>10. 0 \in C /\ \A n \in Nat : n \in C => n + 1 \in C
  <2>1. 0 \in C
    BY <1>2, <1>9
  <2>2. ASSUME NEW n \in Nat, n \in C, n + 1 <= c PROVE after[n + 1] \in SUBSET S
    <3>1. n + 1 \in 0..c /\ n + 1 # 0 /\ (n + 1) - 1 = n /\ n <= c
      BY <1>1, <2>2
    <3>2. after[n + 1] = more(after[n])
      BY <1>9, <3>1
    <3>3. QED
      BY <1>3, <2>2, <3>1, <3>2
  <2>3. QED
    BY <2>1, <2>2
<1>11. c \in C
  <2> HIDE DEF C
  <2>1. QED
    BY <1>1, <1>10, StepByStep
<1>12. QED
  BY <1>1, <1>4, <1>11

(* What a deletion under key k does to the lists, when its entry e is the  *)
(* one stored under k or nothing is.                                       *)
LEMMA DeleteLists ==
  ASSUME TypeOK, ListInv, NEW s \in Shards, NEW k \in Keys, NEW e \in Entries,
         KeyOf(e) = k, ShardOf[k] = s, data[k] \in {e, NoEntry}, DeleteFromShard(s, k, e)
  PROVE  ListInv'
<1>1. /\ data' = [data EXCEPT ![k] = NoEntry] /\ data \in [Keys -> Pointer]
      /\ lru' = [lru EXCEPT ![s] = Remove(lru[s], e)] /\ lru \in [Shards -> List]
      /\ NoEntry \notin Entries /\ \A x \in Entries : KeyOf(x) \in Keys
  BY StoreAssumption DEF DeleteFromShard, TypeOK, KeyOf, Entries
<1>2. \A x \in Entries : data'[KeyOf(x)] = IF KeyOf(x) = k THEN NoEntry ELSE data[KeyOf(x)]
  BY <1>1
<1>3. Members(s)' = Members(s) \ {e} /\ \A r \in Shards : r # s => Members(r)' = Members(r)
  BY <1>1, <1>2 DEF Members
<1>4. \A r \in Shards : Members(r) \in SUBSET Entries /\ Linked(lru[r], Members(r)) /\ lru[r] \in List
  BY <1>1 DEF ListInv, Members
<1>5. /\ Linked(Remove(lru[s], e), Members(s) \ {e})
      /\ Remove(lru[s], e).tail \in {lru[s].tail, NoEntry} \cup (Members(s) \ {e})
  BY <1>4, RemoveLinked
<1>6. lru'[s] = Remove(lru[s], e) /\ \A r \in Shards : r # s => lru'[r] = lru[r]
  BY <1>1
<1>7. \A r \in Shards : Linked(lru'[r], Members(r)')
  BY <1>3, <1>4, <1>5, <1>6
<1>8. ASSUME NEW r \in Shards, lru'[r].tail # NoEntry
      PROVE  /\ ShardOf[KeyOf(lru'[r].tail)] = r
             /\ data'[KeyOf(lru'[r].tail)] \in {lru'[r].tail, NoEntry}
  <2>1. lru'[r].tail \in {lru[r].tail} \cup Members(r)
    BY <1>5, <1>6, <1>8
  <2>2. /\ ShardOf[KeyOf(lru'[r].tail)] = r
        /\ data[KeyOf(lru'[r].tail)] \in {lru'[r].tail, NoEntry}
    BY <1>8, <2>1 DEF ListInv, TailIsItsOwn, Members
  <2>3. lru'[r].tail \in Entries
    BY <1>4, <1>8, <2>1 DEF Members, List, Pointer
  <2>4. QED
    BY <1>2, <2>2, <2>3
<1>9. QED
  BY <1>7, <1>8 DEF ListInv, TailIsItsOwn

LEMMA ListsKept == ListInv /\ UNCHANGED <<data, lru>> => ListInv'
  BY DEF ListInv, TailIsItsOwn, Members, Linked

LEMMA TouchLists ==
  ASSUME TypeOK, KeyInv, ListInv, NEW k \in Keys, Present(k), data' = data,
         lru' = [lru EXCEPT ![ShardOf[k]] = MoveToFront(lru[ShardOf[k]], data[k])]
  PROVE  ListInv'
<1> DEFINE s == ShardOf[k]
           e == data[k]
<1>1. /\ data \in [Keys -> Pointer] /\ lru \in [Shards -> List]
      /\ s \in Shards /\ e \in Entries /\ e \in Members(s)
  BY StoreAssumption DEF TypeOK, Present, Pointer, KeyInv, Members
<1>2. \A r \in Shards : Members(r)' = Members(r) /\ Members(r) \in SUBSET Entries
  BY DEF Members
<1> HIDE DEF s, e
<1>3. /\ Linked(MoveToFront(lru[s], e), Members(s) \cup {e})
      /\ MoveToFront(lru[s], e).tail \in {lru[s].tail, e} \cup Members(s)
  BY <1>1, <1>2, MoveLinked DEF ListInv
<1>4. lru'[s] = MoveToFront(lru[s], e) /\ \A r \in Shards : r # s => lru'[r] = lru[r]
  BY <1>1 DEF s, e
<1>5. Members(s) \cup {e} = Members(s)
  BY <1>1
<1>6. \A r \in Shards : Linked(lru'[r], Members(r)') /\ lru'[r].tail \in {lru[r].tail} \cup Members(r)
  BY <1>1, <1>2, <1>3, <1>4, <1>5 DEF ListInv
<1>7. \A r \in Shards : lru'[r].tail # NoEntry =>
         /\ ShardOf[KeyOf(lru'[r].tail)] = r
         /\ data[KeyOf(lru'[r].tail)] \in {lru'[r].tail, NoEntry}
  BY <1>6 DEF ListInv, TailIsItsOwn, Members
<1>8. QED
  BY <1>6, <1>7 DEF ListInv, TailIsItsOwn

LEMMA InsertLists ==
  ASSUME TypeOK, KeyInv, LockInv, ListInv, NEW t \in Threads, NEW e \in Entries, NEW x, Insert(t, e, x)
  PROVE  ListInv'
<1> DEFINE k == key[t]
           s == ShardOf[k]
           l == IF Present(k) THEN Remove(lru[s], data[k]) ELSE lru[s]
           rest == Members(s) \ {data[k]}
<1>1. /\ k \in Keys /\ s \in Shards /\ KeyOf(e) = k /\ NoEntry \notin Entries
      /\ data' = [data EXCEPT ![k] = e] /\ data \in [Keys -> Pointer]
      /\ lru' = [lru EXCEPT ![s] = MoveToFront(l, e)] /\ lru \in [Shards -> List]
      /\ \A y \in Entries : KeyOf(y) \in Keys
  BY StoreAssumption DEF Insert, LockInv, TypeOK, KeyOf, Entries
<1>2. Present(k) => data[k] \in Entries /\ KeyOf(data[k]) = k
  BY <1>1 DEF KeyInv, Present, Pointer
<1>3. e \notin Stored
  BY DEF Insert, Unused
<1> HIDE DEF k, s
<1>4. \A r \in Shards : Members(r) \in SUBSET Entries /\ Linked(lru[r], Members(r)) /\ lru[r] \in List
  BY <1>1 DEF ListInv, Members
<1>5. e \notin Members(s)
  BY <1>1, <1>3 DEF Members, Stored
<1>6. l \in List /\ Linked(l, rest)
  <2>1. CASE Present(k)
    BY <1>1, <1>2, <1>4, <2>1, RemoveLinked, RemoveType
  <2>2. CASE ~Present(k)
    <3>1. data[k] \notin Members(s)
      BY <1>1, <2>2 DEF Present, Members
    <3>2. rest = Members(s)
      BY <3>1
    <3>3. QED
      BY <1>1, <1>4, <2>2, <3>2
  <2>3. QED
    BY <2>1, <2>2
<1>7. /\ \A r \in Shards : r = s => Members(r)' = rest \cup {e}
      /\ \A r \in Shards : r # s => Members(r)' = Members(r)
  <2>1. \A y \in Entries : data'[KeyOf(y)] = IF KeyOf(y) = k THEN e ELSE data[KeyOf(y)]
    BY <1>1
  <2>2. ShardOf[k] = s
    BY DEF s
  <2>3. \A y \in Entries : KeyOf(y) # k => y # data[k]
    BY <1>1, <1>2 DEF Present
  <2>4. ASSUME NEW r \in Shards, r = s PROVE Members(r)' = rest \cup {e}
    BY <1>1, <1>5, <2>1, <2>2, <2>3, <2>4 DEF Members
  <2>5. \A r \in Shards : r # s => Members(r)' = Members(r)
    BY <1>1, <2>1, <2>2 DEF Members
  <2>6. QED
    BY <2>4, <2>5
<1> HIDE DEF l, rest
<1>8. Linked(MoveToFront(l, e), rest \cup {e}) /\ MoveToFront(l, e).tail = e
  <2>1. rest \in SUBSET Entries /\ e \notin rest
    BY <1>1, <1>4, <1>5 DEF rest
  <2>2. QED
    BY <1>6, <2>1, MoveLinked
<1>9. lru'[s] = MoveToFront(l, e) /\ \A r \in Shards : r # s => lru'[r] = lru[r]
  BY <1>1
<1>10. \A r \in Shards : Linked(lru'[r], Members(r)')
  BY <1>1, <1>4, <1>7, <1>8, <1>9
<1>11. ASSUME NEW r \in Shards, lru'[r].tail # NoEntry
       PROVE  /\ ShardOf[KeyOf(lru'[r].tail)] = r
              /\ data'[KeyOf(lru'[r].tail)] \in {lru'[r].tail, NoEntry}
  <2>1. CASE r = s
    BY <1>1, <1>8, <1>9, <2>1 DEF s
  <2>2. CASE r # s
    <3>1. /\ lru'[r].tail = lru[r].tail /\ ShardOf[KeyOf(lru[r].tail)] = r /\ lru[r].tail \in Entries
          /\ data[KeyOf(lru[r].tail)] \in {lru[r].tail, NoEntry}
      BY <1>4, <1>9, <1>11, <2>2 DEF ListInv, TailIsItsOwn, List, Pointer
    <3>2. KeyOf(lru[r].tail) # k /\ KeyOf(lru[r].tail) \in Keys
      BY <1>1, <2>2, <3>1 DEF s
    <3>3. QED
      BY <1>1, <3>1, <3>2
  <2>3. QED
    BY <2>1, <2>2
<1>12. QED
  BY <1>10, <1>11 DEF ListInv, TailIsItsOwn

LEMMA FoundStep == FoundInv /\ [Next]_vars => FoundInv'
<1> SUFFICES ASSUME FoundInv, [Next]_vars PROVE FoundInv'
  OBVIOUS
<1>1. CASE UNCHANGED <<cpc, shard, found>>
  BY <1>1 DEF FoundInv
<1>2. CASE CleanTick
  BY <1>2 DEF CleanTick, FoundInv
<1>3. CASE CleanScan
  BY <1>3 DEF CleanScan, FoundInv
<1>4. ASSUME NEW k \in Keys, CleanDelete(k) PROVE FoundInv'
  BY <1>4 DEF CleanDelete, FoundInv
<1>5. CASE CleanUnlock
  BY <1>5 DEF CleanUnlock, FoundInv
<1>6. CASE CleanEnd
  BY <1>6 DEF CleanEnd, FoundInv
<1>7. QED
  BY <1>1, <1>2, <1>3, <1>4, <1>5, <1>6
  DEF Next, SetStep, CleanStep, Expire, SetBegin, Evict, CountPasses, Insert, SetEnd, Get, Touch, Purge,
      Delete, vars, cleaner

LEMMA ListStep ==
  TypeOK /\ KeyInv /\ LockInv /\ FoundInv /\ ListInv /\ [Next]_vars => ListInv'
<1> SUFFICES ASSUME TypeOK, KeyInv, LockInv, FoundInv, ListInv, [Next]_vars PROVE ListInv'
  OBVIOUS
<1>0. /\ \A k \in Keys : ShardOf[k] \in Shards
      /\ \A k \in Keys : data[k] # NoEntry => data[k] \in Entries /\ KeyOf(data[k]) = k
  BY StoreAssumption DEF TypeOK, KeyInv, Present, Pointer
<1>1. CASE UNCHANGED <<data, lru>>
  BY <1>1, ListsKept
<1>2. ASSUME NEW t \in Threads, Evict(t) PROVE ListInv'
  <2> DEFINE s == ShardOf[key[t]]
             e == lru[s].tail
  <2>1. s \in Shards /\ e \in Entries /\ KeyOf(e) \in Keys /\ DeleteFromShard(s, KeyOf(e), e)
    BY <1>2, EvictTypes
  <2>2. e # NoEntry
    BY <2>1, StoreAssumption
  <2>3. ShardOf[KeyOf(e)] = s /\ data[KeyOf(e)] \in {e, NoEntry}
    BY <2>1, <2>2 DEF ListInv, TailIsItsOwn
  <2> HIDE DEF s, e
  <2>4. QED
    BY <2>1, <2>3, DeleteLists
<1>3. ASSUME NEW t \in Threads, NEW e \in Entries, NEW x \in TTLs, Insert(t, e, x) PROVE ListInv'
  BY <1>3, InsertLists
<1>4. ASSUME NEW t \in Threads, Touch(t) PROVE ListInv'
  <2>1. key[t] \in Keys /\ data' = data
    BY <1>4 DEF Touch, LockInv
  <2>2. CASE Present(key[t]) /\ ~Expired(key[t])
    BY <1>4, <2>1, <2>2, TouchLists DEF Touch
  <2>3. CASE ~(Present(key[t]) /\ ~Expired(key[t]))
    BY <1>4, <2>3, ListsKept DEF Touch
  <2>4. QED
    BY <2>2, <2>3
<1>5. ASSUME NEW k \in Keys, data[k] # NoEntry, DeleteFromShard(ShardOf[k], k, data[k]) PROVE ListInv'
  BY <1>0, <1>5, DeleteLists
<1>6. ASSUME NEW t \in Threads, Purge(t) PROVE ListInv'
  <2>1. key[t] \in Keys
    BY <1>6 DEF Purge, LockInv
  <2>2. CASE Expired(key[t])
    <3>1. data[key[t]] # NoEntry
      BY <2>1, <2>2 DEF KeyInv, Expired, Present
    <3>2. QED
      BY <1>5, <1>6, <2>1, <2>2, <3>1 DEF Purge
  <2>3. CASE ~Expired(key[t])
    BY <1>6, <2>3, ListsKept DEF Purge
  <2>4. QED
    BY <2>2, <2>3
<1>7. ASSUME NEW k \in Keys, Delete(k) PROVE ListInv'
  BY <1>5, <1>7 DEF Delete, Present
<1>8. ASSUME NEW k \in Keys, CleanDelete(k) PROVE ListInv'
  <2>1. ShardOf[k] = shard
    BY <1>8 DEF CleanDelete, FoundInv
  <2>2. CASE data[k] \in now
    <3>1. data[k] # NoEntry
      BY <2>2, StoreAssumption DEF TypeOK
    <3>2. QED
      BY <1>5, <1>8, <2>1, <2>2, <3>1 DEF CleanDelete
  <2>3. CASE data[k] \notin now
    BY <1>8, <2>3, ListsKept DEF CleanDelete
  <2>4. QED
    BY <2>2, <2>3
<1>9. QED
  BY <1>1, <1>2, <1>3, <1>4, <1>6, <1>7, <1>8
  DEF Next, SetStep, CleanStep, Expire, SetBegin, CountPasses, SetEnd, Get, CleanTick, CleanScan,
      CleanUnlock, CleanEnd, vars, store

(* The walk from the head, by the links. *)
LEMMA ChainsStored == TypeOK /\ ListInv => ChainIsStored
<1> SUFFICES ASSUME TypeOK, ListInv, NEW s \in Shards, NEW e \in Chain(lru[s])
             PROVE  /\ ShardOf[KeyOf(e)] = s /\ data[KeyOf(e)] = e
                    /\ lru[s].next[e] # NoEntry => lru[s].prev[lru[s].next[e]] = e
  BY DEF ChainIsStored
<1>1. lru[s] \in List /\ Members(s) \in SUBSET Entries /\ Linked(lru[s], Members(s))
  BY DEF TypeOK, ListInv, Members
<1>2. e \in Members(s)
  BY <1>1, ChainIn
<1>3. QED
  BY <1>1, <1>2 DEF Members, Linked

-----------------------------------------------------------------------------
(* The invariant, and what follows from it.                                *)

LEMMA InitIInv == Init => IInv
<1> SUFFICES ASSUME Init PROVE IInv
  OBVIOUS
<1> USE StoreAssumption DEF Init
<1>1. EmptyList \in List /\ NoEntry \in Pointer
  BY DEF EmptyList, List, Pointer
<1>2. 1 \in 1..ShardCount + 1
  OBVIOUS
<1>3. TypeOK
  BY <1>1, <1>2 DEF TypeOK
<1>4. KeyInv /\ LockInv /\ FoundInv
  BY DEF KeyInv, Present, Expired, LockInv, FoundInv
<1>5. Committed = {} /\ Uncounted = {} /\ Stored = {}
  BY DEF Committed, Uncounted, Stored
<1>6. OvershootBounded /\ StoredInv
  BY <1>5, FS_EmptySet DEF OvershootBounded, StoredInv, EntriesUnderstate
<1>7. MemoryUnderstates
  <2>1. Held = {}
    BY DEF Held, Present
  <2>2. Sum(Taken, Uncounted) = 0 /\ Sum(SizeOf, Held) = 0
    BY <1>5, <2>1, SumEmpty
  <2>3. QED
    BY <2>2, MemoryIs
<1>8. ListInv
  <2>1. ASSUME NEW s \in Shards PROVE Linked(lru[s], Members(s)) /\ lru[s].tail = NoEntry
    BY DEF EmptyList, Linked
  <2>2. QED
    BY <2>1 DEF ListInv, TailIsItsOwn
<1>9. QED
  BY <1>3, <1>4, <1>6, <1>7, <1>8 DEF IInv

LEMMA IInvInductive == IInv /\ [Next]_vars => IInv'
  BY TypeStep, KeyStep, LockStep, FoundStep, LimitStep, StoredStep, MemoryStep, ListStep DEF IInv

LEMMA SpecIInv == Spec => []IInv
<1>1. QED
  BY InitIInv, IInvInductive, PTL DEF Spec

(* The state keeps its types: every head, tail and pointer of a list is an *)
(* entry or nil whatever is evicted, moved or removed, and a call that is  *)
(* under way has its key.                                                  *)
THEOREM TypeCorrect == Spec => []TypeOK
<1>1. IInv => TypeOK
  BY DEF IInv
<1>2. QED
  BY <1>1, SpecIInv, PTL

(* However many goroutines Set at once, the shared entry counter passes    *)
(* MaxEntries by at most one for each shard but one, as each Set tests the *)
(* counter under the lock of its own shard.                                *)
THEOREM LimitCorrect == Spec => []OvershootBounded
<1>1. IInv => OvershootBounded
  BY DEF IInv
<1>2. QED
  BY <1>1, SpecIInv, PTL

(* The entry counter never exceeds the number of entries stored.           *)
THEOREM NeverOverstated == Spec => []EntriesUnderstate
<1>1. IInv => EntriesUnderstate
  BY DEF IInv, StoredInv
<1>2. QED
  BY <1>1, SpecIInv, PTL

(* The entry counter and the memory counter never exceed what is stored,   *)
(* the Sets that have yet to count their entry included; a walk from the   *)
(* head of a shard's list meets stored entries only, each with a pointer   *)
(* back; and an eviction, which deletes the key of the tail, takes the     *)
(* tail's entry or nothing, never a newer entry of that key.               *)
THEOREM BooksCorrect == Spec => []BooksAgree
<1>1. IInv => BooksAgree
  BY ChainsStored DEF IInv, StoredInv, ListInv, BooksAgree, CountersUnderstate
<1>2. QED
  BY <1>1, SpecIInv, PTL

(* No removal of what was expired - by the cleaner, from its list of keys, *)
(* or by a Get that gave its lock up in between - takes an entry that was  *)
(* set since and still lives.                                              *)
THEOREM LiveStays == Spec => NeverDropsLive
<1> DEFINE Kept ==
      \A k \in Keys : Present(k) /\ ~Expired(k) /\ data'[k] = NoEntry =>
          Delete(k) \/ \E t \in Threads : Evict(t)
<1>1. IInv /\ [Next]_vars => [Kept]_vars
  <2> SUFFICES ASSUME IInv, Next, NEW k \in Keys, Present(k), ~Expired(k), data'[k] = NoEntry,
                      ~ \E t \in Threads : Evict(t)
               PROVE  Delete(k)
    OBVIOUS
  <2>0. data \in [Keys -> Pointer] /\ data' # data
    BY DEF IInv, TypeOK, Present
  <2>1. ASSUME NEW t \in Threads, NEW e \in Entries, NEW x \in TTLs, Insert(t, e, x) PROVE FALSE
    BY <2>0, <2>1, StoreAssumption DEF Insert, Present
  <2>2. ASSUME NEW t \in Threads, Purge(t) PROVE FALSE
    BY <2>0, <2>2 DEF Purge, DeleteFromShard, Present
  <2>3. ASSUME NEW x \in Keys, CleanDelete(x) PROVE FALSE
    <3>1. data[x] \in now => Expired(x)
      BY DEF IInv, KeyInv
    <3>2. QED
      BY <2>0, <2>3, <3>1 DEF CleanDelete, DeleteFromShard, Present
  <2>4. ASSUME NEW x \in Keys, Delete(x) PROVE x = k
    BY <2>0, <2>4 DEF Delete, DeleteFromShard, Present
  <2>5. QED
    BY <2>0, <2>1, <2>2, <2>3, <2>4
    DEF Next, SetStep, CleanStep, Expire, SetBegin, CountPasses, SetEnd, Get, Touch, CleanTick, CleanScan,
        CleanUnlock, CleanEnd, store
<1>2. QED
  BY <1>1, SpecIInv, PTL DEF Spec, NeverDropsLive
=============================================================================
