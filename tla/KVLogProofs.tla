---------------------------- MODULE KVLogProofs ----------------------------
(***************************************************************************)
(* Proofs about KVLog, for all sets of keys and clients, every number of   *)
(* shards, every size of the channel and every bound.                      *)
(***************************************************************************)
EXTENDS KVLog, FoldProofs, SequenceTheorems, TLAPS

LogRecord == Record \cup {Torn}

(* The records of a key ascend within s, and from s to t.                  *)
Ascending(s) ==
    \A i, j \in 1..Len(s) :
        i < j /\ s[i].key = s[j].key /\ s[i].key \in Keys => s[i].num < s[j].num

Before(s, t) ==
    \A i \in 1..Len(s), j \in 1..Len(t) :
        s[i].key = t[j].key /\ s[i].key \in Keys => s[i].num < t[j].num

UpTo(s, n) == \A i \in 1..Len(s) : s[i].num <= n

OrderInv ==
    /\ Ascending(walFile) /\ Ascending(walBuf) /\ Ascending(logChan)
    /\ Before(walFile, walBuf) /\ Before(walFile, logChan) /\ Before(walBuf, logChan)
    /\ UpTo(walFile, num) /\ UpTo(walBuf, num) /\ UpTo(logChan, num)

(* The inductive invariant.                                                *)
IInv == TypeOK /\ OrderInv

-----------------------------------------------------------------------------
(* Sequences of records.                                                   *)

LEMMA TornIsNoRecord == Torn \notin Record /\ Torn.key \notin Keys /\ Torn.num = 0
  BY LogAssumption DEF Torn, Record

LEMMA Concatenated ==
  ASSUME NEW s \in Seq(LogRecord), NEW t \in Seq(LogRecord)
  PROVE  /\ s \o t \in Seq(LogRecord) /\ Len(s \o t) = Len(s) + Len(t)
         /\ Len(s) \in Nat /\ Len(t) \in Nat
         /\ \A i \in 1..Len(s) : i \in 1..Len(s \o t) /\ (s \o t)[i] = s[i]
         /\ \A i \in 1..Len(t) : Len(s) + i \in 1..Len(s \o t) /\ (s \o t)[Len(s) + i] = t[i]
         /\ \A i \in 1..Len(s \o t) : i \in 1..Len(s) \/ (i - Len(s) \in 1..Len(t)
                                                          /\ i = Len(s) + (i - Len(s)))
<1>1. Len(s) \in Nat /\ Len(t) \in Nat /\ s \o t \in Seq(LogRecord)
  BY ConcatProperties, LenProperties
<1>2. Len(s \o t) = Len(s) + Len(t)
  BY ConcatProperties
<1>3. \A i \in 1..Len(s) : (s \o t)[i] = s[i]
  BY <1>1, <1>2, ConcatProperties
<1>4. \A i \in 1..Len(t) : (s \o t)[Len(s) + i] = t[i]
  BY <1>1, <1>2, ConcatProperties
<1>5. QED
  BY <1>1, <1>2, <1>3, <1>4

LEMMA JoinOrdered ==
  ASSUME NEW s \in Seq(LogRecord), NEW t \in Seq(LogRecord),
         Ascending(s), Ascending(t), Before(s, t)
  PROVE  /\ Ascending(s \o t)
         /\ \A u \in Seq(LogRecord) : Before(s, u) /\ Before(t, u) => Before(s \o t, u)
         /\ \A n : UpTo(s, n) /\ UpTo(t, n) => UpTo(s \o t, n)
<1> DEFINE st == s \o t
<1>0. /\ Len(s) \in Nat /\ Len(t) \in Nat /\ Len(st) = Len(s) + Len(t)
      /\ \A i \in 1..Len(s) : st[i] = s[i]
      /\ \A i \in 1..Len(st) : i \in 1..Len(s) \/ (i - Len(s) \in 1..Len(t)
                                                   /\ st[i] = t[i - Len(s)])
  BY Concatenated
<1> HIDE DEF st
<1>1. Ascending(st)
  <2> SUFFICES ASSUME NEW i \in 1..Len(st), NEW j \in 1..Len(st), i < j,
                      st[i].key = st[j].key, st[i].key \in Keys
               PROVE  st[i].num < st[j].num
    BY DEF Ascending
  <2>0. Len(st) \in Nat /\ i \in Int /\ j \in Int /\ 1 <= i
    BY <1>0
  <2>1. CASE j \in 1..Len(s)
    <3>1. i \in 1..Len(s)
      BY <1>0, <2>0, <2>1
    <3>2. st[i] = s[i] /\ st[j] = s[j]
      BY <1>0, <2>1, <3>1
    <3>3. QED
      BY <2>1, <3>1, <3>2 DEF Ascending
  <2>2. CASE i \in 1..Len(s) /\ j - Len(s) \in 1..Len(t) /\ st[j] = t[j - Len(s)]
    <3>1. st[i] = s[i]
      BY <1>0, <2>2
    <3>2. QED
      BY <2>2, <3>1 DEF Before
  <2>3. CASE /\ i - Len(s) \in 1..Len(t) /\ st[i] = t[i - Len(s)]
             /\ j - Len(s) \in 1..Len(t) /\ st[j] = t[j - Len(s)]
    <3>1. i - Len(s) < j - Len(s)
      BY <1>0, <2>0
    <3>2. QED
      BY <2>3, <3>1 DEF Ascending
  <2>4. QED
    BY <1>0, <2>1, <2>2, <2>3
<1>2. \A u \in Seq(LogRecord) : Before(s, u) /\ Before(t, u) => Before(st, u)
  BY <1>0 DEF Before
<1>3. \A n : UpTo(s, n) /\ UpTo(t, n) => UpTo(st, n)
  BY <1>0 DEF UpTo
<1>4. QED
  BY <1>1, <1>2, <1>3 DEF st

LEMMA FirstOf ==
  ASSUME NEW q \in Seq(Record), q # <<>>
  PROVE  /\ Tail(q) \in Seq(Record) /\ Head(q) \in Record /\ Head(q) = q[1]
         /\ Len(q) \in Nat /\ Len(Tail(q)) + 1 = Len(q) /\ 1 \in 1..Len(q)
         /\ Len(Tail(q)) \in Nat
         /\ \A i \in 1..Len(Tail(q)) : Tail(q)[i] = q[i + 1] /\ i + 1 \in 1..Len(q)
  BY HeadTailProperties, LenProperties

LEMMA Appended ==
  ASSUME NEW S, NEW s \in Seq(S), NEW r \in S
  PROVE  /\ Append(s, r) \in Seq(S) /\ Len(Append(s, r)) = Len(s) + 1
         /\ Len(s) \in Nat
         /\ \A i \in 1..Len(s) : Append(s, r)[i] = s[i]
         /\ Append(s, r)[Len(s) + 1] = r
  BY AppendProperties, LenProperties

(* Taking the first record of the channel to the end of the buffer, or to  *)
(* a buffer of its own after the buffer went to the file.                  *)
LEMMA HeadMoves ==
  ASSUME NEW f \in Seq(LogRecord), NEW b \in Seq(Record), NEW q \in Seq(Record), q # <<>>,
         Ascending(b), Ascending(q), Before(f, q), Before(f, b), Before(b, q)
  PROVE  /\ Ascending(Tail(q)) /\ Before(f, Tail(q)) /\ Before(b, Tail(q))
         /\ Ascending(Append(b, Head(q))) /\ Before(f, Append(b, Head(q)))
         /\ Before(Append(b, Head(q)), Tail(q))
         /\ \A n : UpTo(q, n) => UpTo(Tail(q), n)
         /\ \A n : UpTo(q, n) /\ UpTo(b, n) => UpTo(Append(b, Head(q)), n)
<1> DEFINE h == Head(q)
           b2 == Append(b, h)
<1>1. /\ Len(b2) = Len(b) + 1 /\ Len(b) \in Nat
      /\ \A i \in 1..Len(b2) : (i \in 1..Len(b) /\ b2[i] = b[i]) \/ (i = Len(b) + 1 /\ b2[i] = q[1])
  BY FirstOf, Appended
<1>2. /\ 1 \in 1..Len(q) /\ Len(Tail(q)) \in Nat
      /\ \A i \in 1..Len(Tail(q)) : Tail(q)[i] = q[i + 1] /\ i + 1 \in 1..Len(q) /\ 1 < i + 1
  BY FirstOf
<1>3. Ascending(Tail(q))
  <2> SUFFICES ASSUME NEW i \in 1..Len(Tail(q)), NEW j \in 1..Len(Tail(q)), i < j,
                      Tail(q)[i].key = Tail(q)[j].key, Tail(q)[i].key \in Keys
               PROVE  Tail(q)[i].num < Tail(q)[j].num
    BY DEF Ascending
  <2>1. i + 1 < j + 1
    OBVIOUS
  <2>2. QED
    BY <1>2, <2>1 DEF Ascending
<1>4. Before(f, Tail(q)) /\ Before(b, Tail(q))
  BY <1>2 DEF Before
<1>5. \A n : UpTo(q, n) => UpTo(Tail(q), n)
  BY <1>2 DEF UpTo
<1> HIDE DEF b2
<1>6. Ascending(b2)
  <2> SUFFICES ASSUME NEW i \in 1..Len(b2), NEW j \in 1..Len(b2), i < j,
                      b2[i].key = b2[j].key, b2[i].key \in Keys
               PROVE  b2[i].num < b2[j].num
    BY DEF Ascending
  <2>1. i \in 1..Len(b) /\ b2[i] = b[i]
    BY <1>1
  <2>2. CASE j \in 1..Len(b) /\ b2[j] = b[j]
    BY <2>1, <2>2 DEF Ascending
  <2>3. CASE b2[j] = q[1]
    BY <1>2, <2>1, <2>3 DEF Before
  <2>4. QED
    BY <1>1, <2>2, <2>3
<1>7. Before(f, b2)
  BY <1>1, <1>2 DEF Before
<1>8. Before(b2, Tail(q))
  BY SMTT(30), <1>1, <1>2, <1>4 DEF Before, Ascending
<1>9. \A n : UpTo(q, n) /\ UpTo(b, n) => UpTo(b2, n)
  BY <1>1, <1>2 DEF UpTo
<1>10. QED
  BY <1>3, <1>4, <1>5, <1>6, <1>7, <1>8, <1>9 DEF b2

(* An empty sequence, and one of the first record of the channel.          *)
LEMMA EmptyOrdered ==
  /\ <<>> \in Seq(Record) /\ <<>> \in Seq(LogRecord) /\ Len(<<>>) = 0
  /\ Ascending(<<>>)
  /\ \A s : Before(s, <<>>) /\ Before(<<>>, s)
  /\ \A n : UpTo(<<>>, n)
  BY DEF Ascending, Before, UpTo

-----------------------------------------------------------------------------
LEMMA MaxOfNumbers ==
  ASSUME NEW s \in Seq(LogRecord), NEW k \in Keys, NEW n \in 0..MaxWrites
  PROVE  LET T == {n} \cup Numbers(s, k) IN
         Max(T) \in 0..MaxWrites /\ Max(T) \in T /\ \A y \in T : y <= Max(T)
<1> DEFINE T == {n} \cup Numbers(s, k)
<1>1. Numbers(s, k) \subseteq 0..MaxWrites
  BY LogAssumption DEF Numbers, LogRecord, Record, Torn
<1>2. T \subseteq 0..MaxWrites /\ T # {}
  BY <1>1
<1>3. MaxWrites \in Nat
  BY LogAssumption
<1>4. Max(T) \in T /\ \A y \in T : y <= Max(T)
  <2> HIDE DEF T
  <2> QED BY <1>2, <1>3, MaxIsGreatest
<1>5. QED
  BY <1>2, <1>4

(* What a start finds for a key: a record of the log that is whole, or the *)
(* snapshot's.                                                             *)
LEMMA DiskIs ==
  ASSUME TypeOK, NEW k \in Keys
  PROVE  /\ Disk[k] \in 0..MaxWrites
         /\ Replayed(k) = {} => Disk[k] = snapFile.data[k]
         /\ Replayed(k) # {} =>
              \E i \in Replayed(k) : /\ Disk[k] = walFile[i].num
                                     /\ \A j \in Replayed(k) : j <= i
         /\ Replayed(k) \subseteq 1..Len(walFile) /\ Len(walFile) \in Nat
<1>1. Replayed(k) \subseteq 1..Len(walFile) /\ Len(walFile) \in Nat
  BY LenProperties DEF Replayed, TypeOK
<1>2. CASE Replayed(k) = {}
  BY <1>1, <1>2 DEF Disk, TypeOK
<1>3. CASE Replayed(k) # {}
  <2> DEFINE i == Max(Replayed(k))
  <2>1. i \in Replayed(k) /\ \A j \in Replayed(k) : j <= i
    BY <1>1, <1>3, MaxIsGreatest
  <2>2. Disk[k] = walFile[i].num
    BY <1>3 DEF Disk
  <2>3. walFile[i] \in Record \cup {Torn}
    BY <1>1, <2>1 DEF TypeOK
  <2>4. walFile[i].num \in 0..MaxWrites
    BY <2>3, LogAssumption DEF Record, Torn
  <2> HIDE DEF i
  <2>5. QED
    BY <1>1, <1>3, <2>1, <2>2, <2>4
<1>4. QED
  BY <1>2, <1>3

-----------------------------------------------------------------------------
(* Types.                                                                  *)

LEMMA TypeInit == Init => TypeOK
<1>1. ShardCount \in Nat /\ MaxSnapshots \in Nat /\ MaxCrashes \in Nat /\ MaxWrites \in Nat
      /\ ChanCap \in Nat
  BY LogAssumption
<1>2. <<>> \in Seq(Record) /\ <<>> \in Seq(Record \cup {Torn}) /\ Len(<<>>) = 0
  BY EmptySeq
<1>3. NoWrites \in [Keys -> 0..MaxWrites] /\ NoLoss \in [Keys -> SUBSET Causes]
      /\ NoCalls \in [Clients -> Call \cup {NoCall}]
  BY <1>1 DEF NoWrites, NoLoss, NoCalls
<1>4. ASSUME Init
      PROVE  snapFile \in [state : {"none", "part", "whole"}, data : [Keys -> 0..MaxWrites]]
  BY <1>3, <1>4 DEF Init
<1> SUFFICES ASSUME Init PROVE TypeOK
  OBVIOUS
<1>5. /\ mem \in [Keys -> 0..MaxWrites] /\ num \in 0..MaxWrites /\ dels \subseteq 1..MaxWrites
      /\ calls \in [Clients -> Call \cup {NoCall}]
      /\ tmp \in [Keys -> 0..MaxWrites] /\ synced \in [Keys -> 0..MaxWrites]
      /\ loss \in [Keys -> SUBSET Causes]
  BY <1>1, <1>3 DEF Init
<1>6. /\ logChan \in Seq(Record) /\ Len(logChan) <= ChanCap
      /\ walBuf \in Seq(Record) /\ walFile \in Seq(Record \cup {Torn})
  BY <1>1, <1>2 DEF Init
<1>7. /\ spc \in {"idle", "scan", "reset", "end"}
      /\ scanned \in 0..ShardCount /\ shots \in 0..MaxSnapshots
      /\ phase \in {"open", "closing", "closed", "down"} /\ workers \subseteq {"writer", "cleaner"}
      /\ crashes \in 0..MaxCrashes
  BY <1>1 DEF Init
<1>8. half \in BOOLEAN
  BY Zenon DEF Init
<1>9. QED
  BY <1>4, <1>5, <1>6, <1>7, <1>8 DEF TypeOK

LEMMA TypeWriteKey ==
  ASSUME TypeOK, NEW k \in Keys, WriteKey(k), calls' \in [Clients -> Call \cup {NoCall}],
         dels' = dels \/ dels' = dels \cup {num + 1}
  PROVE  TypeOK'
<1>1. MaxWrites \in Nat /\ ChanCap \in Nat
  BY LogAssumption
<1>2. num + 1 \in 1..MaxWrites
  BY <1>1 DEF TypeOK, WriteKey
<1>3. mem' \in [Keys -> 0..MaxWrites] /\ num' \in 0..MaxWrites /\ dels' \subseteq 1..MaxWrites
  <2>1. mem \in [Keys -> 0..MaxWrites] /\ num \in 0..MaxWrites /\ dels \subseteq 1..MaxWrites
    BY DEF TypeOK
  <2>2. mem' = [mem EXCEPT ![k] = num + 1] /\ num' = num + 1
    BY DEF WriteKey
  <2>3. num + 1 \in 0..MaxWrites
    BY <1>1, <1>2
  <2>4. mem' \in [Keys -> 0..MaxWrites]
    BY <2>1, <2>2, <2>3
  <2>5. dels' \subseteq 1..MaxWrites
    BY <1>2, <2>1
  <2>6. QED
    BY <2>2, <2>3, <2>4, <2>5
<1>4. logChan' \in Seq(Record) /\ Len(logChan') <= ChanCap
  <2> DEFINE r == [key |-> k, num |-> num + 1, ok |-> TRUE]
  <2>1. r \in Record
    BY <1>2 DEF Record
  <2>2. logChan \in Seq(Record) /\ Len(logChan) <= ChanCap
    BY DEF TypeOK
  <2>3. logChan' = logChan \/ (Len(logChan) < ChanCap /\ logChan' = Append(logChan, r))
    BY DEF WriteKey, LogWrite
  <2> HIDE DEF r
  <2>4. QED
    BY <1>1, <2>1, <2>2, <2>3, Appended
<1>5. loss' \in [Keys -> SUBSET Causes]
  <2>1. loss \in [Keys -> SUBSET Causes] /\ {"late", "dropped"} \subseteq Causes
    BY DEF TypeOK, Causes
  <2>2. loss' = loss \/ \E x \in {"late", "dropped"} : loss' = [loss EXCEPT ![k] = @ \cup {x}]
    BY DEF WriteKey, LogWrite
  <2>3. QED
    BY <2>1, <2>2
<1>6. QED
  BY <1>3, <1>4, <1>5 DEF TypeOK, WriteKey, snapshot, life

LEMMA TypeBufferToFile ==
  ASSUME TypeOK, BufferToFile
  PROVE  /\ walFile' \in Seq(LogRecord) /\ synced' \in [Keys -> 0..MaxWrites]
         /\ loss' \in [Keys -> SUBSET Causes]
<1>1. walFile \in Seq(LogRecord) /\ walBuf \in Seq(LogRecord)
  BY DEF TypeOK, LogRecord
<1>2. walFile' \in Seq(LogRecord)
  BY <1>1, Concatenated DEF BufferToFile
<1>3. \A k \in Keys : Max({synced[k]} \cup Numbers(walBuf, k)) \in 0..MaxWrites
  BY <1>1, MaxOfNumbers DEF TypeOK
<1>4. synced' \in [Keys -> 0..MaxWrites]
  BY <1>3 DEF BufferToFile, TypeOK
<1>5. loss' \in [Keys -> SUBSET Causes]
  BY DEF BufferToFile, TypeOK, Causes
<1>6. QED
  BY <1>2, <1>4, <1>5

(* The writer's and the log's steps.                                       *)
LEMMA TypeLog ==
  ASSUME TypeOK, [Encode \/ EncodeOverflow \/ Tick \/ WriterEnd \/ CloseReturn]_vars
  PROVE  TypeOK'
<1> SUFFICES ASSUME Encode \/ EncodeOverflow \/ Tick \/ WriterEnd \/ CloseReturn
             PROVE  TypeOK'
  BY DEF vars, memory, log, snapshot, life, history, TypeOK
<1>1. CASE Encode
  <2>1. /\ Tail(logChan) \in Seq(Record) /\ Len(Tail(logChan)) <= ChanCap
        /\ Append(walBuf, Head(logChan)) \in Seq(Record)
    BY <1>1, FirstOf, Appended, LogAssumption DEF Encode, TypeOK
  <2>2. QED
    BY <1>1, <2>1 DEF Encode, TypeOK, memory, snapshot, life, history
<1>2. CASE EncodeOverflow
  <2>1. /\ Tail(logChan) \in Seq(Record) /\ Len(Tail(logChan)) <= ChanCap
        /\ <<Head(logChan)>> \in Seq(Record)
    BY <1>2, FirstOf, LogAssumption DEF EncodeOverflow, TypeOK
  <2>2. QED
    BY <1>2, <2>1, TypeBufferToFile DEF EncodeOverflow, TypeOK, LogRecord, memory, snapshot, life
<1>3. CASE Tick
  BY <1>3, TypeBufferToFile, EmptyOrdered DEF Tick, FlushWAL, TypeOK, LogRecord, memory, snapshot,
     life
<1>4. CASE WriterEnd
  BY <1>4, TypeBufferToFile, EmptyOrdered DEF WriterEnd, FlushWAL, TypeOK, LogRecord, memory,
     snapshot
<1>5. CASE CloseReturn
  BY <1>5, TypeBufferToFile, EmptyOrdered DEF CloseReturn, FlushWAL, TypeOK, LogRecord, memory,
     snapshot
<1>6. QED
  BY <1>1, <1>2, <1>3, <1>4, <1>5

LEMMA TypeSnapshot ==
  ASSUME TypeOK,
         SnapshotBegin \/ ScanShard \/ SnapshotFail \/ Rename \/ ResetWAL \/ SnapshotEnd
  PROVE  TypeOK'
<1>0. ShardCount \in Nat /\ MaxSnapshots \in Nat /\ MaxWrites \in Nat
  BY LogAssumption
<1>1. CASE SnapshotBegin
  BY <1>0, <1>1 DEF SnapshotBegin, TypeOK, NoWrites, memory, log, life, history
<1>2. CASE ScanShard
  BY <1>0, <1>2 DEF ScanShard, TypeOK, memory, log, life, history
<1>3. CASE SnapshotFail
  BY <1>3 DEF SnapshotFail, TypeOK, memory, log, life, history
<1>4. CASE Rename
  BY <1>4 DEF Rename, TypeOK, memory, log, life, history
<1>5. CASE ResetWAL
  <2>1. \A k \in Keys : Max({synced[k], snapFile.data[k]}) \in 0..MaxWrites
    <3> SUFFICES ASSUME NEW k \in Keys PROVE Max({synced[k], snapFile.data[k]}) \in 0..MaxWrites
      OBVIOUS
    <3> DEFINE T == {synced[k], snapFile.data[k]}
    <3>1. T \subseteq 0..MaxWrites /\ T # {}
      BY DEF TypeOK
    <3> HIDE DEF T
    <3>2. Max(T) \in 0..MaxWrites
      BY <1>0, <3>1, MaxIsGreatest
    <3>3. QED
      BY <3>2 DEF T
  <2>2. synced' \in [Keys -> 0..MaxWrites] /\ loss' \in [Keys -> SUBSET Causes]
    BY <1>5, <2>1 DEF ResetWAL, TypeOK, Causes
  <2>3. QED
    BY <1>5, <2>2, EmptyOrdered DEF ResetWAL, TypeOK, LogRecord, memory, life
<1>6. CASE SnapshotEnd
  BY <1>6 DEF SnapshotEnd, TypeOK, memory, log, life, history
<1>7. QED
  BY <1>1, <1>2, <1>3, <1>4, <1>5, <1>6

LEMMA TypeLife ==
  ASSUME TypeOK, CleanerEnd \/ Close \/ Exit \/ Crash \/ Open
  PROVE  TypeOK'
<1>0. MaxCrashes \in Nat /\ ChanCap \in Nat
  BY LogAssumption
<1>1. CASE CleanerEnd \/ Close
  BY <1>1 DEF CleanerEnd, Close, TypeOK, memory, log, snapshot, history
<1>2. CASE Exit \/ Crash
  <2>1. walFile' \in Seq(Record \cup {Torn}) /\ crashes' \in 0..MaxCrashes
    <3>1. CASE Exit
      BY <3>1 DEF Exit, TypeOK
    <3>2. CASE Crash
      <4>1. walFile' = walFile \/ walFile' = Append(walFile, Torn)
        BY <3>2 DEF Crash
      <4>2. walFile \in Seq(Record \cup {Torn}) /\ Torn \in Record \cup {Torn}
        BY DEF TypeOK
      <4>3. walFile' \in Seq(Record \cup {Torn})
        BY <4>1, <4>2, Appended
      <4>4. QED
        BY <1>0, <3>2, <4>3 DEF Crash, TypeOK
    <3>3. QED
      BY <1>2, <3>1, <3>2
  <2>2. ProcessGone
    BY <1>2 DEF Exit, Crash
  <2>3. QED
    <3>1. <<>> \in Seq(Record) /\ <<>> \in Seq(Record \cup {Torn}) /\ Len(<<>>) = 0
      BY EmptySeq
    <3>2. NoCalls \in [Clients -> Call \cup {NoCall}]
      BY DEF NoCalls
    <3>3. QED
      <4>1. /\ logChan' \in Seq(Record) /\ Len(logChan') <= ChanCap
            /\ walBuf' \in Seq(Record)
        BY <1>0, <2>2, <3>1 DEF ProcessGone
      <4>2. half' \in BOOLEAN
        BY <2>2, Zenon DEF ProcessGone
      <4>3. QED
        BY <2>1, <2>2, <3>2, <4>1, <4>2 DEF ProcessGone, TypeOK, memory, history
<1>3. CASE Open
  <2>1. Disk \in [Keys -> 0..MaxWrites]
    BY DiskIs DEF Disk
  <2>2. QED
    BY <1>3, <2>1 DEF Open, TypeOK, NoLoss, log, snapshot
<1>4. QED
  BY <1>1, <1>2, <1>3

LEMMA TypeStep == TypeOK /\ [Next]_vars => TypeOK'
<1> SUFFICES ASSUME TypeOK, [Next]_vars PROVE TypeOK'
  OBVIOUS
<1>1. ASSUME NEW c \in Clients, NEW call \in Call, Begin(c, call) PROVE TypeOK'
  BY <1>1 DEF Begin, TypeOK, memory, log, snapshot, life, history
<1>2. ASSUME NEW c \in Clients, Set(c) PROVE TypeOK'
  <2>1. calls[c] \in Call /\ calls[c].key \in Keys /\ calls' \in [Clients -> Call \cup {NoCall}]
    BY <1>2 DEF Set, TypeOK, Call
  <2>2. QED
    BY <1>2, <2>1, TypeWriteKey DEF Set
<1>3. ASSUME NEW c \in Clients, Delete(c) PROVE TypeOK'
  <2>1. calls[c] \in Call /\ calls[c].key \in Keys /\ calls' \in [Clients -> Call \cup {NoCall}]
    BY <1>3 DEF Delete, TypeOK, Call
  <2>2. QED
    BY <1>3, <2>1, TypeWriteKey DEF Delete
<1>4. ASSUME NEW c \in Clients, DeleteMissing(c) PROVE TypeOK'
  BY <1>4 DEF DeleteMissing, TypeOK, memory, log, snapshot, life, history
<1>5. ASSUME NEW k \in Keys, Expire(k) PROVE TypeOK'
  <2>1. calls' \in [Clients -> Call \cup {NoCall}]
    BY <1>5 DEF Expire, TypeOK
  <2>2. QED
    BY <1>5, <2>1, TypeWriteKey DEF Expire
<1>6. ASSUME NEW i \in DOMAIN logChan, ReuseValue(i) PROVE TypeOK'
  <2>1. logChan' \in Seq(Record) /\ Len(logChan') = Len(logChan)
    <3>1. logChan \in [1..Len(logChan) -> Record] /\ Len(logChan) \in Nat /\ i \in 1..Len(logChan)
      BY LenProperties DEF TypeOK
    <3>2. logChan' = [logChan EXCEPT ![i] = [logChan[i] EXCEPT !.ok = FALSE]]
      BY <1>6 DEF ReuseValue
    <3>3. [logChan[i] EXCEPT !.ok = FALSE] \in Record
      BY <3>1 DEF Record
    <3>4. logChan \in Seq(Record)
      BY DEF TypeOK
    <3>5. QED
      BY <3>1, <3>2, <3>3, <3>4, ExceptSeq
  <2>2. loss' \in [Keys -> SUBSET Causes]
    BY <1>6 DEF ReuseValue, TypeOK, Causes
  <2>3. QED
    BY <1>6, <2>1, <2>2 DEF ReuseValue, TypeOK, memory, snapshot, life
<1>7. CASE Encode \/ EncodeOverflow \/ Tick \/ WriterEnd \/ CloseReturn
  BY <1>7, TypeLog
<1>8. CASE SnapshotBegin \/ ScanShard \/ SnapshotFail \/ Rename \/ ResetWAL \/ SnapshotEnd
  BY <1>8, TypeSnapshot
<1>9. CASE CleanerEnd \/ Close \/ Exit \/ Crash \/ Open
  BY <1>9, TypeLife
<1>10. CASE UNCHANGED vars
  BY <1>10, TypeLog
<1>11. QED
  BY <1>1, <1>2, <1>3, <1>4, <1>5, <1>6, <1>7, <1>8, <1>9, <1>10 DEF Next

(* The types of every state, for any constants.                            *)
THEOREM TypeCorrect == Spec => []TypeOK
<1>1. Init => TypeOK
  BY TypeInit
<1>2. TypeOK /\ [Next]_vars => TypeOK'
  BY TypeStep
<1>3. QED
  BY <1>1, <1>2, PTL DEF Spec

-----------------------------------------------------------------------------
(* The order of the records.                                               *)

(* A new record comes after every other.                                   *)
LEMMA NewestLast ==
  ASSUME NEW q \in Seq(Record), NEW n \in Nat, NEW r \in Record, r.num = n + 1,
         Ascending(q), UpTo(q, n)
  PROVE  /\ Ascending(Append(q, r)) /\ UpTo(Append(q, r), n + 1)
         /\ \A f \in Seq(LogRecord) : Before(f, q) /\ UpTo(f, n) => Before(f, Append(q, r))
<1>0. \A s \in Seq(LogRecord) : \A i \in 1..Len(s) : s[i].num \in Int
  <2> SUFFICES ASSUME NEW s \in Seq(LogRecord), NEW i \in 1..Len(s) PROVE s[i].num \in Int
    OBVIOUS
  <2>1. s[i] \in LogRecord
    BY ElementOfSeq
  <2>2. QED
    BY <2>1, TornIsNoRecord DEF LogRecord, Record
<1>1. /\ Len(q) \in Nat /\ Len(Append(q, r)) = Len(q) + 1
      /\ \A i \in 1..Len(Append(q, r)) :
           (i \in 1..Len(q) /\ Append(q, r)[i] = q[i]) \/ (i = Len(q) + 1 /\ Append(q, r)[i] = r)
  BY Appended
<1>2. q \in Seq(LogRecord)
  BY DEF LogRecord
<1> DEFINE q2 == Append(q, r)
<1> HIDE DEF q2
<1>3. \A i \in 1..Len(q) : q[i].num < r.num
  BY <1>0, <1>2 DEF UpTo
<1>4. Ascending(q2)
  BY <1>1, <1>3 DEF Ascending, q2
<1>5. UpTo(q2, n + 1)
  BY <1>0, <1>1, <1>2, <1>3 DEF UpTo, q2
<1>6. \A f \in Seq(LogRecord) : Before(f, q) /\ UpTo(f, n) => Before(f, q2)
  <2> SUFFICES ASSUME NEW f \in Seq(LogRecord), Before(f, q), UpTo(f, n) PROVE Before(f, q2)
    OBVIOUS
  <2>1. \A i \in 1..Len(f) : f[i].num < r.num
    BY <1>0 DEF UpTo
  <2>2. QED
    BY <1>1, <2>1 DEF Before, q2
<1>7. QED
  BY <1>4, <1>5, <1>6 DEF q2

LEMMA UpToMore ==
  ASSUME NEW s \in Seq(LogRecord), NEW n \in Nat, UpTo(s, n)
  PROVE  UpTo(s, n + 1)
<1>1. \A i \in 1..Len(s) : s[i].num \in Int
  <2> SUFFICES ASSUME NEW i \in 1..Len(s) PROVE s[i].num \in Int
    OBVIOUS
  <2>1. s[i] \in LogRecord
    BY ElementOfSeq
  <2>2. QED
    BY <2>1, TornIsNoRecord DEF LogRecord, Record
<1>2. QED
  BY <1>1 DEF UpTo

LEMMA OrderWriteKey ==
  ASSUME IInv, NEW k \in Keys, WriteKey(k)
  PROVE  OrderInv'
<1> DEFINE r == [key |-> k, num |-> num + 1, ok |-> TRUE]
<1>1. /\ walFile \in Seq(LogRecord) /\ walBuf \in Seq(Record) /\ walBuf \in Seq(LogRecord)
      /\ logChan \in Seq(Record) /\ logChan \in Seq(LogRecord) /\ num \in Nat
  BY LogAssumption DEF IInv, TypeOK, LogRecord
<1>2. r \in Record /\ r.num = num + 1
  BY <1>1, LogAssumption DEF WriteKey, Record
<1>3. /\ num' = num + 1 /\ walFile' = walFile /\ walBuf' = walBuf
      /\ logChan' = logChan \/ logChan' = Append(logChan, r)
  BY DEF WriteKey, LogWrite
<1> HIDE DEF r
<1>4. UpTo(walFile, num + 1) /\ UpTo(walBuf, num + 1) /\ UpTo(logChan, num + 1)
  BY <1>1, UpToMore DEF IInv, OrderInv
<1>5. CASE logChan' = logChan
  BY <1>3, <1>4, <1>5 DEF IInv, OrderInv, Ascending, Before, UpTo
<1>6. CASE logChan' = Append(logChan, r)
  <2>1. /\ Ascending(Append(logChan, r)) /\ UpTo(Append(logChan, r), num + 1)
        /\ Before(walFile, Append(logChan, r)) /\ Before(walBuf, Append(logChan, r))
    BY <1>1, <1>2, NewestLast DEF IInv, OrderInv
  <2>2. QED
    BY <1>3, <1>4, <1>6, <2>1 DEF IInv, OrderInv, Ascending, Before, UpTo
<1>7. QED
  BY <1>3, <1>5, <1>6

(* The steps that move records, all of them into what comes before.        *)
LEMMA OrderMoves ==
  ASSUME IInv, Encode \/ EncodeOverflow \/ (BufferToFile /\ walBuf' = <<>> /\ logChan' = logChan
                                            /\ num' = num)
  PROVE  OrderInv'
<1>1. /\ walFile \in Seq(LogRecord) /\ walBuf \in Seq(Record) /\ walBuf \in Seq(LogRecord)
      /\ logChan \in Seq(Record) /\ logChan \in Seq(LogRecord) /\ num \in Nat
  BY LogAssumption DEF IInv, TypeOK, LogRecord
<1>2. /\ Ascending(walFile \o walBuf) /\ UpTo(walFile \o walBuf, num)
      /\ Before(walFile \o walBuf, logChan) /\ walFile \o walBuf \in Seq(LogRecord)
  BY <1>1, JoinOrdered, Concatenated DEF IInv, OrderInv
<1>3. CASE Encode
  <2>1. /\ logChan' = Tail(logChan) /\ walBuf' = Append(walBuf, Head(logChan))
        /\ walFile' = walFile /\ num' = num /\ logChan # <<>>
    BY <1>3 DEF Encode, memory
  <2>2. QED
    BY <1>1, <2>1, HeadMoves DEF IInv, OrderInv
<1>4. CASE EncodeOverflow
  <2>1. /\ logChan' = Tail(logChan) /\ walBuf' = <<Head(logChan)>>
        /\ walFile' = walFile \o walBuf /\ num' = num /\ logChan # <<>>
    BY <1>4 DEF EncodeOverflow, BufferToFile, memory
  <2>2. <<Head(logChan)>> = Append(<<>>, Head(logChan))
    OBVIOUS
  <2> DEFINE f == walFile \o walBuf
  <2> HIDE DEF f
  <2>3. /\ Ascending(Tail(logChan)) /\ Before(f, Tail(logChan))
        /\ Ascending(<<Head(logChan)>>) /\ Before(f, <<Head(logChan)>>)
        /\ Before(<<Head(logChan)>>, Tail(logChan))
        /\ UpTo(Tail(logChan), num) /\ UpTo(<<Head(logChan)>>, num)
    <3> DEFINE e == <<>>
    <3>1. /\ e \in Seq(Record) /\ Ascending(e) /\ Before(f, e) /\ Before(e, logChan)
          /\ UpTo(e, num)
      BY EmptyOrdered
    <3>2. /\ Ascending(logChan) /\ UpTo(logChan, num) /\ Before(f, logChan) /\ f \in Seq(LogRecord)
      BY <1>2 DEF IInv, OrderInv, f
    <3>3. <<Head(logChan)>> = Append(e, Head(logChan))
      BY <2>2
    <3> HIDE DEF e
    <3>4. /\ Ascending(Tail(logChan)) /\ Before(f, Tail(logChan))
          /\ Ascending(Append(e, Head(logChan))) /\ Before(f, Append(e, Head(logChan)))
          /\ Before(Append(e, Head(logChan)), Tail(logChan))
          /\ UpTo(Tail(logChan), num) /\ UpTo(Append(e, Head(logChan)), num)
      BY <1>1, <2>1, <3>1, <3>2, HeadMoves
    <3>5. QED
      BY <3>3, <3>4
  <2>4. QED
    BY <1>2, <2>1, <2>3 DEF OrderInv, Ascending, Before, UpTo, f
<1>5. CASE BufferToFile /\ walBuf' = <<>> /\ logChan' = logChan /\ num' = num
  <2>1. walFile' = walFile \o walBuf
    BY <1>5 DEF BufferToFile
  <2>2. QED
    BY <1>2, <1>5, <2>1, EmptyOrdered DEF IInv, OrderInv
<1>6. QED
  BY <1>3, <1>4, <1>5

(* A torn record is of no key, and nothing comes after it but another life. *)
LEMMA OrderLosses ==
  ASSUME IInv, num' = num, logChan' = <<>>, walBuf' = <<>>,
         walFile' = walFile \/ walFile' = Append(walFile, Torn)
  PROVE  OrderInv'
<1>1. walFile \in Seq(LogRecord) /\ num \in Nat /\ Torn \in LogRecord
  BY LogAssumption DEF IInv, TypeOK, LogRecord
<1>2. Ascending(walFile) /\ UpTo(walFile, num)
  BY DEF IInv, OrderInv
<1>3. ASSUME walFile' = Append(walFile, Torn)
      PROVE  Ascending(Append(walFile, Torn)) /\ UpTo(Append(walFile, Torn), num)
  <2> DEFINE f == Append(walFile, Torn)
  <2>1. /\ Len(walFile) \in Nat /\ Len(f) = Len(walFile) + 1
        /\ \A i \in 1..Len(f) : (i \in 1..Len(walFile) /\ f[i] = walFile[i])
                              \/ (i = Len(walFile) + 1 /\ f[i] = Torn)
    BY <1>1, Appended
  <2> HIDE DEF f
  <2>2. Ascending(f)
    BY <1>2, <2>1, TornIsNoRecord DEF Ascending
  <2>3. UpTo(f, num)
    BY <1>1, <1>2, <2>1, TornIsNoRecord DEF UpTo
  <2>4. QED
    BY <2>2, <2>3 DEF f
<1>4. Ascending(walFile)' /\ UpTo(walFile, num)'
  BY <1>2, <1>3 DEF Ascending, UpTo
<1>5. /\ Ascending(walBuf)' /\ Ascending(logChan)' /\ UpTo(walBuf, num)' /\ UpTo(logChan, num)'
      /\ Before(walFile, walBuf)' /\ Before(walFile, logChan)' /\ Before(walBuf, logChan)'
  BY EmptyOrdered DEF Ascending, Before, UpTo
<1>6. QED
  BY <1>4, <1>5 DEF OrderInv

LEMMA OrderReuse ==
  ASSUME IInv, NEW i \in DOMAIN logChan, ReuseValue(i)
  PROVE  OrderInv'
<1>1. /\ logChan \in Seq(Record) /\ i \in 1..Len(logChan) /\ Len(logChan) \in Nat
      /\ logChan \in [1..Len(logChan) -> Record]
  BY LenProperties DEF IInv, TypeOK
<1>2. logChan' = [logChan EXCEPT ![i] = [logChan[i] EXCEPT !.ok = FALSE]]
  BY DEF ReuseValue
<1>3. [logChan[i] EXCEPT !.ok = FALSE] \in Record
  BY <1>1 DEF Record
<1>4. /\ Len(logChan') = Len(logChan)
      /\ \A j \in 1..Len(logChan) :
            logChan'[j] = IF j = i THEN [logChan[i] EXCEPT !.ok = FALSE] ELSE logChan[j]
  BY <1>1, <1>2, <1>3, ExceptSeq
<1>5. \A j \in 1..Len(logChan) : logChan'[j].key = logChan[j].key /\ logChan'[j].num = logChan[j].num
  BY <1>1, <1>4 DEF Record
<1>6. num' = num /\ walBuf' = walBuf /\ walFile' = walFile
  BY DEF ReuseValue, memory
<1>7. QED
  BY SMTT(60), <1>4, <1>5, <1>6 DEF IInv, OrderInv, Ascending, Before, UpTo

LEMMA OrderKept ==
  ASSUME IInv, UNCHANGED <<num, logChan, walBuf, walFile>>
  PROVE  OrderInv'
  BY DEF IInv, OrderInv, Ascending, Before, UpTo

LEMMA OrderStep == IInv /\ [Next]_vars => OrderInv'
<1> SUFFICES ASSUME IInv, [Next]_vars PROVE OrderInv'
  OBVIOUS
<1>1. ASSUME NEW c \in Clients, NEW call \in Call, Begin(c, call) PROVE OrderInv'
  BY <1>1, OrderKept DEF Begin, memory, log
<1>2. ASSUME NEW c \in Clients, Set(c) \/ Delete(c) PROVE OrderInv'
  <2>1. calls[c].key \in Keys /\ WriteKey(calls[c].key)
    BY <1>2 DEF Set, Delete, IInv, TypeOK, Call
  <2>2. QED
    BY <2>1, OrderWriteKey
<1>3. ASSUME NEW c \in Clients, DeleteMissing(c) PROVE OrderInv'
  BY <1>3, OrderKept DEF DeleteMissing, memory, log
<1>4. ASSUME NEW k \in Keys, Expire(k) PROVE OrderInv'
  BY <1>4, OrderWriteKey DEF Expire
<1>5. ASSUME NEW i \in DOMAIN logChan, ReuseValue(i) PROVE OrderInv'
  BY <1>5, OrderReuse
<1>6. CASE Encode \/ EncodeOverflow \/ Tick \/ WriterEnd \/ CloseReturn
  BY <1>6, OrderMoves DEF Tick, WriterEnd, CloseReturn, FlushWAL, memory
<1>7. CASE SnapshotBegin \/ ScanShard \/ SnapshotFail \/ Rename \/ SnapshotEnd
  BY <1>7, OrderKept DEF SnapshotBegin, ScanShard, SnapshotFail, Rename, SnapshotEnd, memory, log
<1>8. CASE ResetWAL
  <2>1. walFile' = <<>> /\ walBuf' = <<>> /\ logChan' = logChan /\ num' = num
    BY <1>8 DEF ResetWAL, memory
  <2>2. QED
    BY <2>1, EmptyOrdered DEF IInv, OrderInv, Ascending, Before, UpTo
<1>9. CASE CleanerEnd \/ Close \/ Open \/ UNCHANGED vars
  BY <1>9, OrderKept DEF CleanerEnd, Close, Open, vars, memory, log
<1>10. CASE Exit \/ Crash
  <2>1. num' = num /\ logChan' = <<>> /\ walBuf' = <<>>
    BY <1>10 DEF Exit, Crash, ProcessGone, memory
  <2>2. walFile' = walFile \/ walFile' = Append(walFile, Torn)
    BY <1>10 DEF Exit, Crash
  <2>3. QED
    BY <2>1, <2>2, OrderLosses
<1>11. QED
  BY <1>1, <1>2, <1>3, <1>4, <1>5, <1>6, <1>7, <1>8, <1>9, <1>10 DEF Next

LEMMA OrderInit == Init => OrderInv
  BY EmptyOrdered DEF Init, OrderInv

(* Only the sequence of all records matters to LogInOrder.                 *)
LEMMA OrderImpliesLog == IInv => LogInOrder
<1> SUFFICES ASSUME IInv PROVE LogInOrder
  OBVIOUS
<1>1. /\ walFile \in Seq(LogRecord) /\ walBuf \in Seq(LogRecord) /\ logChan \in Seq(LogRecord)
  BY DEF IInv, TypeOK, LogRecord
<1> DEFINE f == walFile \o walBuf
           all == f \o logChan
<1>2. Ascending(f) /\ Before(f, logChan) /\ f \in Seq(LogRecord)
  BY <1>1, JoinOrdered, Concatenated DEF IInv, OrderInv
<1> HIDE DEF f
<1>3. Ascending(all) /\ all \in Seq(LogRecord)
  BY <1>1, <1>2, JoinOrdered, Concatenated DEF IInv, OrderInv
<1>4. DOMAIN all = 1..Len(all)
  BY <1>3, LenProperties
<1> HIDE DEF all
<1>5. \A i, j \in DOMAIN all :
        i < j /\ all[i].key = all[j].key /\ all[i].key \in Keys => all[i].num < all[j].num
  BY <1>3, <1>4 DEF Ascending
<1>6. QED
  BY <1>5 DEF LogInOrder, all, f

LEMMA Inductive == Spec => []IInv
<1>1. Init => IInv
  BY TypeInit, OrderInit DEF IInv
<1>2. IInv /\ [Next]_vars => IInv'
  BY TypeStep, OrderStep DEF IInv
<1>3. QED
  BY <1>1, <1>2, PTL DEF Spec

(* The records of a key reach the file in the order of its writes, however *)
(* the channel, the buffer, crashes and snapshots treat them.              *)
THEOREM OrderCorrect == Spec => []LogInOrder
<1>1. Spec => []IInv
  BY Inductive
<1>2. IInv => LogInOrder
  BY OrderImpliesLog
<1>3. QED
  BY <1>1, <1>2, PTL

-----------------------------------------------------------------------------
(* The promise.                                                            *)
(*                                                                         *)
(* What a flush would settle is in memory and what a start would load is   *)
(* not newer than memory; while a snapshot is under way, the number that   *)
(* was settled last is in its copy or still in the log, so that the reset  *)
(* of the log loses a settled write only where it says so.                 *)

LogUpTo(s) == \A i \in 1..Len(s) : s[i].key \in Keys => s[i].num <= mem[s[i].key]
LogFrom(s) == \A i \in 1..Len(s) : s[i].key \in Keys => synced[s[i].key] <= s[i].num
Covered(k, n) == synced[k] <= n \/ \E i \in Replayed(k) : walFile[i].num = synced[k]
Exposed == {k \in Keys : loss[k] \cap {"reset", "stale"} # {}}

LifeInv ==
    /\ phase = "down" => /\ spc = "idle" /\ calls = NoCalls
                         /\ logChan = <<>> /\ walBuf = <<>>
    /\ spc # "idle" => shots > 0

MemInv ==
    /\ \A k \in Keys : synced[k] <= mem[k] /\ mem[k] <= num
    /\ LogUpTo(walBuf) /\ LogUpTo(logChan)
    /\ shots = 0 => LogFrom(walBuf) /\ LogFrom(logChan)

DiskInv ==
    \A k \in Keys :
        /\ \A i \in Replayed(k) : walFile[i].num <= mem[k]
        /\ Replayed(k) = {} => snapFile.data[k] <= mem[k]
        /\ spc = "scan" => tmp[k] <= mem[k]
        /\ spc = "reset" => snapFile.data[k] <= mem[k]

CoverInv ==
    \A k \in Keys :
        /\ spc = "scan" /\ ShardOf[k] <= scanned => Covered(k, tmp[k])
        /\ spc = "reset" => Covered(k, snapFile.data[k])
        /\ k \notin Exposed => synced[k] <= Disk[k]

PInv == IInv /\ LifeInv /\ MemInv /\ DiskInv /\ CoverInv

DiskFacts ==
    \A k \in Keys :
        /\ Replayed(k) = {} => Disk[k] = snapFile.data[k]
        /\ Replayed(k) # {} => \E i \in Replayed(k) : Disk[k] = walFile[i].num
        /\ \A i \in Replayed(k) : walFile[i].num <= Disk[k]
        /\ Disk[k] \in Nat

LEMMA TypesNeeded ==
  ASSUME TypeOK
  PROVE  /\ \A k \in Keys : mem[k] \in Nat /\ synced[k] \in Nat /\ tmp[k] \in Nat
                           /\ snapFile.data[k] \in Nat
         /\ num \in Nat /\ shots \in Nat /\ scanned \in Nat
         /\ Len(walFile) \in Nat /\ DOMAIN walFile = 1..Len(walFile)
         /\ Len(walBuf) \in Nat /\ DOMAIN walBuf = 1..Len(walBuf)
         /\ Len(logChan) \in Nat /\ DOMAIN logChan = 1..Len(logChan)
         /\ \A i \in 1..Len(walFile) : walFile[i].num \in Nat
         /\ \A i \in 1..Len(walBuf) : /\ walBuf[i].num \in Nat /\ walBuf[i].key \in Keys
                                      /\ walBuf[i] # Torn
         /\ \A i \in 1..Len(logChan) : logChan[i].num \in Nat /\ logChan[i].key \in Keys
<1>1. /\ \A k \in Keys : mem[k] \in Nat /\ synced[k] \in Nat /\ tmp[k] \in Nat
                        /\ snapFile.data[k] \in Nat
      /\ num \in Nat /\ shots \in Nat /\ scanned \in Nat
  BY LogAssumption DEF TypeOK
<1>2. walFile \in Seq(LogRecord) /\ walBuf \in Seq(Record) /\ logChan \in Seq(Record)
  BY DEF TypeOK, LogRecord
<1>3. /\ Len(walFile) \in Nat /\ DOMAIN walFile = 1..Len(walFile)
      /\ Len(walBuf) \in Nat /\ DOMAIN walBuf = 1..Len(walBuf)
      /\ Len(logChan) \in Nat /\ DOMAIN logChan = 1..Len(logChan)
  BY <1>2, LenProperties
<1>4. \A i \in 1..Len(walFile) : walFile[i].num \in Nat
  <2> SUFFICES ASSUME NEW i \in 1..Len(walFile) PROVE walFile[i].num \in Nat
    OBVIOUS
  <2>1. walFile[i] \in LogRecord
    BY <1>2, ElementOfSeq
  <2>2. QED
    BY <2>1, TornIsNoRecord DEF LogRecord, Record
<1>5. \A r \in Record : r.num \in Nat /\ r.key \in Keys /\ r # Torn
  BY TornIsNoRecord DEF Record
<1>6. /\ \A i \in 1..Len(walBuf) : walBuf[i] \in Record
      /\ \A i \in 1..Len(logChan) : logChan[i] \in Record
  BY <1>2, ElementOfSeq
<1>7. QED
  BY <1>1, <1>3, <1>4, <1>5, <1>6

LEMMA ReplayedIn ==
  ASSUME TypeOK, NEW k \in Keys, NEW i \in Replayed(k)
  PROVE  /\ i \in 1..Len(walFile) /\ walFile[i].key = k /\ walFile[i].num \in Nat
         /\ walFile[i].ok /\ \A j \in 1..i : walFile[j] # Torn
<1>1. /\ i \in DOMAIN walFile /\ walFile[i].key = k
      /\ walFile[i].ok /\ \A j \in 1..i : walFile[j] # Torn
  BY Zenon DEF Replayed
<1>2. QED
  BY <1>1, TypesNeeded

(* A start loads the newest record of a key that it can replay.            *)
LEMMA DiskTop == IInv => DiskFacts
<1> SUFFICES ASSUME IInv, NEW k \in Keys
             PROVE  /\ Replayed(k) = {} => Disk[k] = snapFile.data[k]
                    /\ Replayed(k) # {} => \E i \in Replayed(k) : Disk[k] = walFile[i].num
                    /\ \A i \in Replayed(k) : walFile[i].num <= Disk[k]
                    /\ Disk[k] \in Nat
  BY DEF DiskFacts
<1>0. TypeOK
  BY DEF IInv
<1>1. /\ Disk[k] \in Nat
      /\ Replayed(k) = {} => Disk[k] = snapFile.data[k]
      /\ Replayed(k) # {} =>
             \E i \in Replayed(k) : Disk[k] = walFile[i].num /\ \A j \in Replayed(k) : j <= i
  BY <1>0, DiskIs, LogAssumption
<1>2. ASSUME NEW i \in Replayed(k) PROVE walFile[i].num <= Disk[k]
  <2>1. PICK j \in Replayed(k) : Disk[k] = walFile[j].num /\ i <= j
    BY <1>1
  <2>2. /\ i \in 1..Len(walFile) /\ walFile[i].key = k /\ walFile[i].num \in Nat
        /\ j \in 1..Len(walFile) /\ walFile[j].key = k /\ walFile[j].num \in Nat
    BY <1>0, ReplayedIn
  <2>3. CASE i = j
    BY <2>1, <2>2, <2>3
  <2>4. CASE i # j
    <3>1. i < j
      BY <1>0, <2>1, <2>2, <2>4, TypesNeeded
    <3>2. walFile[i].num < walFile[j].num
      BY <2>2, <3>1 DEF IInv, OrderInv, Ascending
    <3>3. QED
      BY <2>1, <2>2, <3>2
  <2>5. QED
    BY <2>3, <2>4
<1>3. QED
  BY <1>1, <1>2

(* Once the log's file is unchanged, so is what a start replays.           *)
LEMMA SameFile ==
  ASSUME walFile' = walFile, NEW k \in Keys
  PROVE  /\ Replayed(k)' = Replayed(k)
         /\ snapFile.data' = snapFile.data => Disk'[k] = Disk[k]
  BY DEF Replayed, Disk

LEMMA TypeWrittenRecord ==
  ASSUME NEW k \in Keys, num \in Nat, num < MaxWrites
  PROVE  [key |-> k, num |-> num + 1, ok |-> TRUE] \in Record
  BY LogAssumption DEF Record

(* Flushing the buffer.                                                    *)

TornFile == \E i \in DOMAIN walFile : walFile[i] = Torn

LEMMA FlushedFile ==
  ASSUME TypeOK, BufferToFile
  PROVE  /\ Len(walFile') = Len(walFile) + Len(walBuf) /\ DOMAIN walFile' = 1..Len(walFile')
         /\ \A i \in 1..Len(walFile) : walFile'[i] = walFile[i]
         /\ \A i \in 1..Len(walBuf) : walFile'[Len(walFile) + i] = walBuf[i]
<1>1. walFile \in Seq(LogRecord) /\ walBuf \in Seq(LogRecord) /\ walFile' = walFile \o walBuf
  BY DEF TypeOK, LogRecord, BufferToFile
<1>2. walFile' \in Seq(LogRecord)
  BY <1>1, Concatenated
<1>3. QED
  BY <1>1, <1>2, Concatenated, LenProperties

LEMMA FlushReplays ==
  ASSUME TypeOK, BufferToFile, NEW k \in Keys
  PROVE  /\ \A i \in Replayed(k) : i \in Replayed(k)' /\ walFile'[i] = walFile[i]
         /\ \A i \in Replayed(k)' :
              \/ i \in Replayed(k)
              \/ ~TornFile /\ \E j \in 1..Len(walBuf) : /\ walFile'[i] = walBuf[j] /\ walBuf[j].ok
                                                      /\ walBuf[j].key = k
         /\ ~TornFile => \A j \in 1..Len(walBuf) :
                            walBuf[j].ok /\ walBuf[j].key = k =>
                              /\ Len(walFile) + j \in Replayed(k)'
                              /\ walFile'[Len(walFile) + j] = walBuf[j]
<1> DEFINE f == walFile
           g == walFile'
           n == Len(walFile)
<1>1. /\ n \in Nat /\ Len(walBuf) \in Nat /\ Len(g) = n + Len(walBuf)
      /\ DOMAIN f = 1..n /\ DOMAIN g = 1..Len(g)
      /\ \A i \in 1..n : g[i] = f[i]
      /\ \A i \in 1..Len(walBuf) : g[n + i] = walBuf[i] /\ walBuf[i] # Torn
  BY FlushedFile, TypesNeeded
<1>2. Replayed(k) = {i \in DOMAIN f : f[i].ok /\ f[i].key = k /\ \A j \in 1..i : f[j] # Torn}
  BY Zenon DEF Replayed
<1>3. Replayed(k)' = {i \in DOMAIN g : g[i].ok /\ g[i].key = k /\ \A j \in 1..i : g[j] # Torn}
  BY Zenon DEF Replayed
<1>4. TornFile <=> \E i \in 1..n : f[i] = Torn
  BY <1>1 DEF TornFile
<1> HIDE DEF f, g, n
<1>5. ASSUME NEW i \in Replayed(k) PROVE i \in Replayed(k)' /\ g[i] = f[i]
  <2>1. /\ i \in 1..n /\ f[i].ok /\ f[i].key = k /\ \A j \in 1..i : f[j] # Torn
    BY <1>1, <1>2
  <2>2. i \in DOMAIN g /\ g[i] = f[i] /\ \A j \in 1..i : g[j] = f[j]
    BY <1>1, <2>1
  <2>3. QED
    BY <1>3, <2>1, <2>2
<1>6. ASSUME NEW i \in Replayed(k)'
      PROVE  \/ i \in Replayed(k)
             \/ ~TornFile /\ \E j \in 1..Len(walBuf) : g[i] = walBuf[j] /\ walBuf[j].ok /\ walBuf[j].key = k
  <2>1. /\ i \in 1..Len(g) /\ g[i].ok /\ g[i].key = k /\ \A j \in 1..i : g[j] # Torn
    BY <1>1, <1>3
  <2>2. CASE i \in 1..n
    <3>1. g[i] = f[i] /\ \A j \in 1..i : g[j] = f[j]
      BY <1>1, <2>2
    <3>2. i \in DOMAIN f /\ f[i].ok /\ f[i].key = k /\ \A j \in 1..i : f[j] # Torn
      BY <1>1, <2>1, <2>2, <3>1
    <3>3. QED
      BY <1>2, <3>2
  <2>3. CASE i \notin 1..n
    <3>1. i - n \in 1..Len(walBuf) /\ i = n + (i - n) /\ \A j \in 1..n : j \in 1..i
      BY <1>1, <2>1, <2>3
    <3>2. g[i] = walBuf[i - n] /\ \A j \in 1..n : f[j] # Torn
      BY <1>1, <2>1, <3>1
    <3>3. QED
      BY <1>4, <2>1, <3>1, <3>2
  <2>4. QED
    BY <2>2, <2>3
<1>7. ASSUME ~TornFile, NEW j \in 1..Len(walBuf), walBuf[j].ok, walBuf[j].key = k
      PROVE  n + j \in Replayed(k)' /\ g[n + j] = walBuf[j]
  <2>1. g[n + j] = walBuf[j] /\ n + j \in 1..Len(g)
    BY <1>1
  <2>2. ASSUME NEW x \in 1..(n + j) PROVE g[x] # Torn
    <3>1. CASE x \in 1..n
      BY <1>1, <1>4, <1>7, <3>1
    <3>2. CASE x \notin 1..n
      <4>1. x - n \in 1..Len(walBuf) /\ x = n + (x - n)
        BY <1>1, <3>2
      <4>2. QED
        BY <1>1, <4>1
    <3>3. QED
      BY <3>1, <3>2
  <2>3. QED
    BY <1>1, <1>3, <1>7, <2>1, <2>2
<1>8. QED
  BY <1>5, <1>6, <1>7 DEF g, f, n

LEMMA FlushSettles ==
  ASSUME TypeOK, BufferToFile, NEW k \in Keys
  PROVE  /\ synced'[k] \in Nat /\ synced[k] <= synced'[k]
         /\ TornFile => synced'[k] = synced[k]
         /\ synced'[k] = synced[k] \/ (~TornFile /\ \E j \in 1..Len(walBuf) :
                 /\ walBuf[j].ok /\ walBuf[j].key = k /\ synced'[k] = walBuf[j].num)
         /\ k \notin Exposed' =>
               k \notin Exposed /\ \A j \in 1..Len(walBuf) :
                  walBuf[j].ok /\ walBuf[j].key = k => synced[k] <= walBuf[j].num
         /\ k \in Exposed' =>
               k \in Exposed \/ \E j \in 1..Len(walBuf) :
                  walBuf[j].ok /\ walBuf[j].key = k /\ walBuf[j].num < synced[k]
<1> DEFINE N == Numbers(walBuf, k)
           T == {synced[k]} \cup N
<1>1. synced[k] \in 0..MaxWrites /\ walBuf \in Seq(LogRecord)
  BY DEF TypeOK, LogRecord
<1>2. Max(T) \in 0..MaxWrites /\ Max(T) \in T /\ \A y \in T : y <= Max(T)
  BY <1>1, MaxOfNumbers
<1>3. synced'[k] = IF TornFile THEN synced[k] ELSE Max(T)
  BY DEF BufferToFile, TornFile
<1>4. /\ Len(walBuf) \in Nat /\ DOMAIN walBuf = 1..Len(walBuf)
      /\ \A i \in 1..Len(walBuf) : walBuf[i].num \in Nat
  BY TypesNeeded
<1>5. /\ \A x \in N : \E j \in 1..Len(walBuf) : walBuf[j].ok /\ walBuf[j].key = k /\ x = walBuf[j].num
      /\ \A j \in 1..Len(walBuf) : walBuf[j].ok /\ walBuf[j].key = k => walBuf[j].num \in N
  BY <1>4, Zenon DEF Numbers
<1>6. loss'[k] = loss[k] \cup (IF TornFile THEN {"torn"} ELSE {})
                       \cup (IF \E x \in N : x < synced[k] THEN {"stale"} ELSE {})
  BY DEF BufferToFile, TornFile
<1>7. k \in Exposed' <=> (k \in Exposed \/ \E x \in N : x < synced[k])
  BY <1>6 DEF Exposed
<1> HIDE DEF N
<1>8. /\ synced'[k] \in Nat /\ synced[k] <= synced'[k]
      /\ TornFile => synced'[k] = synced[k]
      /\ synced'[k] = synced[k] \/ (~TornFile /\ synced'[k] \in N)
  <2>1. MaxWrites \in Nat /\ synced[k] \in Nat /\ synced[k] \in T
    BY <1>1, LogAssumption
  <2>2. CASE TornFile
    BY <1>3, <2>1, <2>2
  <2>3. CASE ~TornFile
    <3>1. synced'[k] = Max(T)
      BY <1>3, <2>3
    <3>2. synced'[k] \in Nat /\ synced[k] <= synced'[k]
      BY <1>2, <2>1, <3>1
    <3>3. QED
      BY <1>2, <2>3, <3>1, <3>2
  <2>4. QED
    BY <2>2, <2>3
<1>9. /\ synced'[k] \in N => \E j \in 1..Len(walBuf) :
            walBuf[j].ok /\ walBuf[j].key = k /\ synced'[k] = walBuf[j].num
      /\ (\E x \in N : x < synced[k]) => \E j \in 1..Len(walBuf) :
            walBuf[j].ok /\ walBuf[j].key = k /\ walBuf[j].num < synced[k]
  BY <1>5
<1>10. ASSUME ~\E x \in N : x < synced[k], NEW j \in 1..Len(walBuf), walBuf[j].ok, walBuf[j].key = k
       PROVE  synced[k] <= walBuf[j].num
  BY <1>1, <1>4, <1>5, <1>10
<1>11. QED
  BY <1>7, <1>8, <1>9, <1>10

(* What a flush keeps, whatever becomes of the buffer.                     *)
LEMMA FlushKeeps ==
  ASSUME PInv, IInv', BufferToFile,
         UNCHANGED <<mem, num, snapFile, spc, scanned, tmp, shots>>
  PROVE  /\ \A k \in Keys : synced'[k] \in synced[k]..mem[k]
         /\ shots = 0 => \A i \in 1..Len(logChan) : synced'[logChan[i].key] <= logChan[i].num
         /\ DiskInv' /\ CoverInv'
         /\ Exposed \subseteq Exposed' /\ (shots = 0 => Exposed' = Exposed)
<1>0. TypeOK /\ TypeOK' /\ DiskFacts
  BY DiskTop DEF PInv, IInv
<1>00. DiskFacts'
  BY DiskTop, PTL
<1>1. \A k \in Keys : synced'[k] \in synced[k]..mem[k] /\ synced[k] \in Nat /\ mem[k] \in Nat
  <2> SUFFICES ASSUME NEW k \in Keys
               PROVE  synced'[k] \in synced[k]..mem[k] /\ synced[k] \in Nat /\ mem[k] \in Nat
    OBVIOUS
  <2>1. /\ mem[k] \in Nat /\ synced[k] \in Nat /\ synced[k] <= mem[k]
        /\ \A j \in 1..Len(walBuf) : walBuf[j].key = k => walBuf[j].num <= mem[k]
    BY <1>0, TypesNeeded DEF PInv, MemInv, LogUpTo
  <2>2. QED
    BY <1>0, <2>1, FlushSettles
<1>2. ASSUME shots = 0, NEW i \in 1..Len(logChan) PROVE synced'[logChan[i].key] <= logChan[i].num
  <2> SUFFICES ASSUME NEW k \in Keys, logChan[i].key = k PROVE synced'[k] <= logChan[i].num
    BY <1>0, TypesNeeded
  <2>1. synced[k] <= logChan[i].num /\ logChan[i].num \in Nat
    BY <1>0, <1>2, TypesNeeded DEF PInv, MemInv, LogFrom
  <2>2. \A j \in 1..Len(walBuf) : walBuf[j].key = k => walBuf[j].num < logChan[i].num
    BY DEF PInv, IInv, OrderInv, Before
  <2>3. \A j \in 1..Len(walBuf) : walBuf[j].num \in Nat
    BY <1>0, TypesNeeded
  <2>4. QED
    BY <1>0, <2>1, <2>2, <2>3, FlushSettles
<1>3. DiskInv'
  <2> SUFFICES ASSUME NEW k \in Keys
               PROVE  /\ \A i \in Replayed(k)' : walFile'[i].num <= mem[k]
                      /\ Replayed(k)' = {} => snapFile.data[k] <= mem[k]
                      /\ spc = "scan" => tmp[k] <= mem[k]
                      /\ spc = "reset" => snapFile.data[k] <= mem[k]
    BY DEF DiskInv
  <2>1. \A i \in Replayed(k) : walFile[i].num <= mem[k]
    BY DEF PInv, DiskInv
  <2>2. \A j \in 1..Len(walBuf) : walBuf[j].key = k => walBuf[j].num <= mem[k]
    BY DEF PInv, MemInv, LogUpTo
  <2>3. /\ \A i \in Replayed(k) : i \in Replayed(k)' /\ walFile'[i] = walFile[i]
        /\ \A i \in Replayed(k)' :
             i \in Replayed(k) \/ \E j \in 1..Len(walBuf) : walFile'[i] = walBuf[j] /\ walBuf[j].key = k
    BY <1>0, FlushReplays
  <2>4. \A i \in Replayed(k)' : walFile'[i].num <= mem[k]
    BY <2>1, <2>2, <2>3
  <2>5. QED
    BY <2>3, <2>4 DEF PInv, DiskInv
<1>4. CoverInv'
  <2> SUFFICES ASSUME NEW k \in Keys
               PROVE  /\ spc = "scan" /\ ShardOf[k] <= scanned => Covered(k, tmp[k])'
                      /\ spc = "reset" => Covered(k, snapFile.data[k])'
                      /\ k \notin Exposed' => synced'[k] <= Disk'[k]
    BY DEF CoverInv
  <2>1. /\ \A i \in Replayed(k) : i \in Replayed(k)' /\ walFile'[i] = walFile[i]
        /\ ~TornFile => \A j \in 1..Len(walBuf) : walBuf[j].ok /\ walBuf[j].key = k =>
              Len(walFile) + j \in Replayed(k)' /\ walFile'[Len(walFile) + j] = walBuf[j]
    BY <1>0, FlushReplays
  <2>2. synced'[k] = synced[k] \/ \E i \in Replayed(k)' : synced'[k] = walFile'[i].num
    BY <1>0, <2>1, FlushSettles
  <2>3. \A n : Covered(k, n) => synced'[k] <= n \/ \E i \in Replayed(k)' : walFile'[i].num = synced'[k]
    BY <2>1, <2>2 DEF Covered
  <2>4. ASSUME k \notin Exposed' PROVE synced'[k] <= Disk'[k]
    <3>1. synced[k] <= Disk[k] /\ k \notin Exposed
      BY <1>0, <2>4, FlushSettles DEF PInv, CoverInv
    <3>2. CASE \E i \in Replayed(k)' : synced'[k] = walFile'[i].num
      BY <1>00, <3>2 DEF DiskFacts
    <3>3. CASE synced'[k] = synced[k] /\ Replayed(k)' = {}
      <4>1. Replayed(k) = {}
        BY <2>1, <3>3
      <4>2. QED
        BY <1>0, <1>00, <3>1, <3>3, <4>1 DEF DiskFacts
    <3>4. CASE synced'[k] = synced[k] /\ Replayed(k)' # {}
      <4>1. PICK i \in Replayed(k)' : Disk'[k] = walFile'[i].num
        BY <1>00, <3>4 DEF DiskFacts
      <4>2. CASE Replayed(k) # {}
        <5>1. PICK x \in Replayed(k) : Disk[k] = walFile[x].num
          BY <1>0, <4>2 DEF DiskFacts
        <5>2. Disk[k] <= Disk'[k]
          BY <1>00, <2>1, <5>1 DEF DiskFacts
        <5>3. QED
          BY <1>0, <1>00, <1>1, <3>1, <3>4, <5>2 DEF DiskFacts
      <4>3. CASE i \notin Replayed(k)
        <5>1. PICK j \in 1..Len(walBuf) : walFile'[i] = walBuf[j] /\ walBuf[j].ok /\ walBuf[j].key = k
          BY <1>0, <4>3, FlushReplays
        <5>2. synced[k] <= walBuf[j].num
          BY <1>0, <2>4, <5>1, FlushSettles
        <5>3. QED
          BY <3>4, <4>1, <5>1, <5>2
      <4>4. QED
        BY <4>2, <4>3
    <3>5. QED
      BY <2>2, <3>2, <3>3, <3>4
  <2>5. QED
    BY <2>3, <2>4 DEF PInv, CoverInv, Covered
<1>5. Exposed \subseteq Exposed'
  BY <1>0, FlushSettles DEF Exposed
<1>6. ASSUME shots = 0 PROVE Exposed' = Exposed
  <2>1. \A k \in Keys, j \in 1..Len(walBuf) :
          walBuf[j].key = k => synced[k] <= walBuf[j].num /\ synced[k] \in Nat /\ walBuf[j].num \in Nat
    BY <1>0, <1>6, TypesNeeded DEF PInv, MemInv, LogFrom
  <2>2. \A k \in Keys : k \in Exposed' => k \in Exposed
    BY <1>0, <2>1, FlushSettles
  <2>3. QED
    BY <1>5, <2>2 DEF Exposed
<1>7. QED
  BY <1>1, <1>2, <1>3, <1>4, <1>5, <1>6

(* Steps that write no key, settle nothing and leave a start what it had.  *)
SameRecords(s, t) ==
    Len(t) = Len(s) /\ \A i \in 1..Len(s) : t[i].key = s[i].key /\ t[i].num = s[i].num

LEMMA QuietKeeps ==
  ASSUME PInv, IInv', UNCHANGED <<mem, num, synced, scanned, tmp, shots>>,
         snapFile'.data = snapFile.data, spc' = spc \/ spc' \in {"idle", "end"}, Exposed' = Exposed,
         walBuf' = walBuf \/ walBuf' = <<>>, SameRecords(logChan, logChan') \/ logChan' = <<>>,
         \A k \in Keys : Replayed(k)' = Replayed(k) /\ \A i \in Replayed(k) : walFile'[i] = walFile[i]
  PROVE  MemInv' /\ DiskInv' /\ CoverInv'
<1>1. /\ \A s : SameRecords(logChan, s) /\ LogUpTo(logChan) => LogUpTo(s)
      /\ \A s : SameRecords(logChan, s) /\ LogFrom(logChan) => LogFrom(s)
      /\ LogUpTo(<<>>) /\ LogFrom(<<>>)
  BY EmptyOrdered DEF SameRecords, LogUpTo, LogFrom
<1>2. MemInv'
  BY <1>1, EmptyOrdered DEF PInv, MemInv, LogUpTo, LogFrom
<1>3. DiskInv'
  BY DEF PInv, DiskInv
<1>4. DiskFacts /\ DiskFacts'
  BY DiskTop, PTL DEF PInv
<1>5. ASSUME NEW k \in Keys PROVE Disk'[k] = Disk[k]
  <2>1. CASE Replayed(k) = {}
    BY <1>4, <2>1 DEF DiskFacts
  <2>2. CASE Replayed(k) # {}
    <3>1. /\ \E i \in Replayed(k) : Disk[k] = walFile[i].num
          /\ \E i \in Replayed(k) : Disk'[k] = walFile[i].num
          /\ \A i \in Replayed(k) : walFile[i].num <= Disk[k] /\ walFile[i].num <= Disk'[k]
          /\ Disk[k] \in Nat /\ Disk'[k] \in Nat
      BY <1>4, <2>2 DEF DiskFacts
    <3>2. QED
      BY <3>1
  <2>3. QED
    BY <2>1, <2>2
<1>6. CoverInv'
  BY <1>5 DEF PInv, CoverInv, Covered
<1>7. QED
  BY <1>2, <1>3, <1>6

LEMMA TornReplays ==
  ASSUME TypeOK, walFile' = Append(walFile, Torn), NEW k \in Keys
  PROVE  Replayed(k)' = Replayed(k) /\ \A i \in Replayed(k) : walFile'[i] = walFile[i]
<1> DEFINE f == walFile
           g == walFile'
           n == Len(walFile)
<1>1. /\ n \in Nat /\ Len(g) = n + 1 /\ DOMAIN f = 1..n /\ DOMAIN g = 1..(n + 1)
      /\ \A i \in 1..n : g[i] = f[i]
      /\ g[n + 1] = Torn
  <2>1. walFile \in Seq(LogRecord) /\ Torn \in LogRecord
    BY DEF TypeOK, LogRecord
  <2>2. Append(walFile, Torn) \in Seq(LogRecord)
    BY <2>1, Appended
  <2>3. QED
    BY <2>1, <2>2, Appended, LenProperties
<1>2. Replayed(k) = {i \in DOMAIN f : f[i].ok /\ f[i].key = k /\ \A j \in 1..i : f[j] # Torn}
  BY Zenon DEF Replayed
<1>3. Replayed(k)' = {i \in DOMAIN g : g[i].ok /\ g[i].key = k /\ \A j \in 1..i : g[j] # Torn}
  BY Zenon DEF Replayed
<1> HIDE DEF f, g, n
<1>4. ASSUME NEW i \in 1..n PROVE (i \in Replayed(k)' <=> i \in Replayed(k)) /\ g[i] = f[i]
  <2>1. g[i] = f[i] /\ \A j \in 1..i : g[j] = f[j]
    BY <1>1
  <2>2. i \in DOMAIN f /\ i \in DOMAIN g
    BY <1>1
  <2>3. QED
    BY <1>2, <1>3, <2>1, <2>2
<1>5. Replayed(k) \subseteq 1..n
  BY <1>1, <1>2
<1>6. Replayed(k)' \subseteq 1..n
  <2> SUFFICES ASSUME NEW i \in Replayed(k)', i \notin 1..n PROVE FALSE
    OBVIOUS
  <2>1. i \in DOMAIN g /\ \A j \in 1..i : g[j] # Torn
    BY <1>3
  <2>2. i = n + 1
    BY <1>1, <2>1
  <2>3. g[i] # Torn
    BY <1>1, <2>1, <2>2
  <2>4. QED
    BY <1>1, <2>2, <2>3
<1>7. QED
  BY <1>4, <1>5, <1>6 DEF g, f

LEMMA PromiseWriteKey ==
  ASSUME PInv, IInv', NEW k \in Keys, WriteKey(k)
  PROVE  MemInv' /\ DiskInv' /\ CoverInv' /\ Exposed' = Exposed /\ Promise!Write(k)
<1> DEFINE r == [key |-> k, num |-> num + 1, ok |-> TRUE]
<1>0. TypeOK
  BY DEF PInv, IInv
<1>1. /\ mem' = [mem EXCEPT ![k] = num + 1] /\ num' = num + 1 /\ num < MaxWrites
      /\ walBuf' = walBuf /\ walFile' = walFile /\ snapFile' = snapFile /\ synced' = synced
      /\ spc' = spc /\ scanned' = scanned /\ tmp' = tmp /\ shots' = shots
      /\ logChan' = logChan \/ logChan' = Append(logChan, r)
  BY DEF WriteKey, LogWrite, snapshot
<1>2. \A x \in Keys : /\ mem[x] <= mem'[x] /\ mem'[x] <= num' /\ mem'[k] = num + 1
                      /\ mem[x] \in Nat /\ mem'[x] \in Nat /\ synced[x] \in Nat /\ synced[x] <= num
                      /\ synced[x] <= mem'[x] /\ num \in Nat
  <2>1. \A x \in Keys : /\ mem[x] \in Nat /\ synced[x] \in Nat /\ mem[x] <= num /\ num \in Nat
                        /\ synced[x] <= mem[x]
    BY <1>0, TypesNeeded DEF PInv, MemInv
  <2>2. \A x \in Keys : mem'[x] = IF x = k THEN num + 1 ELSE mem[x]
    BY <1>0, <1>1 DEF TypeOK
  <2>3. QED
    BY <1>1, <2>1, <2>2
<1>3. LogUpTo(walBuf)' /\ LogUpTo(logChan)'
  <2>1. \A i \in 1..Len(walBuf) : /\ walBuf[i].num \in Nat /\ walBuf[i].key \in Keys
                                 /\ walBuf[i].num <= mem[walBuf[i].key]
    BY <1>0, TypesNeeded DEF PInv, MemInv, LogUpTo
  <2>2. LogUpTo(walBuf)'
    BY <1>1, <1>2, <2>1 DEF LogUpTo
  <2>3. \A i \in 1..Len(logChan) : /\ logChan[i].num \in Nat /\ logChan[i].key \in Keys
                                  /\ logChan[i].num <= mem[logChan[i].key]
    BY <1>0, TypesNeeded DEF PInv, MemInv, LogUpTo
  <2>4. CASE logChan' = logChan
    BY <1>2, <2>2, <2>3, <2>4 DEF LogUpTo
  <2>5. CASE logChan' = Append(logChan, r)
    <3>1. /\ Len(logChan') = Len(logChan) + 1 /\ Len(logChan) \in Nat
          /\ \A i \in 1..Len(logChan) : logChan'[i] = logChan[i]
          /\ logChan'[Len(logChan) + 1] = r
      BY <1>0, <1>2, <2>5, Appended, TypeWrittenRecord DEF TypeOK
    <3>2. QED
      BY <1>2, <2>2, <2>3, <3>1 DEF LogUpTo
  <2>6. QED
    BY <1>1, <2>4, <2>5
<1>4. ASSUME shots = 0 PROVE LogFrom(walBuf)' /\ LogFrom(logChan)'
  <2>1. LogFrom(walBuf) /\ LogFrom(logChan)
    BY <1>4 DEF PInv, MemInv
  <2>2. CASE logChan' = logChan
    BY <1>1, <2>1, <2>2 DEF LogFrom
  <2>3. CASE logChan' = Append(logChan, r)
    <3>1. /\ Len(logChan') = Len(logChan) + 1 /\ Len(logChan) \in Nat
          /\ \A i \in 1..Len(logChan) : logChan'[i] = logChan[i]
          /\ logChan'[Len(logChan) + 1] = r
      BY <1>0, <1>2, <2>3, Appended, TypeWrittenRecord DEF TypeOK
    <3>2. QED
      BY <1>1, <1>2, <2>1, <3>1 DEF LogFrom
  <2>4. QED
    BY <1>1, <2>2, <2>3
<1>5. MemInv'
  BY <1>1, <1>2, <1>3, <1>4 DEF MemInv
<1>6. Exposed' = Exposed
  <2>1. loss \in [Keys -> SUBSET Causes]
    BY <1>0 DEF TypeOK
  <2>2. loss' = loss \/ \E x \in {"late", "dropped"} : loss' = [loss EXCEPT ![k] = @ \cup {x}]
    BY DEF WriteKey, LogWrite
  <2>3. \A x \in Keys : loss'[x] \cap {"reset", "stale"} = loss[x] \cap {"reset", "stale"}
    BY <2>1, <2>2
  <2>4. QED
    BY <2>3 DEF Exposed
<1>7. \A x \in Keys : Replayed(x)' = Replayed(x) /\ Disk'[x] = Disk[x]
  BY <1>1, SameFile
<1>8. DiskInv'
  <2> SUFFICES ASSUME NEW x \in Keys
               PROVE  /\ \A i \in Replayed(x) : walFile[i].num <= mem'[x]
                      /\ Replayed(x) = {} => snapFile.data[x] <= mem'[x]
                      /\ spc = "scan" => tmp[x] <= mem'[x]
                      /\ spc = "reset" => snapFile.data[x] <= mem'[x]
    BY <1>1, <1>7 DEF DiskInv
  <2>1. /\ snapFile.data[x] \in Nat /\ tmp[x] \in Nat /\ \A i \in Replayed(x) : walFile[i].num \in Nat
    BY <1>0, TypesNeeded, ReplayedIn
  <2>2. QED
    BY <1>2, <2>1 DEF PInv, DiskInv
<1>9. CoverInv'
  BY <1>1, <1>6, <1>7 DEF PInv, CoverInv, Covered
<1>10. Promise!Write(k)
  BY <1>1, <1>6 DEF Promise!Write, Exposed
<1>11. QED
  BY <1>5, <1>6, <1>8, <1>9, <1>10

(* The records that move keep their bounds.                                *)
LEMMA HeadKeeps ==
  ASSUME NEW b \in Seq(Record), NEW q \in Seq(Record), q # <<>>
  PROVE  /\ LogUpTo(q) => LogUpTo(Tail(q))
         /\ LogFrom(q) => LogFrom(Tail(q))
         /\ LogUpTo(b) /\ LogUpTo(q) => LogUpTo(Append(b, Head(q)))
         /\ LogFrom(b) /\ LogFrom(q) => LogFrom(Append(b, Head(q)))
<1>1. /\ 1 \in 1..Len(q) /\ Head(q) = q[1]
      /\ \A i \in 1..Len(Tail(q)) : Tail(q)[i] = q[i + 1] /\ i + 1 \in 1..Len(q)
  BY FirstOf
<1>2. \A i \in 1..Len(Append(b, Head(q))) :
        (i \in 1..Len(b) /\ Append(b, Head(q))[i] = b[i]) \/ Append(b, Head(q))[i] = q[1]
  BY FirstOf, Appended
<1>3. /\ LogUpTo(q) => LogUpTo(Tail(q))
      /\ LogFrom(q) => LogFrom(Tail(q))
  BY <1>1 DEF LogUpTo, LogFrom
<1> DEFINE c == Append(b, Head(q))
<1> HIDE DEF c
<1>4. /\ LogUpTo(b) /\ LogUpTo(q) => LogUpTo(c)
      /\ LogFrom(b) /\ LogFrom(q) => LogFrom(c)
  BY <1>1, <1>2 DEF LogUpTo, LogFrom, c
<1>5. QED
  BY <1>3, <1>4 DEF c

LEMMA PromiseEncode ==
  ASSUME PInv, IInv', Encode
  PROVE  MemInv' /\ DiskInv' /\ CoverInv' /\ UNCHANGED Promise!vars
<1>1. /\ logChan # <<>> /\ logChan' = Tail(logChan) /\ walBuf' = Append(walBuf, Head(logChan))
      /\ mem' = mem /\ num' = num /\ synced' = synced /\ loss' = loss /\ walFile' = walFile
      /\ snapFile' = snapFile /\ spc' = spc /\ scanned' = scanned /\ tmp' = tmp /\ shots' = shots
  BY DEF Encode, memory, snapshot, history
<1>2. walBuf \in Seq(Record) /\ logChan \in Seq(Record)
  BY DEF PInv, IInv, TypeOK
<1>3. /\ LogUpTo(logChan') /\ LogUpTo(walBuf')
      /\ shots = 0 => LogFrom(logChan') /\ LogFrom(walBuf')
  BY <1>1, <1>2, HeadKeeps DEF PInv, MemInv
<1>4. MemInv'
  BY <1>1, <1>3 DEF PInv, MemInv, LogUpTo, LogFrom
<1>5. \A k \in Keys : Replayed(k)' = Replayed(k) /\ Disk'[k] = Disk[k]
  BY <1>1, SameFile
<1>6. DiskInv' /\ CoverInv'
  BY <1>1, <1>5 DEF PInv, DiskInv, CoverInv, Covered, Exposed
<1>7. QED
  BY <1>1, <1>4, <1>6 DEF Promise!vars

LEMMA PromiseSettle ==
  ASSUME PInv, UNCHANGED <<mem, num, shots>>,
         \A k \in Keys : synced'[k] \in synced[k]..mem[k],
         Exposed \subseteq Exposed', shots = 0 => Exposed' = Exposed
  PROVE  Promise!Settle
  BY DEF Promise!Settle, Exposed

LEMMA PromiseFlush ==
  ASSUME PInv, IInv', EncodeOverflow \/ Tick \/ WriterEnd \/ CloseReturn
  PROVE  MemInv' /\ DiskInv' /\ CoverInv' /\ Promise!Settle
<1>0. TypeOK
  BY DEF PInv, IInv
<1>1. /\ BufferToFile
      /\ mem' = mem /\ num' = num /\ snapFile' = snapFile
      /\ spc' = spc /\ scanned' = scanned /\ tmp' = tmp /\ shots' = shots
  BY DEF EncodeOverflow, Tick, WriterEnd, CloseReturn, FlushWAL, memory, snapshot
<1>2. /\ \A k \in Keys : synced'[k] \in synced[k]..mem[k]
      /\ shots = 0 => \A i \in 1..Len(logChan) : synced'[logChan[i].key] <= logChan[i].num
      /\ DiskInv' /\ CoverInv'
      /\ Exposed \subseteq Exposed' /\ (shots = 0 => Exposed' = Exposed)
  BY <1>1, FlushKeeps
<1>3. Promise!Settle
  BY <1>1, <1>2, PromiseSettle
<1>4. /\ \A i \in 1..Len(logChan) : logChan[i].key \in Keys /\ logChan[i].num <= mem[logChan[i].key]
      /\ Len(logChan) \in Nat
  BY <1>0, TypesNeeded DEF PInv, MemInv, LogUpTo
<1>5. \/ walBuf' = <<>> /\ logChan' = logChan
      \/ logChan # <<>> /\ walBuf' = <<Head(logChan)>> /\ logChan' = Tail(logChan)
  BY DEF EncodeOverflow, Tick, WriterEnd, CloseReturn, FlushWAL
<1>6. /\ \A i \in 1..Len(logChan') : \E j \in 1..Len(logChan) : logChan'[i] = logChan[j]
      /\ \A i \in 1..Len(walBuf') : \E j \in 1..Len(logChan) : walBuf'[i] = logChan[j]
  <2>1. CASE walBuf' = <<>> /\ logChan' = logChan
    BY <2>1, EmptyOrdered
  <2>2. CASE logChan # <<>> /\ walBuf' = <<Head(logChan)>> /\ logChan' = Tail(logChan)
    BY <1>0, <2>2, FirstOf DEF TypeOK
  <2>3. QED
    BY <1>5, <2>1, <2>2
<1>7. LogUpTo(logChan)' /\ LogUpTo(walBuf)'
  BY <1>1, <1>4, <1>6 DEF LogUpTo
<1>8. ASSUME shots = 0 PROVE LogFrom(logChan)' /\ LogFrom(walBuf)'
  BY <1>2, <1>6, <1>8 DEF LogFrom
<1>9. \A k \in Keys : synced'[k] <= mem'[k] /\ mem'[k] <= num'
  <2>1. \A k \in Keys : mem[k] \in Nat /\ synced[k] \in Nat
    BY <1>0, TypesNeeded
  <2>2. QED
    BY <1>1, <1>2, <2>1 DEF PInv, MemInv
<1>10. MemInv'
  BY <1>1, <1>7, <1>8, <1>9 DEF MemInv
<1>11. QED
  BY <1>2, <1>3, <1>10

(* The snapshot's steps.                                                   *)
LEMMA PromiseScan ==
  ASSUME PInv, IInv', SnapshotBegin \/ ScanShard
  PROVE  /\ MemInv' /\ DiskInv' /\ CoverInv'
         /\ SnapshotBegin => Promise!Snapshot
         /\ ScanShard => UNCHANGED Promise!vars
<1>0. TypeOK
  BY DEF PInv, IInv
<1>1. /\ mem' = mem /\ num' = num /\ synced' = synced /\ loss' = loss /\ walFile' = walFile
      /\ snapFile' = snapFile /\ logChan' = logChan /\ walBuf' = walBuf
      /\ shots' = shots \/ shots' = shots + 1
  BY DEF SnapshotBegin, ScanShard, memory, log, history
<1>2. MemInv'
  BY <1>0, <1>1, TypesNeeded DEF PInv, MemInv, LogUpTo, LogFrom
<1>3. \A k \in Keys : Replayed(k)' = Replayed(k) /\ Disk'[k] = Disk[k]
  BY <1>1, SameFile
<1>4. \A k \in Keys : /\ mem[k] \in Nat /\ tmp[k] \in Nat /\ synced[k] <= mem[k] /\ synced[k] \in Nat
                      /\ ShardOf[k] \in Nat \ {0}
  BY <1>0, TypesNeeded, LogAssumption DEF PInv, MemInv, Shards
<1>5. CASE SnapshotBegin
  <2>1. spc' = "scan" /\ scanned' = 0 /\ tmp' = NoWrites /\ shots' = shots + 1
    BY <1>5 DEF SnapshotBegin
  <2>2. DiskInv'
    BY <1>1, <1>3, <1>4, <2>1 DEF PInv, DiskInv, NoWrites
  <2>3. CoverInv'
    BY <1>1, <1>3, <1>4, <2>1 DEF PInv, CoverInv, Exposed
  <2>4. Promise!Snapshot /\ ~ScanShard
    BY <1>1, <1>5, <2>1 DEF Promise!Snapshot, SnapshotBegin, ScanShard
  <2>5. QED
    BY <1>2, <2>2, <2>3, <2>4
<1>6. CASE ScanShard
  <2>1. /\ spc = "scan" /\ spc' = "scan" /\ scanned' = scanned + 1 /\ shots' = shots
        /\ tmp' = [k \in Keys |-> IF ShardOf[k] = scanned + 1 THEN mem[k] ELSE tmp[k]]
    BY <1>6 DEF ScanShard
  <2>2. DiskInv'
    BY <1>1, <1>3, <1>4, <2>1 DEF PInv, DiskInv
  <2>3. ASSUME NEW k \in Keys, ShardOf[k] <= scanned' PROVE Covered(k, tmp[k])'
    <3>1. CASE ShardOf[k] = scanned + 1
      BY <1>1, <1>3, <1>4, <2>1, <3>1 DEF Covered
    <3>2. CASE ShardOf[k] # scanned + 1
      <4>1. ShardOf[k] <= scanned /\ tmp'[k] = tmp[k]
        BY <1>0, <1>4, <2>1, <2>3, <3>2, TypesNeeded
      <4>2. QED
        BY <1>1, <1>3, <2>1, <4>1 DEF PInv, CoverInv, Covered
    <3>3. QED
      BY <3>1, <3>2
  <2>4. CoverInv'
    BY <1>1, <1>3, <2>1, <2>3 DEF PInv, CoverInv, Exposed
  <2>5. UNCHANGED Promise!vars /\ ~SnapshotBegin
    BY <1>1, <1>6, <2>1 DEF Promise!vars, SnapshotBegin
  <2>6. QED
    BY <1>2, <2>2, <2>4, <2>5
<1>7. QED
  BY <1>5, <1>6

LEMMA PromiseRename ==
  ASSUME PInv, IInv', Rename
  PROVE  MemInv' /\ DiskInv' /\ CoverInv' /\ UNCHANGED Promise!vars
<1>0. TypeOK /\ DiskFacts
  BY DiskTop DEF PInv, IInv
<1>00. DiskFacts'
  BY DiskTop, PTL
<1>1. /\ mem' = mem /\ num' = num /\ synced' = synced /\ loss' = loss /\ walFile' = walFile
      /\ logChan' = logChan /\ walBuf' = walBuf /\ shots' = shots
      /\ spc = "scan" /\ scanned = ShardCount /\ snapFile'.data = tmp /\ spc' = "reset"
  BY DEF Rename, memory, log, history
<1>2. MemInv'
  BY <1>1 DEF PInv, MemInv, LogUpTo, LogFrom
<1>3. \A k \in Keys : Replayed(k)' = Replayed(k)
  BY <1>1, SameFile
<1>4. \A k \in Keys : tmp[k] <= mem[k] /\ Covered(k, tmp[k])
  BY <1>1, LogAssumption DEF PInv, DiskInv, CoverInv, Shards
<1>5. DiskInv'
  BY <1>1, <1>3, <1>4 DEF PInv, DiskInv
<1>6. ASSUME NEW k \in Keys, k \notin Exposed PROVE synced[k] <= Disk'[k]
  <2>1. CASE Replayed(k) = {}
    BY <1>00, <1>1, <1>3, <1>4, <2>1 DEF DiskFacts, Covered
  <2>2. CASE Replayed(k) # {}
    <3>1. PICK i \in Replayed(k) : Disk[k] = walFile[i].num
      BY <1>0, <2>2 DEF DiskFacts
    <3>2. Disk[k] <= Disk'[k] /\ Disk[k] \in Nat /\ Disk'[k] \in Nat
      BY <1>0, <1>00, <1>1, <1>3, <3>1 DEF DiskFacts
    <3>3. synced[k] <= Disk[k] /\ synced[k] \in Nat
      BY <1>0, <1>6, TypesNeeded DEF PInv, CoverInv
    <3>4. QED
      BY <3>2, <3>3
  <2>3. QED
    BY <2>1, <2>2
<1>7. CoverInv'
  BY <1>1, <1>3, <1>4, <1>6 DEF CoverInv, Covered, Exposed
<1>8. QED
  BY <1>1, <1>2, <1>5, <1>7 DEF Promise!vars

LEMMA PromiseReset ==
  ASSUME PInv, IInv', ResetWAL
  PROVE  MemInv' /\ DiskInv' /\ CoverInv' /\ Promise!Settle
<1>00. DiskFacts'
  BY DiskTop, PTL
<1>0. TypeOK /\ DiskFacts' /\ shots # 0
  BY <1>00, TypesNeeded DEF PInv, IInv, LifeInv, ResetWAL
<1>1. /\ mem' = mem /\ num' = num /\ snapFile' = snapFile /\ logChan' = logChan /\ shots' = shots
      /\ walFile' = <<>> /\ walBuf' = <<>> /\ spc = "reset" /\ spc' = "end"
      /\ synced' = [k \in Keys |-> Max({synced[k], snapFile.data[k]})]
      /\ loss' = [k \in Keys |->
                    IF \E n \in Numbers(walFile \o walBuf, k) : n > snapFile.data[k]
                    THEN loss[k] \cup {"reset"} ELSE loss[k]]
  BY DEF ResetWAL, memory
<1>2. ASSUME NEW k \in Keys
      PROVE  /\ synced'[k] \in Nat /\ synced[k] <= synced'[k]
             /\ synced'[k] \in {synced[k], snapFile.data[k]}
             /\ snapFile.data[k] <= synced'[k]
             /\ synced[k] \in Nat /\ snapFile.data[k] \in Nat /\ mem[k] \in Nat
             /\ synced[k] <= mem[k] /\ mem[k] <= num /\ snapFile.data[k] <= mem[k]
  <2>1. /\ synced[k] \in 0..MaxWrites /\ snapFile.data[k] \in 0..MaxWrites /\ MaxWrites \in Nat
    BY <1>0, LogAssumption DEF TypeOK
  <2> DEFINE T == {synced[k], snapFile.data[k]}
  <2>2. T \subseteq 0..MaxWrites /\ T # {}
    BY <2>1
  <2> HIDE DEF T
  <2>3. Max(T) \in T /\ \A y \in T : y <= Max(T)
    BY <2>1, <2>2, MaxIsGreatest
  <2>4. synced'[k] = Max(T)
    BY <1>1 DEF T
  <2>5. synced[k] <= mem[k] /\ mem[k] <= num /\ snapFile.data[k] <= mem[k] /\ mem[k] \in Nat
    BY <1>0, <1>1, TypesNeeded DEF PInv, MemInv, DiskInv
  <2>6. QED
    BY <2>1, <2>3, <2>4, <2>5 DEF T
<1>3. MemInv'
  <2>1. LogUpTo(logChan)' /\ LogUpTo(walBuf)'
    BY <1>1, EmptyOrdered DEF PInv, MemInv, LogUpTo
  <2>2. QED
    BY <1>0, <1>1, <1>2, <2>1 DEF MemInv
<1>4. \A k \in Keys : Replayed(k)' = {}
  BY <1>1 DEF Replayed
<1>5. DiskInv'
  BY <1>1, <1>2, <1>4 DEF DiskInv
<1>6. ASSUME NEW k \in Keys, k \notin Exposed' PROVE synced[k] <= snapFile.data[k]
  <2>1. ~\E n \in Numbers(walFile \o walBuf, k) : n > snapFile.data[k]
    BY <1>1, <1>6 DEF Exposed
  <2>2. CASE \E i \in Replayed(k) : walFile[i].num = synced[k]
    <3>1. PICK i \in Replayed(k) : walFile[i].num = synced[k]
      BY <2>2
    <3>2. i \in 1..Len(walFile) /\ walFile[i].key = k /\ walFile[i].ok
      BY <1>0, ReplayedIn
    <3> DEFINE f == walFile \o walBuf
    <3>3. i \in 1..Len(f) /\ f[i] = walFile[i] /\ f \in Seq(LogRecord)
      BY <1>0, <3>2, Concatenated DEF TypeOK, LogRecord
    <3>4. i \in DOMAIN f
      BY <3>3, LenProperties
    <3> HIDE DEF f
    <3>5. synced[k] \in Numbers(f, k)
      BY <3>1, <3>2, <3>3, <3>4, Zenon DEF Numbers
    <3>6. QED
      BY <1>2, <2>1, <3>5 DEF f
  <2>3. CASE synced[k] <= snapFile.data[k]
    BY <2>3
  <2>4. QED
    BY <1>1, <2>2, <2>3 DEF PInv, CoverInv, Covered
<1>7. CoverInv'
  <2> SUFFICES ASSUME NEW k \in Keys, k \notin Exposed' PROVE synced'[k] <= Disk'[k]
    BY <1>1 DEF CoverInv
  <2>1. Disk'[k] = snapFile.data[k]
    BY <1>0, <1>1, <1>4 DEF DiskFacts
  <2>2. QED
    BY <1>2, <1>6, <2>1
<1>8. Promise!Settle
  <2>1. Exposed \subseteq Exposed'
    BY <1>1 DEF Exposed
  <2>2. QED
    BY <1>0, <1>1, <1>2, <2>1, PromiseSettle
<1>9. QED
  BY <1>3, <1>5, <1>7, <1>8

LEMMA PromiseOpen ==
  ASSUME PInv, IInv', Open
  PROVE  MemInv' /\ DiskInv' /\ CoverInv' /\ Promise!Restart
<1>0. TypeOK /\ DiskFacts
  BY DiskTop DEF PInv, IInv
<1>1. /\ mem' = Disk /\ synced' = Disk /\ loss' = NoLoss /\ num' = num
      /\ walFile' = walFile /\ snapFile' = snapFile /\ shots' = shots /\ spc' = spc /\ spc = "idle"
      /\ logChan' = logChan /\ walBuf' = walBuf /\ logChan = <<>> /\ walBuf = <<>>
  BY DEF PInv, LifeInv, Open, log, snapshot
<1>2. \A k \in Keys : Replayed(k)' = Replayed(k) /\ Disk'[k] = Disk[k]
  BY <1>1, SameFile
<1>3. ASSUME NEW k \in Keys PROVE Disk[k] \in Nat /\ Disk[k] <= mem[k] /\ mem[k] \in Nat
  BY <1>0, TypesNeeded DEF DiskFacts, PInv, DiskInv
<1>4. Exposed' = {}
  BY <1>1 DEF Exposed, NoLoss
<1>5. MemInv'
  <2>1. \A k \in Keys : mem[k] <= num /\ num \in Nat
    BY <1>0, TypesNeeded DEF PInv, MemInv
  <2>2. QED
    BY <1>1, <1>3, <2>1, EmptyOrdered DEF MemInv, LogUpTo, LogFrom
<1>6. DiskInv'
  <2> SUFFICES ASSUME NEW k \in Keys
               PROVE  /\ \A i \in Replayed(k) : walFile[i].num <= Disk[k]
                      /\ Replayed(k) = {} => snapFile.data[k] <= Disk[k]
    BY <1>1, <1>2 DEF DiskInv
  <2>1. QED
    BY <1>0, <1>3 DEF DiskFacts
<1>7. CoverInv'
  BY <1>1, <1>2, <1>3 DEF CoverInv
<1>8. Promise!Restart
  <2>1. \A k \in Keys : mem'[k] \in Promise!Floor(k)..mem[k]
    <3> SUFFICES ASSUME NEW k \in Keys PROVE Disk[k] \in Promise!Floor(k)..mem[k]
      BY <1>1
    <3>1. k \notin Exposed => synced[k] <= Disk[k] /\ synced[k] \in Nat
      BY <1>0, TypesNeeded DEF PInv, CoverInv
    <3>2. Promise!Floor(k) = IF k \in Exposed THEN 0 ELSE synced[k]
      BY DEF Promise!Floor, Exposed
    <3>3. QED
      BY <1>3, <3>1, <3>2
  <2>2. QED
    BY <1>1, <1>4, <2>1 DEF Promise!Restart, Exposed
<1>9. QED
  BY <1>5, <1>6, <1>7, <1>8

(* The other steps.                                                        *)
LEMMA PromiseQuiet ==
  ASSUME PInv, IInv',
         \/ \E c \in Clients : \E call \in Call : Begin(c, call)
         \/ \E c \in Clients : DeleteMissing(c)
         \/ \E i \in DOMAIN logChan : ReuseValue(i)
         \/ CleanerEnd \/ Close \/ SnapshotFail \/ SnapshotEnd \/ Exit \/ Crash
         \/ UNCHANGED vars
  PROVE  MemInv' /\ DiskInv' /\ CoverInv' /\ UNCHANGED Promise!vars
<1>0. TypeOK
  BY DEF PInv, IInv
<1>1. /\ mem' = mem /\ num' = num /\ synced' = synced /\ scanned' = scanned /\ tmp' = tmp
      /\ shots' = shots /\ snapFile'.data = snapFile.data
      /\ walBuf' = walBuf \/ walBuf' = <<>>
  <2>1. snapFile' = snapFile \/ snapFile' = [snapFile EXCEPT !.state = "whole"]
    BY DEF Begin, DeleteMissing, ReuseValue, CleanerEnd, Close, SnapshotFail, SnapshotEnd,
           Exit, Crash, ProcessGone, vars, snapshot
  <2>2. snapFile'.data = snapFile.data
    BY <1>0, <2>1 DEF TypeOK
  <2>3. QED
    BY <2>2 DEF Begin, DeleteMissing, ReuseValue, CleanerEnd, Close, SnapshotFail, SnapshotEnd,
           Exit, Crash, ProcessGone, vars, memory, log, snapshot, history
<1>2. spc' = spc \/ spc' \in {"idle", "end"}
  BY DEF Begin, DeleteMissing, ReuseValue, CleanerEnd, Close, SnapshotFail, SnapshotEnd,
         Exit, Crash, ProcessGone, vars, snapshot
<1>3. Exposed' = Exposed
  <2>1. CASE \E i \in DOMAIN logChan : ReuseValue(i)
    <3>1. PICK i \in DOMAIN logChan : loss' = [loss EXCEPT ![logChan[i].key] = @ \cup {"reused"}]
      BY <2>1 DEF ReuseValue
    <3>2. \A k \in Keys : loss'[k] \cap {"reset", "stale"} = loss[k] \cap {"reset", "stale"}
      BY <1>0, <3>1 DEF TypeOK
    <3>3. QED
      BY <3>2 DEF Exposed
  <2>2. CASE ~\E i \in DOMAIN logChan : ReuseValue(i)
    <3>1. loss' = loss
      BY <2>2 DEF Begin, DeleteMissing, CleanerEnd, Close, SnapshotFail, SnapshotEnd,
                  Exit, Crash, ProcessGone, vars, history
    <3>2. QED
      BY <3>1 DEF Exposed
  <2>3. QED
    BY <2>1, <2>2
<1>4. SameRecords(logChan, logChan') \/ logChan' = <<>>
  <2>1. CASE \E i \in DOMAIN logChan : ReuseValue(i)
    <3>1. PICK i \in DOMAIN logChan : logChan' = [logChan EXCEPT ![i] = [logChan[i] EXCEPT !.ok = FALSE]]
      BY <2>1 DEF ReuseValue
    <3>2. logChan \in Seq(Record) /\ i \in 1..Len(logChan) /\ logChan[i] \in Record
      BY <1>0, TypesNeeded, ElementOfSeq DEF TypeOK
    <3>3. [logChan[i] EXCEPT !.ok = FALSE] \in Record
      BY <3>2 DEF Record
    <3>4. /\ Len(logChan') = Len(logChan)
          /\ \A j \in 1..Len(logChan) :
                logChan'[j] = IF j = i THEN [logChan[i] EXCEPT !.ok = FALSE] ELSE logChan[j]
      BY <3>1, <3>2, <3>3, ExceptSeq
    <3>5. QED
      BY <3>2, <3>4 DEF SameRecords, Record
  <2>2. CASE ~\E i \in DOMAIN logChan : ReuseValue(i)
    <3>1. logChan' = logChan \/ logChan' = <<>>
      BY <2>2 DEF Begin, DeleteMissing, CleanerEnd, Close, SnapshotFail, SnapshotEnd,
                  Exit, Crash, ProcessGone, vars, log
    <3>2. QED
      BY <3>1 DEF SameRecords
  <2>3. QED
    BY <2>1, <2>2
<1>5. \A k \in Keys : Replayed(k)' = Replayed(k) /\ \A i \in Replayed(k) : walFile'[i] = walFile[i]
  <2>1. walFile' = walFile \/ walFile' = Append(walFile, Torn)
    BY DEF Begin, DeleteMissing, ReuseValue, CleanerEnd, Close, SnapshotFail, SnapshotEnd,
           Exit, Crash, vars, log
  <2>2. QED
    BY <1>0, <2>1, TornReplays, SameFile
<1>6. UNCHANGED Promise!vars
  BY <1>1, <1>3 DEF Promise!vars, Exposed
<1>7. QED
  BY <1>1, <1>2, <1>3, <1>4, <1>5, <1>6, QuietKeeps

LEMMA LifeStep == PInv /\ [Next]_vars => LifeInv'
<1> SUFFICES ASSUME PInv, [Next]_vars PROVE LifeInv'
  OBVIOUS
<1>0. TypeOK /\ shots \in Nat
  BY TypesNeeded DEF PInv, IInv
<1>1. ASSUME NEW c \in Clients, Set(c) \/ Delete(c) \/ DeleteMissing(c) PROVE LifeInv'
  <2>1. phase # "down" /\ phase' = phase /\ spc' = spc /\ shots' = shots
    BY <1>1 DEF Set, Delete, DeleteMissing, WriteKey, snapshot, life, PInv, LifeInv, NoCalls
  <2>2. QED
    BY <2>1 DEF PInv, LifeInv
<1>2. ASSUME NEW c \in Clients, NEW call \in Call, Begin(c, call) PROVE LifeInv'
  BY <1>2 DEF Begin, snapshot, life, PInv, LifeInv
<1>3. ASSUME NEW k \in Keys, Expire(k) PROVE LifeInv'
  BY <1>3 DEF Expire, WriteKey, snapshot, life, PInv, LifeInv
<1>4. ASSUME NEW i \in DOMAIN logChan, ReuseValue(i) PROVE LifeInv'
  <2>1. logChan # <<>> /\ phase' = phase /\ spc' = spc /\ shots' = shots
    BY <1>0, <1>4, EmptyOrdered, TypesNeeded DEF ReuseValue, snapshot, life
  <2>2. QED
    BY <2>1 DEF PInv, LifeInv
<1>5. CASE Encode \/ EncodeOverflow \/ Tick \/ WriterEnd \/ CloseReturn
  <2>1. phase # "down" /\ phase' # "down" /\ spc' = spc /\ shots' = shots
    BY <1>5 DEF Encode, EncodeOverflow, Tick, WriterEnd, CloseReturn, snapshot, life, PInv, LifeInv
  <2>2. QED
    BY <2>1 DEF PInv, LifeInv
<1>6. CASE SnapshotBegin \/ ScanShard \/ SnapshotFail \/ Rename \/ ResetWAL \/ SnapshotEnd
  <2>1. phase' = phase /\ phase # "down"
    BY <1>6 DEF SnapshotBegin, ScanShard, SnapshotFail, Rename, ResetWAL, SnapshotEnd, life, PInv,
       LifeInv
  <2>2. spc' # "idle" => shots' > 0
    BY <1>0, <1>6 DEF SnapshotBegin, ScanShard, SnapshotFail, Rename, ResetWAL, SnapshotEnd, PInv,
       LifeInv
  <2>3. QED
    BY <2>1, <2>2 DEF LifeInv
<1>7. CASE CleanerEnd \/ Close \/ Open
  <2>1. phase' # "down" /\ spc' = spc /\ shots' = shots
    BY <1>7 DEF CleanerEnd, Close, Open, snapshot
  <2>2. QED
    BY <2>1 DEF PInv, LifeInv
<1>8. CASE Exit \/ Crash
  BY <1>8 DEF Exit, Crash, ProcessGone, LifeInv
<1>9. CASE UNCHANGED vars
  BY <1>9 DEF vars, log, snapshot, life, PInv, LifeInv
<1>10. QED
  BY <1>1, <1>2, <1>3, <1>4, <1>5, <1>6, <1>7, <1>8, <1>9 DEF Next

(* Every step keeps the invariant and is a step of the promise, or none.   *)
LEMMA PromiseStep ==
  PInv /\ IInv' /\ [Next]_vars => MemInv' /\ DiskInv' /\ CoverInv' /\ [Promise!Next]_(Promise!vars)
<1> SUFFICES ASSUME PInv, IInv', [Next]_vars
             PROVE  MemInv' /\ DiskInv' /\ CoverInv' /\ [Promise!Next]_(Promise!vars)
  OBVIOUS
<1> DEFINE Goal == MemInv' /\ DiskInv' /\ CoverInv' /\ [Promise!Next]_(Promise!vars)
<1>0. TypeOK
  BY DEF PInv, IInv
<1>1. ASSUME NEW c \in Clients, Set(c) \/ Delete(c) PROVE Goal
  <2>1. calls[c].key \in Keys /\ WriteKey(calls[c].key)
    BY <1>0, <1>1 DEF Set, Delete, TypeOK, Call
  <2>2. MemInv' /\ DiskInv' /\ CoverInv' /\ Promise!Write(calls[c].key)
    BY <2>1, PromiseWriteKey
  <2>3. QED
    BY <2>1, <2>2 DEF Promise!Next
<1>2. ASSUME NEW k \in Keys, Expire(k) PROVE Goal
  BY <1>2, PromiseWriteKey DEF Expire, Promise!Next
<1>3. CASE Encode
  BY <1>3, PromiseEncode
<1>4. CASE EncodeOverflow \/ Tick \/ WriterEnd \/ CloseReturn
  BY <1>4, PromiseFlush DEF Promise!Next
<1>5. CASE SnapshotBegin \/ ScanShard
  BY <1>5, PromiseScan DEF Promise!Next
<1>6. CASE Rename
  BY <1>6, PromiseRename
<1>7. CASE ResetWAL
  BY <1>7, PromiseReset DEF Promise!Next
<1>8. CASE Open
  BY <1>8, PromiseOpen DEF Promise!Next
<1>9. CASE \/ \E c \in Clients : \E call \in Call : Begin(c, call)
           \/ \E c \in Clients : DeleteMissing(c)
           \/ \E i \in DOMAIN logChan : ReuseValue(i)
           \/ CleanerEnd \/ Close \/ SnapshotFail \/ SnapshotEnd \/ Exit \/ Crash
           \/ UNCHANGED vars
  BY <1>9, PromiseQuiet
<1>10. QED
  BY <1>1, <1>2, <1>3, <1>4, <1>5, <1>6, <1>7, <1>8, <1>9 DEF Next

LEMMA PromiseInit == Init => LifeInv /\ MemInv /\ DiskInv /\ CoverInv /\ Promise!Init
<1> SUFFICES ASSUME Init PROVE LifeInv /\ MemInv /\ DiskInv /\ CoverInv /\ Promise!Init
  OBVIOUS
<1>1. \A k \in Keys : Replayed(k) = {} /\ Disk[k] = 0 /\ mem[k] = 0 /\ synced[k] = 0 /\ tmp[k] = 0
                      /\ snapFile.data[k] = 0
  BY DEF Init, NoWrites, Replayed, Disk
<1>2. LifeInv /\ DiskInv /\ CoverInv
  BY <1>1 DEF Init, LifeInv, DiskInv, CoverInv
<1>3. MemInv
  BY <1>1, EmptyOrdered DEF Init, MemInv, LogUpTo, LogFrom
<1>4. Promise!Init
  BY DEF Init, NoWrites, NoLoss, Promise!Init
<1>5. QED
  BY <1>2, <1>3, <1>4

(* The store with its log, its snapshots, its crashes and its restarts     *)
(* implements the promise.                                                 *)
THEOREM PromiseKept == Spec => KeepsPromise
<1>1. Init => PInv /\ Promise!Init
  BY TypeInit, OrderInit, PromiseInit DEF PInv, IInv
<1>2. PInv /\ [Next]_vars => PInv' /\ [Promise!Next]_(Promise!vars)
  <2>1. PInv /\ [Next]_vars => IInv'
    BY TypeStep, OrderStep DEF PInv, IInv
  <2>2. QED
    BY <2>1, LifeStep, PromiseStep DEF PInv
<1>3. QED
  BY <1>1, <1>2, PTL DEF Spec, KeepsPromise, Promise!Spec

-----------------------------------------------------------------------------
(* An orderly restart.                                                     *)
(*                                                                         *)
(* The last write of a key that no cause has met is among the records that *)
(* a start will replay or that are on their way there, or there are none   *)
(* and the snapshot has it.                                                *)

OnFile(k) == {walFile[i].num : i \in Replayed(k)}
OnTheWay(k) == OnFile(k) \cup Numbers(walBuf, k) \cup Numbers(logChan, k)

Kept(k) ==
    /\ OnTheWay(k) = {} => snapFile.data[k] = mem[k]
    /\ OnTheWay(k) # {} => mem[k] \in OnTheWay(k)
    /\ spc = "scan" /\ ShardOf[k] <= scanned /\ OnTheWay(k) = {} => tmp[k] = mem[k]

KeptInv == phase # "down" => \A k \in Keys : loss[k] = {} => Kept(k)

(* What the writer leaves when it ends, and the file of a snapshot under way. *)
CloseInv ==
    /\ snapFile.state = "part" /\ phase # "down" => spc \in {"reset", "end"}
    /\ phase = "closed" => "writer" \notin workers
    /\ phase # "down" /\ "writer" \notin workers =>
         /\ walBuf = <<>> /\ phase # "open"
         /\ \A i \in DOMAIN logChan : "late" \in loss[logChan[i].key]

LEMMA NumbersOf ==
  ASSUME NEW s, NEW k, NEW n
  PROVE  n \in Numbers(s, k) <=> \E i \in DOMAIN s : s[i].ok /\ s[i].key = k /\ n = s[i].num
  BY Zenon DEF Numbers

LEMMA NumbersOfNone == \A k : Numbers(<<>>, k) = {}
<1>1. DOMAIN <<>> = {}
  OBVIOUS
<1>2. QED
  BY <1>1 DEF Numbers

LEMMA NumbersAppended ==
  ASSUME NEW s \in Seq(Record), NEW r \in Record, NEW k
  PROVE  Numbers(Append(s, r), k) = Numbers(s, k) \cup {n \in {r.num} : r.ok /\ r.key = k}
<1> DEFINE t == Append(s, r)
<1>1. /\ Len(s) \in Nat /\ DOMAIN s = 1..Len(s) /\ DOMAIN t = 1..(Len(s) + 1)
      /\ t[Len(s) + 1] = r /\ \A i \in 1..Len(s) : t[i] = s[i]
  BY AppendProperties, LenProperties
<1> HIDE DEF t
<1>2. \A i \in DOMAIN t : i = Len(s) + 1 \/ i \in DOMAIN s
  BY <1>1
<1>3. Len(s) + 1 \in DOMAIN t /\ \A i \in DOMAIN s : i \in DOMAIN t
  BY <1>1
<1>4. \A n : n \in Numbers(t, k) <=> n \in Numbers(s, k) \/ (n = r.num /\ r.ok /\ r.key = k)
  BY <1>1, <1>2, <1>3, NumbersOf
<1>5. QED
  BY <1>4 DEF t

LEMMA NumbersTail ==
  ASSUME NEW s \in Seq(Record), s # <<>>, NEW k
  PROVE  Numbers(s, k) = Numbers(Tail(s), k) \cup {n \in {Head(s).num} : Head(s).ok /\ Head(s).key = k}
<1> DEFINE u == Tail(s)
           h == Head(s)
<1>1. /\ Len(s) \in Nat /\ DOMAIN s = 1..Len(s) /\ 1 \in DOMAIN s /\ h = s[1]
      /\ DOMAIN u = 1..(Len(s) - 1)
      /\ \A i \in 1..(Len(s) - 1) : u[i] = s[i + 1]
  BY HeadTailProperties, LenProperties
<1> HIDE DEF u, h
<1>2. \A i \in DOMAIN s : i = 1 \/ (i - 1 \in DOMAIN u /\ u[i - 1] = s[i])
  BY <1>1
<1>3. \A i \in DOMAIN u : i + 1 \in DOMAIN s /\ u[i] = s[i + 1]
  BY <1>1
<1>4. ASSUME NEW n, n \in Numbers(s, k) PROVE n \in Numbers(u, k) \/ (n = h.num /\ h.ok /\ h.key = k)
  <2>1. PICK i \in DOMAIN s : s[i].ok /\ s[i].key = k /\ n = s[i].num
    BY <1>4, NumbersOf
  <2>2. CASE i = 1
    BY <1>1, <2>1, <2>2
  <2>3. CASE i # 1
    <3>1. i - 1 \in DOMAIN u /\ u[i - 1] = s[i]
      BY <1>2, <2>3
    <3>2. QED
      BY <2>1, <3>1, NumbersOf
  <2>4. QED
    BY <2>2, <2>3
<1>5. ASSUME NEW n, n \in Numbers(u, k) PROVE n \in Numbers(s, k)
  <2>1. PICK i \in DOMAIN u : u[i].ok /\ u[i].key = k /\ n = u[i].num
    BY <1>5, NumbersOf
  <2>2. i + 1 \in DOMAIN s /\ s[i + 1] = u[i]
    BY <1>3
  <2>3. QED
    BY <2>1, <2>2, NumbersOf
<1>6. ASSUME h.ok, h.key = k PROVE h.num \in Numbers(s, k)
  BY <1>1, <1>6, NumbersOf
<1>7. Numbers(s, k) = Numbers(u, k) \cup {n \in {h.num} : h.ok /\ h.key = k}
  BY <1>4, <1>5, <1>6
<1>8. QED
  BY <1>7 DEF u, h

LEMMA OnFileIs ==
  ASSUME NEW k, NEW n
  PROVE  n \in OnFile(k) <=> \E i \in Replayed(k) : n = walFile[i].num
  BY DEF OnFile

(* A flush brings what the buffer has of a key to the file, unless it is torn. *)
LEMMA FlushBrings ==
  ASSUME TypeOK, BufferToFile, NEW k \in Keys
  PROVE  /\ TornFile => loss'[k] # {}
         /\ ~TornFile => OnFile(k)' = OnFile(k) \cup Numbers(walBuf, k)
<1>1. TornFile => loss'[k] # {}
  BY DEF BufferToFile, TornFile
<1>2. ASSUME ~TornFile, NEW n PROVE n \in OnFile(k)' <=> n \in OnFile(k) \cup Numbers(walBuf, k)
  <2>1. n \in OnFile(k)' <=> \E i \in Replayed(k)' : n = walFile'[i].num
    BY DEF OnFile
  <2>2. n \in Numbers(walBuf, k) <=>
          \E j \in 1..Len(walBuf) : walBuf[j].ok /\ walBuf[j].key = k /\ n = walBuf[j].num
    <3>1. DOMAIN walBuf = 1..Len(walBuf)
      BY TypesNeeded
    <3>2. QED
      BY <3>1, NumbersOf
  <2>3. n \in OnFile(k)' => n \in OnFile(k) \/ n \in Numbers(walBuf, k)
    <3>1. ASSUME NEW i \in Replayed(k)', n = walFile'[i].num
          PROVE  n \in OnFile(k) \/ n \in Numbers(walBuf, k)
      <4>1. CASE i \in Replayed(k)
        BY <3>1, <4>1, FlushReplays, OnFileIs
      <4>2. CASE i \notin Replayed(k)
        BY <2>2, <3>1, <4>2, FlushReplays
      <4>3. QED
        BY <4>1, <4>2
    <3>2. QED
      BY <2>1, <3>1
  <2>4. n \in OnFile(k) => n \in OnFile(k)'
    BY <2>1, FlushReplays, OnFileIs
  <2>5. n \in Numbers(walBuf, k) => n \in OnFile(k)'
    BY <1>2, <2>1, <2>2, FlushReplays
  <2>6. QED
    BY <2>3, <2>4, <2>5
<1>3. QED
  BY <1>1, <1>2

LEMMA WriteAddsCause ==
  ASSUME TypeOK, NEW k \in Keys, NEW x \in Keys, WriteKey(x)
  PROVE  loss[k] \subseteq loss'[k]
<1>1. loss' = loss \/ \E y : loss' = [loss EXCEPT ![x] = @ \cup {y}]
  BY DEF WriteKey, LogWrite
<1>2. loss \in [Keys -> SUBSET Causes]
  BY DEF TypeOK
<1>3. QED
  BY <1>1, <1>2

(* Only a start forgets a cause. *)
LEMMA LossGrows ==
  ASSUME TypeOK, [Next]_vars, ~Open, NEW k \in Keys
  PROVE  loss[k] \subseteq loss'[k]
<1> USE DEF TypeOK
<1>1. ASSUME NEW x \in Keys, WriteKey(x) PROVE loss[k] \subseteq loss'[k]
  BY <1>1, WriteAddsCause
<1>2. ASSUME NEW c \in Clients, Set(c) \/ Delete(c) PROVE loss[k] \subseteq loss'[k]
  <2>1. calls[c].key \in Keys /\ WriteKey(calls[c].key)
    BY <1>2 DEF Set, Delete, Call
  <2>2. QED
    BY <1>1, <2>1
<1>3. ASSUME NEW x \in Keys, Expire(x) PROVE loss[k] \subseteq loss'[k]
  BY <1>1, <1>3 DEF Expire
<1>4. ASSUME NEW i \in DOMAIN logChan, ReuseValue(i) PROVE loss[k] \subseteq loss'[k]
  BY <1>4 DEF ReuseValue
<1>5. CASE EncodeOverflow \/ Tick \/ WriterEnd \/ CloseReturn
  BY <1>5 DEF EncodeOverflow, Tick, WriterEnd, CloseReturn, FlushWAL, BufferToFile
<1>6. CASE ResetWAL
  BY <1>6 DEF ResetWAL
<1>7. ASSUME loss' = loss PROVE loss[k] \subseteq loss'[k]
  BY <1>7
<1>8. QED
  BY <1>2, <1>3, <1>4, <1>5, <1>6, <1>7 DEF Next, Begin, DeleteMissing, Encode, CleanerEnd, Close,
     SnapshotBegin, ScanShard, SnapshotFail, Rename, SnapshotEnd, Exit, Crash, ProcessGone,
     history, vars

(* The steps that only move records. *)
LEMMA MovesKeep ==
  ASSUME IInv, [Next]_vars, Encode \/ EncodeOverflow \/ Tick \/ WriterEnd \/ CloseReturn,
         NEW k \in Keys, loss'[k] = {}
  PROVE  OnTheWay(k)' = OnTheWay(k)
<1>0. TypeOK /\ walBuf \in Seq(Record) /\ logChan \in Seq(Record)
  BY DEF IInv, TypeOK
<1> DEFINE h == Head(logChan)
           one == {n \in {h.num} : h.ok /\ h.key = k}
<1>1. logChan # <<>> => Numbers(logChan, k) = Numbers(Tail(logChan), k) \cup one
  BY <1>0, NumbersTail
<1>2. CASE Encode
  <2>1. /\ logChan # <<>> /\ logChan' = Tail(logChan) /\ walBuf' = Append(walBuf, h)
        /\ walFile' = walFile
    BY <1>2 DEF Encode
  <2>2. h \in Record
    BY <1>0, <2>1, FirstOf
  <2>3. Numbers(walBuf', k) = Numbers(walBuf, k) \cup one
    BY <1>0, <2>1, <2>2, NumbersAppended
  <2>4. OnFile(k)' = OnFile(k)
    BY <2>1 DEF OnFile, Replayed
  <2> HIDE DEF one
  <2>5. OnTheWay(k)' = OnFile(k)' \cup Numbers(walBuf', k) \cup Numbers(logChan', k)
    BY DEF OnTheWay, Numbers
  <2>6. QED
    BY <1>1, <2>1, <2>3, <2>4, <2>5 DEF OnTheWay
<1>3. CASE EncodeOverflow \/ Tick \/ WriterEnd \/ CloseReturn
  <2>1. /\ BufferToFile
        /\ \/ walBuf' = <<>> /\ logChan' = logChan
           \/ logChan # <<>> /\ walBuf' = <<h>> /\ logChan' = Tail(logChan)
    BY <1>3 DEF EncodeOverflow, Tick, WriterEnd, CloseReturn, FlushWAL
  <2>2. OnFile(k)' = OnFile(k) \cup Numbers(walBuf, k)
    BY <1>0, <2>1, FlushBrings
  <2>3. OnTheWay(k)' = OnFile(k)' \cup Numbers(walBuf', k) \cup Numbers(logChan', k)
    BY DEF OnTheWay, Numbers
  <2>4. CASE walBuf' = <<>> /\ logChan' = logChan
    BY <2>2, <2>3, <2>4, NumbersOfNone DEF OnTheWay
  <2>5. CASE logChan # <<>> /\ walBuf' = <<h>> /\ logChan' = Tail(logChan)
    <3>1. Numbers(<<h>>, k) = one
      <4>1. DOMAIN <<h>> = {1} /\ <<h>>[1] = h
        OBVIOUS
      <4> DEFINE s == <<h>>
      <4> HIDE DEF h, s
      <4>2. \A n : n \in Numbers(s, k) <=> h.ok /\ h.key = k /\ n = h.num
        BY <4>1, NumbersOf DEF s
      <4>3. QED
        BY <4>2 DEF s
    <3> HIDE DEF one
    <3>2. QED
      BY <1>1, <2>2, <2>3, <2>5, <3>1 DEF OnTheWay
  <2>6. QED
    BY <2>1, <2>4, <2>5
<1>4. QED
  BY <1>2, <1>3

LEMMA KeptWriteKey ==
  ASSUME PInv, NEW k \in Keys, WriteKey(k), KeptInv, phase # "down",
         NEW x \in Keys, loss'[x] = {}, loss[x] = {}
  PROVE  Kept(x)'
<1> DEFINE r == [key |-> k, num |-> num + 1, ok |-> TRUE]
<1>0. TypeOK /\ logChan \in Seq(Record) /\ num \in Nat
  BY TypesNeeded DEF PInv, IInv, TypeOK
<1>1. /\ mem' = [mem EXCEPT ![k] = num + 1] /\ num < MaxWrites
      /\ walBuf' = walBuf /\ walFile' = walFile /\ snapFile' = snapFile
      /\ spc' = spc /\ scanned' = scanned /\ tmp' = tmp
  BY DEF WriteKey, snapshot
<1>2. \/ logChan' = Append(logChan, r)
      \/ logChan' = logChan /\ "dropped" \in loss'[k]
  BY <1>0 DEF WriteKey, LogWrite, TypeOK
<1>3. r \in Record
  BY <1>0, <1>1, TypeWrittenRecord
<1>4. Kept(x)
  BY DEF KeptInv
<1>5. /\ OnFile(x)' = OnFile(x) /\ Numbers(walBuf', x) = Numbers(walBuf, x)
      /\ OnTheWay(x)' = OnFile(x)' \cup Numbers(walBuf', x) \cup Numbers(logChan', x)
  BY <1>1 DEF OnFile, Replayed, OnTheWay, Numbers
<1>6. logChan' = Append(logChan, r) =>
        Numbers(logChan', x) = Numbers(logChan, x) \cup {n \in {num + 1} : x = k}
  <2>1. r.num = num + 1 /\ r.ok /\ r.key = k
    OBVIOUS
  <2> HIDE DEF r
  <2>2. QED
    BY <1>0, <1>3, <2>1, NumbersAppended
<1> HIDE DEF r
<1>7. CASE x = k
  <2>1. logChan' = Append(logChan, r) /\ mem'[x] = num + 1
    BY <1>0, <1>1, <1>2, <1>7 DEF TypeOK
  <2>2. mem'[x] \in OnTheWay(x)'
    BY <1>5, <1>6, <1>7, <2>1
  <2>3. QED
    BY <2>2 DEF Kept
<1>8. CASE x # k
  <2>1. OnTheWay(x)' = OnTheWay(x)
    BY <1>2, <1>5, <1>6, <1>8 DEF OnTheWay
  <2>2. mem'[x] = mem[x]
    BY <1>0, <1>1, <1>8 DEF TypeOK
  <2>3. QED
    BY <1>1, <1>4, <2>1, <2>2 DEF Kept
<1>9. QED
  BY <1>7, <1>8

LEMMA KeptReuse ==
  ASSUME PInv, NEW i \in DOMAIN logChan, ReuseValue(i), KeptInv, phase # "down",
         NEW x \in Keys, loss'[x] = {}, loss[x] = {}
  PROVE  Kept(x)'
<1>0. TypeOK /\ logChan \in Seq(Record) /\ logChan[i] \in Record
  BY ElementOfSeq DEF PInv, IInv, TypeOK
<1>1. /\ logChan' = [logChan EXCEPT ![i] = [logChan[i] EXCEPT !.ok = FALSE]]
      /\ loss' = [loss EXCEPT ![logChan[i].key] = @ \cup {"reused"}]
      /\ UNCHANGED <<mem, walBuf, walFile, snapFile, spc, scanned, tmp>>
  BY DEF ReuseValue, memory, snapshot
<1>2. logChan[i].key # x
  BY <1>0, <1>1 DEF TypeOK
<1>3. /\ [logChan[i] EXCEPT !.ok = FALSE].key = logChan[i].key
      /\ DOMAIN logChan' = DOMAIN logChan
      /\ \A j \in DOMAIN logChan : j # i => logChan'[j] = logChan[j]
      /\ logChan'[i] = [logChan[i] EXCEPT !.ok = FALSE]
  BY <1>0, <1>1 DEF Record
<1>4. Numbers(logChan', x) = Numbers(logChan, x)
  <2> DEFINE q == logChan
             r == logChan'
  <2>1. /\ DOMAIN r = DOMAIN q /\ q[i].key # x /\ r[i].key # x
        /\ \A j \in DOMAIN q : j # i => r[j] = q[j]
    BY <1>2, <1>3
  <2> HIDE DEF q, r
  <2>2. \A n : n \in Numbers(r, x) <=> n \in Numbers(q, x)
    BY <2>1, NumbersOf
  <2>3. QED
    BY <2>2 DEF q, r
<1>5. OnTheWay(x)' = OnTheWay(x)
  <2>1. OnFile(x)' = OnFile(x) /\ Numbers(walBuf, x)' = Numbers(walBuf, x)
    BY <1>1 DEF OnFile, Replayed, Numbers
  <2>2. Numbers(logChan, x)' = Numbers(logChan', x)
    BY DEF Numbers
  <2>3. QED
    BY <1>4, <2>1, <2>2 DEF OnTheWay
<1>6. QED
  BY <1>1, <1>5 DEF KeptInv, Kept

(* What a snapshot leaves of a key.                                        *)
LEMMA KeptScan ==
  ASSUME PInv, SnapshotBegin \/ ScanShard \/ SnapshotFail \/ SnapshotEnd \/ Rename,
         NEW x \in Keys, Kept(x)
  PROVE  Kept(x)'
<1>0. TypeOK /\ ShardOf[x] \in 1..ShardCount /\ ShardCount \in Nat
  BY LogAssumption DEF PInv, IInv, Shards
<1>1. /\ mem' = mem
      /\ OnTheWay(x)' = OnTheWay(x)
  <2>1. UNCHANGED <<mem, logChan, walBuf, walFile>>
    BY DEF SnapshotBegin, ScanShard, SnapshotFail, SnapshotEnd, Rename, memory, log
  <2>2. QED
    BY <2>1 DEF OnTheWay, OnFile, Replayed, Numbers
<1>2. CASE SnapshotBegin
  <2>1. snapFile' = snapFile /\ scanned' = 0
    BY <1>2 DEF SnapshotBegin
  <2>2. ~(ShardOf[x] <= scanned')
    BY <1>0, <2>1
  <2>3. QED
    BY <1>1, <2>1, <2>2 DEF Kept
<1>3. CASE ScanShard
  <2>1. /\ snapFile' = snapFile /\ spc' = "scan" /\ spc = "scan"
        /\ scanned' = scanned + 1 /\ scanned \in Nat
        /\ tmp'[x] = IF ShardOf[x] = scanned + 1 THEN mem[x] ELSE tmp[x]
    BY <1>0, <1>3, TypesNeeded DEF ScanShard
  <2>2. ShardOf[x] <= scanned' => ShardOf[x] = scanned + 1 \/ ShardOf[x] <= scanned
    BY <1>0, <2>1
  <2>3. QED
    BY <1>1, <2>1, <2>2 DEF Kept
<1>4. CASE SnapshotFail \/ SnapshotEnd
  <2>1. snapFile'.data = snapFile.data /\ spc' = "idle"
    BY <1>0, <1>4 DEF SnapshotFail, SnapshotEnd, TypeOK
  <2>2. QED
    BY <1>1, <2>1 DEF Kept
<1>5. CASE Rename
  <2>1. snapFile'.data = tmp /\ spc = "scan" /\ spc' = "reset" /\ ShardOf[x] <= scanned
    BY <1>0, <1>5 DEF Rename
  <2>2. QED
    BY <1>1, <2>1 DEF Kept
<1>6. QED
  BY <1>2, <1>3, <1>4, <1>5

(* A number of the file or the buffer is one of both.                      *)
LEMMA InTheLog ==
  ASSUME TypeOK, NEW k \in Keys, NEW n \in OnFile(k) \cup Numbers(walBuf, k)
  PROVE  n \in Numbers(walFile \o walBuf, k)
<1> DEFINE f == walFile \o walBuf
<1>1. /\ f \in Seq(LogRecord) /\ DOMAIN f = 1..Len(f)
      /\ \A i \in 1..Len(walFile) : i \in 1..Len(f) /\ f[i] = walFile[i]
      /\ \A i \in 1..Len(walBuf) : Len(walFile) + i \in 1..Len(f) /\ f[Len(walFile) + i] = walBuf[i]
      /\ DOMAIN walBuf = 1..Len(walBuf)
  <2>1. walFile \in Seq(LogRecord) /\ walBuf \in Seq(LogRecord)
    BY DEF TypeOK, LogRecord
  <2>2. QED
    BY <2>1, Concatenated, LenProperties
<1> HIDE DEF f
<1>2. CASE n \in OnFile(k)
  <2>1. PICK i \in Replayed(k) : n = walFile[i].num
    BY <1>2, OnFileIs
  <2>2. i \in 1..Len(walFile) /\ walFile[i].key = k /\ walFile[i].ok
    BY ReplayedIn
  <2>3. QED
    BY <1>1, <2>1, <2>2, NumbersOf DEF f
<1>3. CASE n \in Numbers(walBuf, k)
  <2>1. PICK i \in DOMAIN walBuf : walBuf[i].ok /\ walBuf[i].key = k /\ n = walBuf[i].num
    BY <1>3, NumbersOf
  <2>2. Len(walFile) + i \in DOMAIN f /\ f[Len(walFile) + i] = walBuf[i]
    BY <1>1
  <2>3. n \in Numbers(f, k)
    BY <2>1, <2>2, NumbersOf
  <2>4. QED
    BY <2>3 DEF f
<1>4. QED
  BY <1>2, <1>3

(* What is still in the channel is newer than the log.                     *)
LEMMA ChannelIsNewer ==
  ASSUME PInv, NEW k \in Keys, NEW n \in Numbers(logChan, k),
         NEW m \in OnFile(k) \cup Numbers(walBuf, k)
  PROVE  m \in Int /\ n \in Int /\ m < n /\ n <= mem[k] /\ mem[k] \in Int
<1>0. TypeOK /\ Before(walFile, logChan) /\ Before(walBuf, logChan)
  BY DEF PInv, IInv, OrderInv
<1>1. PICK j \in 1..Len(logChan) : logChan[j].key = k /\ n = logChan[j].num
  <2>1. PICK j \in DOMAIN logChan : logChan[j].key = k /\ n = logChan[j].num
    BY NumbersOf
  <2>2. QED
    BY <1>0, <2>1, TypesNeeded
<1>2. n \in Int /\ n <= mem[k] /\ mem[k] \in Int
  BY <1>0, <1>1, TypesNeeded DEF PInv, MemInv, LogUpTo
<1>3. CASE m \in OnFile(k)
  <2>1. PICK i \in Replayed(k) : m = walFile[i].num
    BY <1>3, OnFileIs
  <2>2. i \in 1..Len(walFile) /\ walFile[i].key = k /\ walFile[i].num \in Nat
    BY <1>0, ReplayedIn
  <2>3. QED
    BY <1>0, <1>1, <1>2, <2>1, <2>2 DEF Before
<1>4. CASE m \in Numbers(walBuf, k)
  <2>1. PICK i \in 1..Len(walBuf) : walBuf[i].key = k /\ m = walBuf[i].num
    BY <1>0, <1>4, TypesNeeded, NumbersOf
  <2>2. QED
    BY <1>0, <1>1, <1>2, <2>1, TypesNeeded DEF Before
<1>5. QED
  BY <1>3, <1>4

LEMMA KeptReset ==
  ASSUME PInv, ResetWAL, NEW x \in Keys, Kept(x), loss'[x] = {}
  PROVE  Kept(x)'
<1>0. TypeOK
  BY DEF PInv, IInv
<1>1. /\ mem' = mem /\ logChan' = logChan /\ walBuf' = <<>> /\ walFile' = <<>>
      /\ snapFile' = snapFile /\ spc = "reset" /\ spc' = "end"
      /\ ~\E n \in Numbers(walFile \o walBuf, x) : n > snapFile.data[x]
  BY DEF ResetWAL, memory
<1>2. OnTheWay(x)' = Numbers(logChan, x)
  <2>1. OnFile(x)' = {}
    BY <1>1 DEF OnFile, Replayed
  <2>2. Numbers(walBuf, x)' = {}
    BY <1>1 DEF Numbers
  <2>3. Numbers(logChan, x)' = Numbers(logChan, x)
    BY <1>1 DEF Numbers
  <2>4. QED
    BY <2>1, <2>2, <2>3 DEF OnTheWay
<1>3. CASE OnTheWay(x) = {}
  BY <1>1, <1>2, <1>3 DEF Kept, OnTheWay
<1>4. CASE mem[x] \in Numbers(logChan, x)
  BY <1>1, <1>2, <1>4 DEF Kept
<1>5. CASE mem[x] \in OnFile(x) \cup Numbers(walBuf, x)
  <2>1. Numbers(logChan, x) = {}
    BY <1>5, ChannelIsNewer
  <2>2. mem[x] \in Numbers(walFile \o walBuf, x)
    BY <1>0, <1>5, InTheLog
  <2>3. mem[x] \in Nat /\ snapFile.data[x] \in Nat /\ snapFile.data[x] <= mem[x]
    BY <1>0, <1>1, TypesNeeded DEF PInv, DiskInv
  <2>4. snapFile.data[x] = mem[x]
    BY <1>1, <2>2, <2>3
  <2>5. QED
    BY <1>1, <1>2, <2>1, <2>4 DEF Kept
<1>6. QED
  BY <1>3, <1>4, <1>5 DEF Kept, OnTheWay

(* A start begins with what it loaded.                                     *)
LEMMA KeptOpen ==
  ASSUME PInv, Open, NEW x \in Keys
  PROVE  Kept(x)'
<1>0. TypeOK /\ DiskFacts
  BY DiskTop DEF PInv, IInv
<1>1. /\ mem' = Disk /\ walFile' = walFile /\ snapFile' = snapFile
      /\ spc' = "idle" /\ logChan' = <<>> /\ walBuf' = <<>>
  BY DEF PInv, LifeInv, Open, log, snapshot
<1>2. OnTheWay(x)' = OnFile(x)
  <2>1. OnFile(x)' = OnFile(x)
    BY <1>1 DEF OnFile, Replayed
  <2>2. Numbers(walBuf, x)' = {} /\ Numbers(logChan, x)' = {}
    BY <1>1 DEF Numbers
  <2>3. QED
    BY <2>1, <2>2 DEF OnTheWay
<1>3. OnFile(x) = {} => Disk[x] = snapFile.data[x]
  BY <1>0 DEF DiskFacts, OnFile
<1>4. OnFile(x) # {} => Disk[x] \in OnFile(x)
  BY <1>0 DEF DiskFacts, OnFile
<1>5. QED
  BY <1>1, <1>2, <1>3, <1>4 DEF Kept

LEMMA KeptStep == PInv /\ KeptInv /\ [Next]_vars => KeptInv'
<1> SUFFICES ASSUME PInv, KeptInv, [Next]_vars, phase' # "down",
                    NEW x \in Keys, loss'[x] = {}
             PROVE  Kept(x)'
  BY DEF KeptInv
<1>0. TypeOK /\ IInv
  BY DEF PInv, IInv
<1>1. CASE Open
  BY <1>1, KeptOpen
<1>2. CASE phase = "down" /\ ~Open
  <2>1. UNCHANGED vars
    BY <1>0, <1>2, EmptyOrdered, TypesNeeded DEF PInv, LifeInv, NoCalls, Next, Begin, Set, Delete,
       DeleteMissing, Expire, ReuseValue, Encode, EncodeOverflow, Tick, WriterEnd, CleanerEnd,
       Close, CloseReturn, SnapshotBegin, ScanShard, SnapshotFail, Rename, ResetWAL, SnapshotEnd,
       Exit, Crash
  <2>2. QED
    BY <1>2, <2>1 DEF vars, life
<1>3. CASE phase # "down" /\ ~Open
  <2>0. loss[x] = {} /\ Kept(x)
    <3>1. loss[x] = {}
      BY <1>0, <1>3, LossGrows
    <3>2. QED
      BY <1>3, <3>1 DEF KeptInv
  <2>1. ASSUME NEW c \in Clients, Set(c) \/ Delete(c) PROVE Kept(x)'
    <3>1. calls[c].key \in Keys /\ WriteKey(calls[c].key)
      BY <1>0, <2>1 DEF Set, Delete, Call, TypeOK
    <3>2. QED
      BY <1>3, <2>0, <3>1, KeptWriteKey
  <2>2. ASSUME NEW k \in Keys, Expire(k) PROVE Kept(x)'
    BY <1>3, <2>0, <2>2, KeptWriteKey DEF Expire
  <2>3. ASSUME NEW i \in DOMAIN logChan, ReuseValue(i) PROVE Kept(x)'
    BY <1>3, <2>0, <2>3, KeptReuse
  <2>4. CASE Encode \/ EncodeOverflow \/ Tick \/ WriterEnd \/ CloseReturn
    <3>1. OnTheWay(x)' = OnTheWay(x)
      BY <1>0, <2>4, MovesKeep
    <3>2. UNCHANGED <<mem, snapFile, spc, scanned, tmp>>
      BY <2>4 DEF Encode, EncodeOverflow, Tick, WriterEnd, CloseReturn, memory, snapshot
    <3>3. QED
      BY <2>0, <3>1, <3>2 DEF Kept
  <2>5. CASE SnapshotBegin \/ ScanShard \/ SnapshotFail \/ SnapshotEnd \/ Rename
    BY <2>0, <2>5, KeptScan
  <2>6. CASE ResetWAL
    BY <2>0, <2>6, KeptReset
  <2>7. CASE \/ \E c \in Clients : \E call \in Call : Begin(c, call)
             \/ \E c \in Clients : DeleteMissing(c)
             \/ CleanerEnd \/ Close \/ UNCHANGED vars
    <3>1. UNCHANGED <<mem, logChan, walBuf, walFile, snapFile, spc, scanned, tmp>>
      BY <2>7 DEF Begin, DeleteMissing, CleanerEnd, Close, vars, memory, log, snapshot
    <3>2. OnTheWay(x)' = OnTheWay(x)
      BY <3>1 DEF OnTheWay, OnFile, Replayed, Numbers
    <3>3. QED
      BY <2>0, <3>1, <3>2 DEF Kept
  <2>8. ~Exit /\ ~Crash
    BY DEF Exit, Crash, ProcessGone
  <2>9. QED
    BY <1>3, <2>1, <2>2, <2>3, <2>4, <2>5, <2>6, <2>7, <2>8 DEF Next
<1>4. QED
  BY <1>1, <1>2, <1>3

LEMMA CloseStep == PInv /\ CloseInv /\ [Next]_vars => CloseInv'
<1> SUFFICES ASSUME PInv, CloseInv, [Next]_vars PROVE CloseInv'
  OBVIOUS
<1>0. TypeOK /\ logChan \in Seq(Record)
  BY DEF PInv, IInv, TypeOK
<1>1. ASSUME NEW k \in Keys, WriteKey(k) PROVE CloseInv'
  <2> DEFINE r == [key |-> k, num |-> num + 1, ok |-> TRUE]
  <2>1. /\ UNCHANGED <<walBuf, snapFile, spc, phase, workers>>
        /\ num \in Nat /\ num < MaxWrites
    BY <1>0, <1>1, TypesNeeded DEF WriteKey, snapshot, life
  <2>2. ASSUME "writer" \notin workers, phase # "down", NEW i \in DOMAIN logChan'
        PROVE  "late" \in loss'[logChan'[i].key]
    <3>1. \A j \in DOMAIN logChan : /\ "late" \in loss[logChan[j].key]
                                    /\ logChan[j].key \in Keys
      BY <1>0, <2>2, TypesNeeded DEF CloseInv
    <3>2. \A x \in Keys : loss[x] \subseteq loss'[x]
      BY <1>0, <1>1, WriteAddsCause
    <3>3. CASE logChan' = logChan
      BY <2>2, <3>1, <3>2, <3>3
    <3>4. CASE logChan' = Append(logChan, r) /\ "late" \in loss'[k]
      <4>1. r \in Record /\ r.key = k
        BY <2>1, TypeWrittenRecord
      <4> HIDE DEF r
      <4>2. (i \in DOMAIN logChan /\ logChan'[i] = logChan[i]) \/ logChan'[i] = r
        <5>1. /\ DOMAIN logChan = 1..Len(logChan) /\ DOMAIN logChan' = 1..(Len(logChan) + 1)
              /\ Len(logChan) \in Nat
          BY <1>0, <3>4, <4>1, AppendProperties, LenProperties
        <5>2. /\ \A j \in 1..Len(logChan) : logChan'[j] = logChan[j]
              /\ logChan'[Len(logChan) + 1] = r
          BY <1>0, <3>4, <4>1, Appended
        <5>3. QED
          BY <2>2, <5>1, <5>2
      <4>3. QED
        BY <3>1, <3>2, <3>4, <4>1, <4>2
    <3>5. QED
      BY <1>0, <1>1, <2>2, <3>3, <3>4 DEF WriteKey, LogWrite, TypeOK
  <2>3. QED
    BY <2>1, <2>2 DEF CloseInv
<1>2. ASSUME NEW c \in Clients, Set(c) \/ Delete(c) PROVE CloseInv'
  <2>1. calls[c].key \in Keys /\ WriteKey(calls[c].key)
    BY <1>0, <1>2 DEF Set, Delete, Call, TypeOK
  <2>2. QED
    BY <1>1, <2>1
<1>3. ASSUME NEW k \in Keys, Expire(k) PROVE CloseInv'
  BY <1>1, <1>3 DEF Expire
<1>4. ASSUME NEW i \in DOMAIN logChan, ReuseValue(i) PROVE CloseInv'
  <2>1. UNCHANGED <<walBuf, snapFile, spc, phase, workers>>
    BY <1>4 DEF ReuseValue, snapshot, life
  <2>2. \A j \in DOMAIN logChan : logChan[j] \in Record
    BY <1>0, ElementOfSeq, LenProperties
  <2>3. /\ DOMAIN logChan' = DOMAIN logChan
        /\ \A j \in DOMAIN logChan : logChan'[j].key = logChan[j].key
    BY <1>4, <2>2 DEF ReuseValue, Record
  <2>4. \A x \in Keys : loss[x] \subseteq loss'[x]
    BY <1>0, <1>4 DEF ReuseValue, TypeOK
  <2>5. \A j \in DOMAIN logChan : logChan[j].key \in Keys
    BY <2>2 DEF Record
  <2>6. QED
    BY <2>1, <2>3, <2>4, <2>5 DEF CloseInv
<1>5. CASE Encode \/ EncodeOverflow \/ Tick
  BY <1>5 DEF Encode, EncodeOverflow, Tick, snapshot, life, CloseInv
<1>6. CASE WriterEnd
  <2>1. /\ walBuf' = <<>> /\ logChan' = <<>> /\ phase' = "closing"
        /\ UNCHANGED <<snapFile, spc>> /\ phase = "closing"
    BY <1>6 DEF WriterEnd, FlushWAL, snapshot
  <2>2. DOMAIN logChan' = {}
    BY <2>1
  <2>3. QED
    BY <2>1, <2>2 DEF CloseInv
<1>7. CASE CloseReturn
  <2>1. /\ walBuf' = <<>> /\ logChan' = logChan /\ phase' = "closed" /\ phase = "closing"
        /\ workers = {} /\ workers' = workers
        /\ UNCHANGED <<snapFile, spc>>
    BY <1>7 DEF CloseReturn, FlushWAL, snapshot
  <2>2. \A x \in Keys : loss[x] \subseteq loss'[x]
    BY <1>0, <1>7, LossGrows DEF Open, CloseReturn
  <2>3. \A i \in DOMAIN logChan : logChan[i].key \in Keys
    BY <1>0, TypesNeeded
  <2>4. QED
    BY <2>1, <2>2, <2>3 DEF CloseInv
<1>8. CASE SnapshotBegin \/ ScanShard \/ SnapshotFail \/ Rename \/ SnapshotEnd
  <2>1. /\ UNCHANGED <<logChan, walBuf, loss, phase, workers>>
        /\ snapFile'.state = "part" /\ phase # "down" => spc' \in {"reset", "end"}
    BY <1>0, <1>8 DEF SnapshotBegin, ScanShard, SnapshotFail, Rename, SnapshotEnd, log, life,
       history, CloseInv, TypeOK
  <2>2. QED
    BY <2>1 DEF CloseInv
<1>9. CASE ResetWAL
  <2>1. /\ UNCHANGED <<logChan, phase, workers, snapFile>> /\ walBuf' = <<>> /\ spc' = "end"
        /\ \A x \in Keys : loss[x] \subseteq loss'[x]
    BY <1>9 DEF ResetWAL, life
  <2>2. \A i \in DOMAIN logChan : logChan[i].key \in Keys
    BY <1>0, TypesNeeded
  <2>3. QED
    BY <2>1, <2>2 DEF CloseInv
<1>10. CASE Exit \/ Crash
  BY <1>10 DEF Exit, Crash, ProcessGone, CloseInv
<1>11. CASE Open
  BY <1>11 DEF Open, snapshot, CloseInv
<1>12. CASE \/ \E c \in Clients : \E call \in Call : Begin(c, call)
            \/ \E c \in Clients : DeleteMissing(c)
            \/ CleanerEnd \/ Close \/ UNCHANGED vars
  <2>1. /\ UNCHANGED <<logChan, walBuf, loss, snapFile, spc>>
        /\ phase' = phase \/ (phase = "open" /\ phase' = "closing")
        /\ "writer" \in workers <=> "writer" \in workers'
    BY <1>12 DEF Begin, DeleteMissing, CleanerEnd, Close, vars, log, snapshot, life, history
  <2>2. QED
    BY <2>1 DEF CloseInv
<1>13. QED
  BY <1>2, <1>3, <1>4, <1>5, <1>6, <1>7, <1>8, <1>9, <1>10, <1>11, <1>12 DEF Next

LEMMA KeptInit == Init => KeptInv /\ CloseInv
<1> SUFFICES ASSUME Init PROVE KeptInv /\ CloseInv
  OBVIOUS
<1>1. CloseInv
  BY DEF Init, CloseInv
<1>2. ASSUME NEW k \in Keys PROVE Kept(k)
  <2>1. OnTheWay(k) = {}
    BY NumbersOfNone DEF Init, OnTheWay, OnFile, Replayed
  <2>2. QED
    BY <2>1 DEF Init, NoWrites, Kept
<1>3. QED
  BY <1>1, <1>2 DEF KeptInv

LEMMA KeptIsClean == PInv /\ KeptInv /\ CloseInv => CleanRestart
<1> SUFFICES ASSUME PInv, KeptInv, CloseInv, phase = "closed", spc = "idle"
             PROVE  /\ snapFile.state # "part"
                    /\ \A k \in Keys : loss[k] = {} => Visible(Disk[k]) = Visible(mem[k])
  BY DEF CleanRestart
<1>0. TypeOK /\ DiskFacts
  BY DiskTop DEF PInv, IInv
<1>1. /\ snapFile.state # "part" /\ walBuf = <<>>
      /\ \A i \in DOMAIN logChan : "late" \in loss[logChan[i].key]
  BY DEF CloseInv
<1>2. ASSUME NEW k \in Keys, loss[k] = {} PROVE Disk[k] = mem[k]
  <2>1. Kept(k)
    BY <1>2 DEF KeptInv
  <2>2. Numbers(logChan, k) = {}
    <3>1. \A n : n \notin Numbers(logChan, k)
      BY <1>1, <1>2, NumbersOf
    <3>2. QED
      BY <3>1
  <2>3. OnTheWay(k) = OnFile(k)
    BY <1>1, <2>2, NumbersOfNone DEF OnTheWay
  <2>4. CASE Replayed(k) = {}
    <3>1. OnFile(k) = {}
      BY <2>4 DEF OnFile
    <3>2. QED
      BY <1>0, <2>1, <2>3, <2>4, <3>1 DEF Kept, DiskFacts
  <2>5. CASE Replayed(k) # {}
    <3>1. PICK i \in Replayed(k) : walFile[i].num = mem[k]
      BY <2>1, <2>3, <2>5 DEF Kept, OnFile
    <3>2. PICK j \in Replayed(k) : Disk[k] = walFile[j].num
      BY <1>0, <2>5 DEF DiskFacts
    <3>3. mem[k] <= Disk[k] /\ Disk[k] <= mem[k] /\ Disk[k] \in Nat /\ mem[k] \in Nat
      BY <1>0, <3>1, <3>2, TypesNeeded DEF DiskFacts, PInv, DiskInv
    <3>4. QED
      BY <3>3
  <2>6. QED
    BY <2>4, <2>5
<1>3. QED
  BY <1>1, <1>2 DEF Visible

(* A store that was closed in order reloads every key that no cause has    *)
(* met.                                                                    *)
THEOREM RestartIsClean == Spec => []CleanRestart
<1> DEFINE Inv == PInv /\ KeptInv /\ CloseInv
<1>1. Init => Inv
  BY TypeInit, OrderInit, PromiseInit, KeptInit DEF PInv, IInv
<1>2. Inv /\ [Next]_vars => Inv'
  <2>1. PInv /\ [Next]_vars => IInv'
    BY TypeStep, OrderStep DEF PInv, IInv
  <2>2. PInv /\ [Next]_vars => PInv'
    BY <2>1, LifeStep, PromiseStep DEF PInv
  <2>3. QED
    BY <2>2, KeptStep, CloseStep
<1>3. Inv => CleanRestart
  BY KeptIsClean
<1>4. QED
  BY <1>1, <1>2, <1>3, PTL DEF Spec

=============================================================================
