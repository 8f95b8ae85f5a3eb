------------------------------- MODULE KVLog -------------------------------
(***************************************************************************)
(* How the key-value store (pkg/store/kv) gets to disk and back: Set and   *)
(* Delete leave a record in a channel, a goroutine encodes the records     *)
(* into a buffer and flushes it to the log file, a snapshot of the shards  *)
(* replaces the log, and a start loads the snapshot and replays the log.   *)
(*                                                                         *)
(* Writes are numbered.  A record is a key and the number of its write; a  *)
(* key shows the last write of it that memory holds, and nothing when that *)
(* write is a delete.  What a call does under its shard's lock is one      *)
(* step; the test of the closed flag before it is another.  A crash is the *)
(* end of the process: the channel and the buffer are gone and the files   *)
(* stay as they were written.                                              *)
(***************************************************************************)
EXTENDS FiniteSetsExt, Integers, Sequences

CONSTANTS
    Keys,
    ShardCount,
    ShardOf,            \* getShard
    Clients,            \* goroutines that call Set and Delete
    ChanCap,            \* of logChan (1000 in the code)
    MaxWrites, MaxSnapshots, MaxCrashes,    \* bounds of the model
    Compressed,         \* EnableCompression
    NoKey, NoCall

Shards == 1..ShardCount

ASSUME LogAssumption ==
    /\ ShardCount \in Nat \ {0}
    /\ ShardOf \in [Keys -> Shards]
    /\ ChanCap \in Nat \ {0}
    /\ MaxWrites \in Nat /\ MaxSnapshots \in Nat /\ MaxCrashes \in Nat
    /\ Compressed \in BOOLEAN
    /\ NoKey \notin Keys
    /\ NoCall \notin [op : {"set", "delete"}, key : Keys]

Call == [op : {"set", "delete"}, key : Keys]

(* A record is ok when its checksum matches its content. *)
Record == [key : Keys, num : 1..MaxWrites, ok : BOOLEAN]

(* The first bytes of a record whose rest was never written. *)
Torn == [key |-> NoKey, num |-> 0, ok |-> FALSE]

Causes == {"dropped", "late", "reused", "reset", "stale", "torn"}

VARIABLES
    mem,                \* the shards: the last write of each key
    num, dels,          \* history: the writes so far, and which are deletes
    calls,              \* Set and Delete, past their test of the closed flag
    logChan,            \* records on their way to the writer
    walBuf, half,       \* walWriter's buffer; part of its first record is written
    walFile,            \* store.wal
    snapFile,           \* snapshot.json: what it holds, and if it is whole
    spc, scanned, tmp, shots,   \* Snapshot
    phase, workers,     \* the store's life and its goroutines
    crashes,
    loss,               \* history: why a key's last write may be missing on disk
    synced              \* history: the last write of each key flushed to disk

memory == <<mem, num, dels>>
log == <<logChan, walBuf, half, walFile>>
snapshot == <<snapFile, spc, scanned, tmp, shots>>
life == <<phase, workers, crashes>>
history == <<loss, synced>>
vars == <<memory, calls, log, snapshot, life, history>>

NoWrites == [k \in Keys |-> 0]
NoCalls == [c \in Clients |-> NoCall]
NoLoss == [k \in Keys |-> {}]

Init ==
    /\ mem = NoWrites /\ num = 0 /\ dels = {}
    /\ calls = NoCalls
    /\ logChan = <<>> /\ walBuf = <<>> /\ half = FALSE /\ walFile = <<>>
    /\ snapFile = [state |-> "none", data |-> NoWrites]
    /\ spc = "idle" /\ scanned = 0 /\ tmp = NoWrites /\ shots = 0
    /\ phase = "open" /\ workers = {"writer", "cleaner"} /\ crashes = 0
    /\ loss = NoLoss /\ synced = NoWrites

(* The value a write leaves: 0 for none. *)
Visible(n) == IF n \in dels THEN 0 ELSE n

Stored(k) == Visible(mem[k]) # 0

-----------------------------------------------------------------------------
(* Set, Delete and the removals of the store's own.                        *)

Begin(c, call) ==
    /\ phase = "open" /\ calls[c] = NoCall
    /\ num < MaxWrites
    /\ calls' = [calls EXCEPT ![c] = call]
    /\ UNCHANGED <<memory, log, snapshot, life, history>>

(* Mutant: the channel has no limit. *)
LogWrite_NoLimit(k) ==
    /\ logChan' = Append(logChan, [key |-> k, num |-> num + 1, ok |-> TRUE])
    /\ loss' = loss

(* logSet and logDelete: a full channel drops the record, and a record     *)
(* that comes after the writer's last look stays in the channel.           *)
LogWrite(k) ==
    IF Len(logChan) < ChanCap
    THEN /\ logChan' = Append(logChan, [key |-> k, num |-> num + 1, ok |-> TRUE])
         /\ loss' = IF "writer" \in workers THEN loss
                    ELSE [loss EXCEPT ![k] = @ \cup {"late"}]
    ELSE /\ logChan' = logChan
         /\ loss' = [loss EXCEPT ![k] = @ \cup {"dropped"}]

WriteKey(k) ==
    /\ num < MaxWrites
    /\ num' = num + 1
    /\ mem' = [mem EXCEPT ![k] = num + 1]
    /\ LogWrite(k)
    /\ UNCHANGED <<walBuf, half, walFile, snapshot, life, synced>>

Set(c) ==
    /\ calls[c] # NoCall /\ calls[c].op = "set"
    /\ calls' = [calls EXCEPT ![c] = NoCall]
    /\ WriteKey(calls[c].key)
    /\ UNCHANGED dels

Delete(c) ==
    /\ calls[c] # NoCall /\ calls[c].op = "delete" /\ Stored(calls[c].key)
    /\ calls' = [calls EXCEPT ![c] = NoCall]
    /\ dels' = dels \cup {num + 1}
    /\ WriteKey(calls[c].key)

DeleteMissing(c) ==
    /\ calls[c] # NoCall /\ calls[c].op = "delete" /\ ~Stored(calls[c].key)
    /\ calls' = [calls EXCEPT ![c] = NoCall]
    /\ UNCHANGED <<memory, log, snapshot, life, history>>

(* The cleaner removes an expired entry, with the record of a delete. *)
Expire(k) ==
    /\ phase \in {"open", "closing"} /\ "cleaner" \in workers
    /\ Stored(k)
    /\ dels' = dels \cup {num + 1}
    /\ WriteKey(k)
    /\ UNCHANGED calls

(* A record shares the caller's slice: when the caller fills it again      *)
(* before the writer has encoded the record, the checksum does not match.  *)
ReuseValue(i) ==
    /\ logChan[i].ok /\ logChan[i].num \notin dels
    /\ logChan' = [logChan EXCEPT ![i].ok = FALSE]
    /\ loss' = [loss EXCEPT ![logChan[i].key] = @ \cup {"reused"}]
    /\ UNCHANGED <<memory, calls, walBuf, half, walFile, snapshot, life, synced>>

-----------------------------------------------------------------------------
(* The writer's goroutine.                                                 *)

Numbers(s, k) == {s[i].num : i \in {j \in DOMAIN s : s[j].ok /\ s[j].key = k}}

(* A torn record hides what is appended after it, and a record that was    *)
(* still on its way when a snapshot was taken comes after it.              *)
BufferToFile ==
    /\ walFile' = walFile \o walBuf
    /\ synced' = [k \in Keys |->
                    IF \E i \in DOMAIN walFile : walFile[i] = Torn THEN synced[k]
                    ELSE Max({synced[k]} \cup Numbers(walBuf, k))]
    /\ loss' = [k \in Keys |->
                  loss[k] \cup
                  (IF \E i \in DOMAIN walFile : walFile[i] = Torn THEN {"torn"} ELSE {}) \cup
                  (IF \E n \in Numbers(walBuf, k) : n < synced[k] THEN {"stale"} ELSE {})]

Encode ==
    /\ "writer" \in workers /\ logChan # <<>>
    /\ logChan' = Tail(logChan)
    /\ walBuf' = Append(walBuf, Head(logChan))
    /\ UNCHANGED <<memory, calls, half, walFile, snapshot, life, history>>

(* A record that does not fit makes the buffer write itself out, with the  *)
(* first part of that record.                                              *)
EncodeOverflow ==
    /\ "writer" \in workers /\ logChan # <<>> /\ walBuf # <<>>
    /\ logChan' = Tail(logChan)
    /\ BufferToFile
    /\ walBuf' = <<Head(logChan)>>
    /\ half' = TRUE
    /\ UNCHANGED <<memory, calls, snapshot, life>>

FlushWAL ==
    /\ BufferToFile
    /\ walBuf' = <<>>
    /\ half' = FALSE

Tick ==
    /\ "writer" \in workers /\ walBuf # <<>>
    /\ FlushWAL
    /\ UNCHANGED <<memory, calls, logChan, snapshot, life>>

(* Mutant: the writer ends without draining the channel. *)
WriterEnd_NoDrain ==
    /\ phase = "closing" /\ "writer" \in workers
    /\ FlushWAL
    /\ workers' = workers \ {"writer"}
    /\ UNCHANGED <<memory, calls, logChan, snapshot, phase, crashes>>

(* Cancelled, the writer ends when it finds the channel empty. *)
WriterEnd ==
    /\ phase = "closing" /\ "writer" \in workers
    /\ logChan = <<>>
    /\ FlushWAL
    /\ workers' = workers \ {"writer"}
    /\ UNCHANGED <<memory, calls, logChan, snapshot, phase, crashes>>

CleanerEnd ==
    /\ phase = "closing"
    /\ workers' = workers \ {"cleaner"}
    /\ "cleaner" \in workers
    /\ UNCHANGED <<memory, calls, log, snapshot, phase, crashes, history>>

(* Close gives up after CloseTimeout; that changes nothing else. *)
Close ==
    /\ phase = "open"
    /\ phase' = "closing"
    /\ UNCHANGED <<memory, calls, log, snapshot, workers, crashes, history>>

(* Mutant: Close waits until the channel is empty. *)
CloseReturn_Empty ==
    /\ phase = "closing" /\ workers = {} /\ logChan = <<>>
    /\ FlushWAL
    /\ phase' = "closed"
    /\ UNCHANGED <<memory, calls, logChan, snapshot, workers, crashes>>

CloseReturn ==
    /\ phase = "closing" /\ workers = {}
    /\ FlushWAL
    /\ phase' = "closed"
    /\ UNCHANGED <<memory, calls, logChan, snapshot, workers, crashes>>

-----------------------------------------------------------------------------
(* Snapshot.                                                               *)

SnapshotBegin ==
    /\ phase = "open" /\ spc = "idle" /\ shots < MaxSnapshots
    /\ spc' = "scan" /\ scanned' = 0 /\ tmp' = NoWrites
    /\ shots' = shots + 1
    /\ UNCHANGED <<memory, calls, log, snapFile, life, history>>

(* One shard after the other, each under its own lock. *)
ScanShard ==
    /\ spc = "scan" /\ scanned < ShardCount
    /\ scanned' = scanned + 1
    /\ tmp' = [k \in Keys |-> IF ShardOf[k] = scanned + 1 THEN mem[k] ELSE tmp[k]]
    /\ UNCHANGED <<memory, calls, log, snapFile, spc, shots, life, history>>

(* The file cannot be made, written or renamed. *)
SnapshotFail ==
    /\ spc = "scan"
    /\ spc' = "idle"
    /\ UNCHANGED <<memory, calls, log, snapFile, scanned, tmp, shots, life, history>>

(* What a compressed file lacks is written by the deferred Close. *)
Rename ==
    /\ spc = "scan" /\ scanned = ShardCount
    /\ snapFile' = [state |-> IF Compressed THEN "part" ELSE "whole", data |-> tmp]
    /\ spc' = "reset"
    /\ UNCHANGED <<memory, calls, log, scanned, tmp, shots, life, history>>

(* The buffer goes with the file; records of writes after the scan are in  *)
(* neither the snapshot nor the new log.                                   *)
ResetWAL ==
    /\ spc = "reset"
    /\ walFile' = <<>> /\ walBuf' = <<>> /\ half' = FALSE
    /\ loss' = [k \in Keys |->
                  IF \E n \in Numbers(walFile \o walBuf, k) : n > snapFile.data[k]
                  THEN loss[k] \cup {"reset"} ELSE loss[k]]
    /\ synced' = [k \in Keys |-> Max({synced[k], snapFile.data[k]})]
    /\ spc' = "end"
    /\ UNCHANGED <<memory, calls, logChan, snapFile, scanned, tmp, shots, life>>

SnapshotEnd ==
    /\ spc = "end"
    /\ snapFile' = [snapFile EXCEPT !.state = "whole"]
    /\ spc' = "idle"
    /\ UNCHANGED <<memory, calls, log, scanned, tmp, shots, life, history>>

-----------------------------------------------------------------------------
(* The end of the process, and the next start.                             *)

ProcessGone ==
    /\ phase' = "down" /\ workers' = {}
    /\ calls' = NoCalls
    /\ logChan' = <<>> /\ walBuf' = <<>> /\ half' = FALSE
    /\ spc' = "idle"
    /\ UNCHANGED <<memory, snapFile, scanned, tmp, shots, history>>

Exit ==
    /\ phase = "closed" /\ spc = "idle"
    /\ ProcessGone
    /\ UNCHANGED <<walFile, crashes>>

Crash ==
    /\ phase # "down" /\ crashes < MaxCrashes
    /\ crashes' = crashes + 1
    /\ walFile' \in {walFile} \cup (IF half THEN {Append(walFile, Torn)} ELSE {})
    /\ ProcessGone

(* Replay stops at a torn record and skips one whose checksum is wrong. *)
Replayed(k) ==
    {i \in DOMAIN walFile : /\ walFile[i].ok /\ walFile[i].key = k
                            /\ \A j \in 1..i : walFile[j] # Torn}

(* Mutant: a snapshot is only loaded when there is no log. *)
Disk_LogOnly ==
    [k \in Keys |-> IF Replayed(k) # {} THEN walFile[Max(Replayed(k))].num
                    ELSE IF walFile # <<>> THEN 0 ELSE snapFile.data[k]]

(* What loadData makes of the files: the last record of a key wins, and    *)
(* the snapshot counts where there is none.                                *)
Disk ==
    [k \in Keys |-> IF Replayed(k) = {} THEN snapFile.data[k]
                    ELSE walFile[Max(Replayed(k))].num]

(* A snapshot that is not whole cannot be decoded: the store is not opened. *)
Open ==
    /\ phase = "down" /\ snapFile.state # "part"
    /\ mem' = Disk /\ synced' = Disk
    /\ loss' = NoLoss
    /\ phase' = "open" /\ workers' = {"writer", "cleaner"}
    /\ UNCHANGED <<num, dels, calls, log, snapshot, crashes>>

Next ==
    \/ \E c \in Clients : \E call \in Call : Begin(c, call)
    \/ \E c \in Clients : Set(c) \/ Delete(c) \/ DeleteMissing(c)
    \/ \E k \in Keys : Expire(k)
    \/ \E i \in DOMAIN logChan : ReuseValue(i)
    \/ Encode \/ EncodeOverflow \/ Tick \/ WriterEnd \/ CleanerEnd
    \/ Close \/ CloseReturn
    \/ SnapshotBegin \/ ScanShard \/ SnapshotFail
    \/ Rename \/ ResetWAL \/ SnapshotEnd
    \/ Exit \/ Crash \/ Open

Spec == Init /\ [][Next]_vars

(* The goroutines of a store run as long as the process does. *)
Fairness ==
    /\ WF_vars(Encode \/ EncodeOverflow) /\ WF_vars(WriterEnd) /\ WF_vars(CleanerEnd)
    /\ WF_vars(CloseReturn)

FairSpec == Spec /\ Fairness

-----------------------------------------------------------------------------
(* Types. *)
TypeOK ==
    /\ mem \in [Keys -> 0..MaxWrites] /\ num \in 0..MaxWrites /\ dels \subseteq 1..MaxWrites
    /\ calls \in [Clients -> Call \cup {NoCall}]
    /\ logChan \in Seq(Record) /\ Len(logChan) <= ChanCap
    /\ walBuf \in Seq(Record) /\ half \in BOOLEAN
    /\ walFile \in Seq(Record \cup {Torn})
    /\ snapFile \in [state : {"none", "part", "whole"}, data : [Keys -> 0..MaxWrites]]
    /\ spc \in {"idle", "scan", "reset", "end"}
    /\ scanned \in 0..ShardCount /\ shots \in 0..MaxSnapshots
    /\ tmp \in [Keys -> 0..MaxWrites]
    /\ phase \in {"open", "closing", "closed", "down"}
    /\ workers \subseteq {"writer", "cleaner"}
    /\ crashes \in 0..MaxCrashes
    /\ loss \in [Keys -> SUBSET Causes]
    /\ synced \in [Keys -> 0..MaxWrites]

(* A store that was closed in order reloads what it showed, every key of   *)
(* it, but for the keys one of the causes has met: a record dropped by a   *)
(* full channel or logged when the writer had ended, a slice that was used *)
(* again too early, a record a snapshot's reset of the log threw away or   *)
(* overtook, and the log after a torn record.                              *)
CleanRestart ==
    phase = "closed" /\ spc = "idle" =>
        /\ snapFile.state # "part"
        /\ \A k \in Keys : loss[k] = {} => Visible(Disk[k]) = Visible(mem[k])

(* The records of a key are in the order of its writes, from the file over *)
(* the buffer to the channel: replaying them ends with the newest.         *)
LogInOrder ==
    LET all == walFile \o walBuf \o logChan IN
    \A i, j \in DOMAIN all :
        i < j /\ all[i].key = all[j].key /\ all[i].key \in Keys => all[i].num < all[j].num

(* Over crashes and restarts the store keeps the promise of KVPromise: no  *)
(* flushed write is lost or replaced by an older one unless a snapshot     *)
(* exposed its key.                                                        *)
Promise == INSTANCE KVPromise WITH
    latest <- num, shown <- mem, sure <- synced, snapshots <- shots,
    exposed <- {k \in Keys : loss[k] \cap {"reset", "stale"} # {}}

KeepsPromise == Promise!Spec

(* Close returns, whatever calls, records and snapshots it meets. *)
CloseReturns == phase = "closing" ~> phase # "closing"
=============================================================================
