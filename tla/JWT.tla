-------------------------------- MODULE JWT --------------------------------
(***************************************************************************)
(* The token manager of pkg/security over the key-value store: signing     *)
(* keys and their rotation, tokens, their verification and revocation, and *)
(* the version of a subject that ends its older tokens.                    *)
(*                                                                         *)
(* A call that holds the manager's mutex from end to end is one step taken *)
(* when the mutex is free.  RotateKey is two, because the process can end  *)
(* between its two writes to the store, and a verification reads the key   *)
(* and the clock, the blacklist and the version in three.                  *)
(*                                                                         *)
(* Of the store only what the manager meets is here: writes reach the disk *)
(* in their order, so a crash keeps a prefix of them; a full log channel   *)
(* drops the record of one; an eviction removes an entry; a closed store   *)
(* answers every call with an error.  Time passes in ticks, and a token's  *)
(* claims carry whole seconds.                                             *)
(***************************************************************************)
EXTENDS FiniteSetsExt, Integers, Sequences

CONSTANTS
    Verifiers,          \* goroutines that verify a token
    Subjects,
    TicksPerSecond,
    Lifetimes,          \* AccessExpiration and RefreshExpiration, in ticks
    RotationInterval,   \* in ticks; 0 turns the rotation off
    StartTime,          \* the clock at the first start, perhaps within a second
    MaxKeys, MaxTokens, MaxVersion, MaxTime,    \* bounds of the model
    MaxCrashes, MaxLosses   \* bounds of the model: ends of the process; drops and evictions

ASSUME JWTAssumption ==
    /\ TicksPerSecond \in Nat \ {0}
    /\ Lifetimes \subseteq Nat
    /\ RotationInterval \in Nat
    /\ MaxKeys \in Nat \ {0} /\ MaxTokens \in Nat /\ MaxVersion \in Nat
    /\ MaxTime \in Nat /\ StartTime \in 0..MaxTime
    /\ MaxCrashes \in Nat /\ MaxLosses \in Nat

KeyIds == 1..MaxKeys
TokenIds == 1..MaxTokens
NoToken == 0
Never == 0              \* a ttl of 0 means no expiry
Absent == -1

(* The entries of the store: keys, active key, blacklist and versions.     *)
KeyEntry(i) == <<"key", i>>
ActiveEntry == <<"active", 0>>
BlackEntry(t) == <<"blacklist", t>>
VersionEntry(s) == <<"version", s>>

Entries ==
    {KeyEntry(i) : i \in KeyIds} \cup {ActiveEntry}
        \cup {BlackEntry(t) : t \in TokenIds} \cup {VersionEntry(s) : s \in Subjects}

Token == [key : KeyIds, subject : Subjects, version : Nat, exp : Nat]

Idle == [at |-> "idle", token |-> NoToken, revoked |-> FALSE, version |-> 0]

VARIABLES
    now,
    kv, disk, log,      \* the store: its memory, its files at the start, the writes since
    phase,              \* "up", "closed" (the store is), "down"
    mu,                 \* the manager's mutex: "free", "rotating", or "stuck"
    cache, active,      \* keyCache and active
    keys, tokens,       \* CreatedAt of each key; the tokens issued, by id
    verify,             \* the verifications under way
    revoked, versions,  \* history: tokens revoked; version increments done
    gone, loose,        \* history: entries evicted or dropped; writes lost in a crash
    crashes, lost       \* so far

store == <<kv, disk, log>>
manager == <<mu, cache, active>>
issued == <<keys, tokens>>
ended == <<revoked, versions>>
losses == <<gone, loose, crashes, lost>>
vars == <<now, store, phase, manager, issued, verify, ended, losses>>

NoEntries == [e \in Entries |-> Absent]

(* NewJWTManager on an empty store makes the first key and activates it.   *)
Init ==
    /\ now = StartTime
    /\ disk = NoEntries
    /\ kv = [disk EXCEPT ![KeyEntry(1)] = 1, ![ActiveEntry] = 1]
    /\ log = <<<<KeyEntry(1), 1>>, <<ActiveEntry, 1>>>>
    /\ phase = "up" /\ mu = "free"
    /\ cache = {1} /\ active = 1
    /\ keys = <<now>> /\ tokens = <<>>
    /\ verify = [v \in Verifiers |-> Idle]
    /\ revoked = {} /\ versions = [s \in Subjects |-> 0]
    /\ gone = {} /\ loose = {} /\ crashes = 0 /\ lost = 0

-----------------------------------------------------------------------------
(* The store.                                                              *)

(* The last of the first n writes to each entry, on top of the files. *)
Replay(n) ==
    [e \in Entries |->
        LET I == {i \in 1..n : log[i][1] = e}
        IN IF I = {} THEN disk[e] ELSE log[Max(I)][2]]

Lose(e) ==
    /\ lost < MaxLosses /\ lost' = lost + 1
    /\ gone' = gone \cup {e}

(* Set; the record of it may be dropped. *)
Put(e, x) ==
    /\ kv' = [kv EXCEPT ![e] = x]
    /\ UNCHANGED <<disk, loose, crashes>>
    /\ \/ log' = Append(log, <<e, x>>) /\ UNCHANGED <<gone, lost>>
       \/ Lose(e) /\ UNCHANGED log

Get(e) == IF phase = "up" THEN kv[e] ELSE Absent

(* A blacklist entry is gone when the time is after its expiry. *)
Blacklisted(t) ==
    LET x == Get(BlackEntry(t)) IN x # Absent /\ (x = Never \/ now <= x)

(* Mutant: a subject without an entry has no version. *)
CurrentVersion_NoDefault(s) == Get(VersionEntry(s))

CurrentVersion(s) == IF Get(VersionEntry(s)) = Absent THEN 0 ELSE Get(VersionEntry(s))

Tick ==
    /\ now < MaxTime
    /\ now' = now + 1
    /\ UNCHANGED <<store, phase, manager, issued, verify, ended, losses>>

Evict(e) ==
    /\ phase = "up" /\ kv[e] # Absent
    /\ kv' = [kv EXCEPT ![e] = Absent]
    /\ log' = Append(log, <<e, Absent>>)
    /\ Lose(e)
    /\ UNCHANGED <<now, disk, phase, manager, issued, verify, ended, loose, crashes>>

(* The store is closed under the manager, every write flushed. *)
CloseStore ==
    /\ phase = "up"
    /\ phase' = "closed"
    /\ disk' = Replay(Len(log)) /\ log' = <<>>
    /\ UNCHANGED <<now, kv, manager, issued, verify, ended, losses>>

(* The process ends: memory is gone, and a prefix of the writes is on disk. *)
End ==
    /\ phase # "down"
    /\ crashes < MaxCrashes /\ crashes' = crashes + 1
    /\ \E n \in 0..Len(log) :
         /\ disk' = Replay(n)
         /\ loose' = loose \cup {log[i][1] : i \in (n + 1)..Len(log)}
    /\ log' = <<>>
    /\ phase' = "down" /\ mu' = "free"
    /\ kv' = NoEntries /\ cache' = {} /\ active' = 1
    /\ verify' = [v \in Verifiers |-> Idle]
    /\ UNCHANGED <<now, issued, ended, gone, lost>>

-----------------------------------------------------------------------------
(* Keys.                                                                   *)

NewKey == Len(keys) + 1
OnDisk == {i \in KeyIds : disk[KeyEntry(i)] # Absent}

(* Mutant: only the active key is loaded. *)
StartWithActive_Only ==
    /\ disk[ActiveEntry] # Absent
    /\ active' = disk[ActiveEntry] /\ cache' = OnDisk \cap {disk[ActiveEntry]}
    /\ kv' = disk
    /\ UNCHANGED <<log, keys>>

(* loadKeys: the keys the store has, and the one it names as active.       *)
StartWithActive ==
    /\ disk[ActiveEntry] # Absent
    /\ active' = disk[ActiveEntry] /\ cache' = OnDisk
    /\ kv' = disk
    /\ UNCHANGED <<log, keys>>

(* loadKeys makes a new key when the store names none as active. *)
StartWithNewKey ==
    /\ disk[ActiveEntry] = Absent /\ NewKey \in KeyIds
    /\ active' = NewKey /\ cache' = OnDisk \cup {NewKey}
    /\ kv' = [disk EXCEPT ![KeyEntry(NewKey)] = 1, ![ActiveEntry] = NewKey]
    /\ log' = <<<<KeyEntry(NewKey), 1>>, <<ActiveEntry, NewKey>>>>
    /\ keys' = Append(keys, now)

Start ==
    /\ phase = "down" /\ phase' = "up"
    /\ StartWithActive \/ StartWithNewKey
    /\ UNCHANGED <<now, disk, mu, tokens, verify, ended, losses>>

Running == phase # "down" /\ mu = "free"

(* persistKey stores the key; nothing is changed when it cannot. *)
RotateKey ==
    /\ Running /\ phase = "up" /\ NewKey \in KeyIds
    /\ keys' = Append(keys, now)
    /\ cache' = cache \cup {NewKey} /\ active' = NewKey
    /\ Put(KeyEntry(NewKey), 1)
    /\ mu' = "rotating"
    /\ UNCHANGED <<now, phase, tokens, verify, ended>>

(* Mutant: the mutex is not released after an error. *)
ActivateKey_Locked ==
    /\ mu = "rotating"
    /\ IF phase = "up" THEN Put(ActiveEntry, active) /\ mu' = "free"
       ELSE UNCHANGED <<store, losses, mu>>
    /\ UNCHANGED <<now, phase, cache, active, issued, verify, ended>>

(* The new key is in use by now, whether or not its name can be stored. *)
ActivateKey ==
    /\ mu = "rotating"
    /\ IF phase = "up" THEN Put(ActiveEntry, active) ELSE UNCHANGED <<store, losses>>
    /\ mu' = "free"
    /\ UNCHANGED <<now, phase, cache, active, issued, verify, ended>>

-----------------------------------------------------------------------------
(* Tokens.                                                                 *)

Due == RotationInterval > 0 /\ now - keys[active] >= RotationInterval

(* GenerateTokenPair is refused with ErrUnknownKey, and changes nothing,   *)
(* when the active key is not in the cache.  Of the pair one token is      *)
(* here: the other differs in its lifetime.                                *)
GenerateToken(s) ==
    /\ Running /\ active \in cache /\ ~Due
    /\ Len(tokens) < MaxTokens
    /\ \E ttl \in Lifetimes :
         tokens' = Append(tokens, [key |-> active, subject |-> s,
                                   version |-> CurrentVersion(s),
                                   exp |-> (now + ttl) \div TicksPerSecond])
    /\ UNCHANGED <<now, store, phase, manager, keys, verify, ended, losses>>

(* ensureRotationLocked calls RotateKey, which waits for the mutex that    *)
(* its own goroutine holds.                                                *)
GenerateLocksUp ==
    /\ Running /\ active \in cache /\ Due
    /\ mu' = "stuck"
    /\ UNCHANGED <<now, store, phase, cache, active, issued, verify, ended, losses>>

(* IncrementIdentityVersion. *)
Increment(s) ==
    /\ Running /\ phase = "up" /\ CurrentVersion(s) < MaxVersion
    /\ Put(VersionEntry(s), CurrentVersion(s) + 1)
    /\ versions' = [versions EXCEPT ![s] = @ + 1]
    /\ UNCHANGED <<now, phase, manager, issued, verify, revoked>>

Parses(t) == tokens[t].key \in cache

(* The entry lasts as long as the token, or for ever when no time is left. *)
RevokeToken(t) ==
    /\ Running /\ phase = "up" /\ Parses(t) /\ ~Blacklisted(t)
    /\ LET end == tokens[t].exp * TicksPerSecond
       IN Put(BlackEntry(t), IF end <= now THEN Never ELSE end)
    /\ revoked' = revoked \cup {t}
    /\ UNCHANGED <<now, phase, manager, issued, verify, versions>>

Return(v) == verify' = [verify EXCEPT ![v] = Idle]
GoOn(v, at) == verify' = [verify EXCEPT ![v].at = at]

(* VerifyToken goes on with a token whose key is known and whose time is   *)
(* not over.                                                               *)
VerifyParse(v, t) ==
    /\ Running /\ verify[v].at = "idle"
    /\ Parses(t) /\ now \div TicksPerSecond <= tokens[t].exp
    /\ verify' = [verify EXCEPT ![v] =
                    [at |-> "in time", token |-> t, revoked |-> t \in revoked,
                     version |-> versions[tokens[t].subject]]]
    /\ UNCHANGED <<now, store, phase, manager, issued, ended, losses>>

VerifyBlacklist(v) ==
    /\ verify[v].at = "in time"
    /\ IF Blacklisted(verify[v].token) THEN Return(v) ELSE GoOn(v, "not revoked")
    /\ UNCHANGED <<now, store, phase, manager, issued, ended, losses>>

(* Mutant: only a version that was never reached is refused. *)
VersionMatches_Reached(t) == CurrentVersion(tokens[t].subject) >= tokens[t].version

VersionMatches(t) == CurrentVersion(tokens[t].subject) = tokens[t].version

(* matchIdentityVersion: the token is accepted, or refused. *)
Accept(v) ==
    /\ Running /\ verify[v].at = "not revoked"
    /\ VersionMatches(verify[v].token)
    /\ Return(v)
    /\ UNCHANGED <<now, store, phase, manager, issued, ended, losses>>

Refuse(v) ==
    /\ Running /\ verify[v].at = "not revoked"
    /\ ~VersionMatches(verify[v].token)
    /\ Return(v)
    /\ UNCHANGED <<now, store, phase, manager, issued, ended, losses>>

Next ==
    \/ Tick \/ CloseStore \/ End \/ Start
    \/ \E e \in Entries : Evict(e)
    \/ RotateKey \/ ActivateKey \/ GenerateLocksUp
    \/ \E s \in Subjects : GenerateToken(s) \/ Increment(s)
    \/ \E t \in DOMAIN tokens : RevokeToken(t)
    \/ \E v \in Verifiers, t \in DOMAIN tokens : VerifyParse(v, t)
    \/ \E v \in Verifiers : VerifyBlacklist(v) \/ Accept(v) \/ Refuse(v)

Spec == Init /\ [][Next]_vars

(* A goroutine runs on, and gets a mutex that is free again and again. *)
FairSpec ==
    /\ Spec
    /\ WF_vars(ActivateKey)
    /\ \A v \in Verifiers : WF_vars(VerifyBlacklist(v)) /\ SF_vars(Accept(v) \/ Refuse(v))

-----------------------------------------------------------------------------
(* Types. *)
TypeOK ==
    /\ now \in 0..MaxTime
    /\ kv \in [Entries -> Int] /\ disk \in [Entries -> Int]
    /\ log \in Seq(Entries \X Int)
    /\ phase \in {"up", "closed", "down"} /\ mu \in {"free", "rotating", "stuck"}
    /\ cache \subseteq KeyIds /\ active \in KeyIds
    /\ keys \in Seq(0..MaxTime) /\ Len(keys) \in KeyIds
    /\ tokens \in Seq(Token) /\ Len(tokens) <= MaxTokens
    /\ verify \in [Verifiers -> [at : {"idle", "in time", "not revoked"},
                                 token : 0..MaxTokens, revoked : BOOLEAN, version : Nat]]
    /\ revoked \subseteq TokenIds /\ versions \in [Subjects -> Nat]
    /\ gone \subseteq Entries /\ loose \subseteq Entries
    /\ crashes \in 0..MaxCrashes /\ lost \in 0..MaxLosses

(* The active key, and the key of every token that was issued, is a key the *)
(* manager has, over rotations, errors, crashes and restarts, unless the    *)
(* store evicted or dropped its record; the key of a token also when the    *)
(* crash came before the record was on disk.  loadKeys takes the store's    *)
(* word for the active key and does not look.                               *)
KeysKept ==
    phase # "down" =>
        /\ active \notin cache => KeyEntry(active) \in gone
        /\ \A t \in DOMAIN tokens :
             tokens[t].key \notin cache => KeyEntry(tokens[t].key) \in gone \cup loose

(* The entries that end token t are all in the store that is asked. *)
StoreComplete(t) ==
    /\ phase = "up"
    /\ {BlackEntry(t), VersionEntry(tokens[t].subject)} \cap (gone \cup loose) = {}

(* A verification that began after the token was revoked, or its subject's  *)
(* version raised, does not accept it, unless the store lost the entry or   *)
(* was closed.  In the second in which it expires a token may be accepted   *)
(* though revoked: its entry ends when that second begins.                  *)
EndedIsRefused ==
    [][\A v \in Verifiers :
         LET t == verify[v].token IN
         Accept(v) /\ StoreComplete(t) =>
             /\ verify[v].revoked => now > tokens[t].exp * TicksPerSecond
             /\ verify[v].version <= tokens[t].version]_vars

(* Every verification returns, whatever rotates keys or fails meanwhile,    *)
(* until a token is asked for when the key is due: from then on the manager *)
(* is stuck.                                                                *)
CallsReturn ==
    \A v \in Verifiers : verify[v].at # "idle" ~> verify[v].at = "idle" \/ mu = "stuck"
=============================================================================
