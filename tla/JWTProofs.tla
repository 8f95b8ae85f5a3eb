------------------------------ MODULE JWTProofs ------------------------------
(***************************************************************************)
(* Proofs about JWT, for every number of keys, tokens, subjects, verifiers *)
(* and faults, and all lifetimes.                                          *)
(***************************************************************************)
EXTENDS JWT, FoldProofs, SequenceTheorems, TLAPS

Values == Nat \cup {Absent}

(* What replay makes of a sequence of writes on top of files. *)
Play(d, l, n) ==
    [e \in Entries |->
        LET I == {i \in 1..n : l[i][1] = e}
        IN IF I = {} THEN d[e] ELSE l[Max(I)][2]]

LEMMA ReplayIsPlay == ASSUME NEW n PROVE Replay(n) = Play(disk, log, n)
  BY DEF Replay, Play

LEMMA PlayNone ==
  ASSUME NEW V, NEW d \in [Entries -> V], NEW l
  PROVE  Play(d, l, 0) = d
<1>1. \A e \in Entries : {i \in 1..0 : l[i][1] = e} = {}
  OBVIOUS
<1>2. QED
  BY <1>1, Zenon DEF Play

Written(l, n, e) == {i \in 1..n : l[i][1] = e}

LEMMA PlayOf ==
  ASSUME NEW d, NEW l, NEW n, NEW e \in Entries
  PROVE  /\ Written(l, n, e) = {} => Play(d, l, n)[e] = d[e]
         /\ Written(l, n, e) # {} => Play(d, l, n)[e] = l[Max(Written(l, n, e))][2]
  BY DEF Play, Written

LEMMA PlayEquals ==
  ASSUME NEW d, NEW l, NEW n, NEW w,
         w = [e \in Entries |-> w[e]], \A e \in Entries : Play(d, l, n)[e] = w[e]
  PROVE  Play(d, l, n) = w
<1>1. Play(d, l, n) = [e \in Entries |-> Play(d, l, n)[e]]
  BY DEF Play
<1>2. QED
  BY <1>1

LEMMA LastWritten ==
  ASSUME NEW l, NEW n \in Nat, NEW e, Written(l, n, e) # {}
  PROVE  /\ Max(Written(l, n, e)) \in Written(l, n, e)
         /\ \A i \in Written(l, n, e) : i <= Max(Written(l, n, e))
<1>1. Written(l, n, e) \subseteq 0..n
  BY DEF Written
<1>2. QED
  BY <1>1, MaxIsGreatest

(* A write added to the others is the last of its entry. *)
Extends(l2, l, e, x) ==
    Len(l) \in Nat /\ l2[Len(l) + 1] = <<e, x>> /\ \A i \in 1..Len(l) : l2[i] = l[i]

LEMMA PlayOneMore ==
  ASSUME NEW d, NEW l, NEW e \in Entries, NEW x, NEW l2, Extends(l2, l, e, x)
  PROVE  /\ \A n \in 0..Len(l) : Play(d, l2, n) = Play(d, l, n)
         /\ Play(d, l2, Len(l) + 1) = [Play(d, l, Len(l)) EXCEPT ![e] = x]
<1> DEFINE m == Len(l) + 1
<1>1. /\ Len(l) \in Nat /\ l2[m] = <<e, x>>
      /\ \A i \in 1..Len(l) : l2[i] = l[i]
  BY DEF Extends
<1>2. ASSUME NEW n \in 0..Len(l), NEW f
      PROVE  Written(l2, n, f) = Written(l, n, f) /\ Written(l, n, f) \subseteq 1..Len(l)
  <2>1. 1..n \subseteq 1..Len(l)
    BY <1>1
  <2>2. \A i \in 1..n : l2[i] = l[i]
    BY <1>1, <2>1
  <2>3. QED
    BY <2>1, <2>2, Zenon DEF Written
<1>3. ASSUME NEW n \in 0..Len(l), NEW f, Written(l, n, f) # {}
      PROVE  l2[Max(Written(l, n, f))] = l[Max(Written(l, n, f))]
  BY <1>1, <1>2, <1>3, LastWritten
<1>4. ASSUME NEW n \in 0..Len(l) PROVE Play(d, l2, n) = Play(d, l, n)
  <2>1. ASSUME NEW f \in Entries PROVE Play(d, l2, n)[f] = Play(d, l, n)[f]
    BY <1>2, <1>3, PlayOf
  <2>2. Play(d, l, n) = [f \in Entries |-> Play(d, l, n)[f]]
    BY DEF Play
  <2>3. QED
    BY <2>1, <2>2, PlayEquals
<1>5. Play(d, l2, m) = [Play(d, l, Len(l)) EXCEPT ![e] = x]
  <2> DEFINE w == Play(d, l, Len(l))
  <2>1. w = [f \in Entries |-> w[f]]
    BY DEF Play
  <2>2. ASSUME NEW f \in Entries, f # e PROVE Play(d, l2, m)[f] = w[f]
    <3>1. Written(l2, m, f) = Written(l, Len(l), f)
      BY <1>1, <2>2 DEF Written
    <3>2. QED
      BY <1>1, <1>3, <3>1, PlayOf
  <2>3. Play(d, l2, m)[e] = x
    <3>1. m \in Written(l2, m, e) /\ m \in Nat
      BY <1>1 DEF Written
    <3>2. /\ Max(Written(l2, m, e)) \in Written(l2, m, e)
          /\ \A i \in Written(l2, m, e) : i <= Max(Written(l2, m, e))
      BY <3>1, LastWritten
    <3>3. Max(Written(l2, m, e)) = m
      <4> DEFINE M == Max(Written(l2, m, e))
      <4>1. M \in 1..m /\ m <= M
        BY <3>1, <3>2 DEF Written
      <4>2. QED
        BY <3>1, <4>1
    <3>4. l2[m][2] = x
      BY <1>1
    <3>5. QED
      BY <3>1, <3>3, <3>4, PlayOf
  <2> HIDE DEF w
  <2>4. [w EXCEPT ![e] = x] = [f \in Entries |-> [w EXCEPT ![e] = x][f]]
        /\ \A f \in Entries : Play(d, l2, m)[f] = [w EXCEPT ![e] = x][f]
    BY <2>1, <2>2, <2>3
  <2>5. QED
    BY <2>4, PlayEquals DEF w
<1>6. QED
  BY <1>1, <1>4, <1>5

(* Writes that are not an entry's make no difference to it. *)
LEMMA PlayTail ==
  ASSUME NEW d, NEW l \in Seq(Entries \X Int), NEW n \in 0..Len(l), NEW e \in Entries,
         e \notin {l[i][1] : i \in (n + 1)..Len(l)}
  PROVE  Play(d, l, n)[e] = Play(d, l, Len(l))[e]
<1>1. Len(l) \in Nat /\ n \in Nat
  BY LenProperties
<1>2. ASSUME NEW i \in 1..Len(l), l[i][1] = e PROVE i \in 1..n
  BY <1>1, <1>2
<1>3. Written(l, n, e) = Written(l, Len(l), e)
  BY <1>1, <1>2 DEF Written
<1>4. QED
  BY <1>3, PlayOf

-----------------------------------------------------------------------------
(* Invariants.  The images are what the files can hold after a crash that   *)
(* keeps the first n writes.                                                *)
Latest == Replay(Len(log))
Unsure == gone \cup loose

(* The key an image names as the active one is in it, or was lost: ks are   *)
(* the keys there are, g the entries lost.                                  *)
Good(w, ks, g) ==
    /\ w \in [Entries -> Values]
    /\ w[ActiveEntry] # Absent =>
         /\ w[ActiveEntry] \in ks
         /\ w[KeyEntry(w[ActiveEntry])] # Absent \/ KeyEntry(w[ActiveEntry]) \in g

ImageInv == \A n \in 0..Len(log) : Good(Replay(n), DOMAIN keys, gone)

(* Memory shows what was written last, and that is what was done last. *)
RecordInv ==
    /\ kv \in [Entries -> Values]
    /\ phase = "up" => \A e \in Entries \ Unsure : kv[e] = Latest[e]
    /\ \A k \in DOMAIN keys : KeyEntry(k) \notin Unsure => Latest[KeyEntry(k)] # Absent
    /\ mu = "rotating" => Latest[KeyEntry(active)] # Absent \/ KeyEntry(active) \in gone
    /\ \A s \in Subjects : VersionEntry(s) \notin Unsure =>
         Latest[VersionEntry(s)] = versions[s] \/ (Latest[VersionEntry(s)] = Absent /\ versions[s] = 0)
    /\ \A t \in revoked : BlackEntry(t) \notin Unsure =>
         Latest[BlackEntry(t)] \in {Never, tokens[t].exp * TicksPerSecond}

(* The keys in the cache, and those the tokens need. *)
CacheInv ==
    /\ phase = "down" => log = <<>> /\ mu = "free"
    /\ phase # "down" =>
         /\ active \in DOMAIN keys /\ (active \notin cache => KeyEntry(active) \in gone)
         /\ \A k \in DOMAIN keys : k \notin cache => KeyEntry(k) \in Unsure
    /\ \A t \in DOMAIN tokens : tokens[t].key \in DOMAIN keys
    /\ revoked \subseteq DOMAIN tokens

(* A verification remembers no more than what was so when it began, and     *)
(* once it has looked at the blacklist a revoked token's time is over.      *)
VerifyInv ==
    \A v \in Verifiers :
        LET c == verify[v] t == c.token IN
        c.at # "idle" =>
            /\ phase # "down" /\ t \in DOMAIN tokens
            /\ c.revoked => t \in revoked
            /\ c.version <= versions[tokens[t].subject]
            /\ c.at = "not revoked" /\ c.revoked /\ phase = "up" /\ BlackEntry(t) \notin Unsure =>
                   now > tokens[t].exp * TicksPerSecond

IInv == TypeOK /\ ImageInv /\ RecordInv /\ CacheInv /\ VerifyInv

-----------------------------------------------------------------------------
(* Entries.                                                                *)

LEMMA EntryKinds ==
  /\ \A i : i \in KeyIds => KeyEntry(i) \in Entries
  /\ \A t : t \in TokenIds => BlackEntry(t) \in Entries
  /\ \A s : s \in Subjects => VersionEntry(s) \in Entries
  /\ ActiveEntry \in Entries
  /\ \A i, j : KeyEntry(i) = KeyEntry(j) => i = j
  /\ \A i, j : BlackEntry(i) = BlackEntry(j) => i = j
  /\ \A i, j : VersionEntry(i) = VersionEntry(j) => i = j
  /\ \A i, j : /\ KeyEntry(i) # BlackEntry(j) /\ KeyEntry(i) # VersionEntry(j)
               /\ BlackEntry(i) # VersionEntry(j)
               /\ ActiveEntry \notin {KeyEntry(i), BlackEntry(i), VersionEntry(i)}
  BY DEF Entries, KeyEntry, BlackEntry, VersionEntry, ActiveEntry

LEMMA Numbers ==
  /\ MaxKeys \in Nat \ {0} /\ MaxTokens \in Nat /\ MaxTime \in Nat /\ MaxVersion \in Nat
  /\ MaxCrashes \in Nat /\ MaxLosses \in Nat /\ StartTime \in 0..MaxTime
  /\ Lifetimes \subseteq Nat /\ RotationInterval \in Nat
  /\ KeyIds \subseteq Nat /\ 1 \in KeyIds /\ TokenIds \subseteq Nat
  BY JWTAssumption DEF KeyIds, TokenIds

LEMMA Seconds ==
  /\ TicksPerSecond \in Nat \ {0}
  /\ \A x \in Nat : x \div TicksPerSecond \in Nat /\ x * TicksPerSecond \in Nat
  BY JWTAssumption

LEMMA LogTypes ==
  TypeOK => /\ log \in Seq(Entries \X Int) /\ Len(log) \in Nat
            /\ keys \in Seq(0..MaxTime) /\ DOMAIN keys = 1..Len(keys) /\ Len(keys) \in KeyIds
            /\ tokens \in Seq(Token) /\ DOMAIN tokens = 1..Len(tokens) /\ Len(tokens) \in Nat
            /\ DOMAIN tokens \subseteq TokenIds
<1> SUFFICES ASSUME TypeOK
             PROVE  /\ log \in Seq(Entries \X Int) /\ Len(log) \in Nat
                    /\ keys \in Seq(0..MaxTime) /\ DOMAIN keys = 1..Len(keys)
                    /\ Len(keys) \in KeyIds
                    /\ tokens \in Seq(Token) /\ DOMAIN tokens = 1..Len(tokens)
                    /\ Len(tokens) \in Nat /\ DOMAIN tokens \subseteq TokenIds
  OBVIOUS
<1>1. log \in Seq(Entries \X Int) /\ keys \in Seq(0..MaxTime) /\ tokens \in Seq(Token)
      /\ Len(keys) \in KeyIds /\ Len(tokens) <= MaxTokens
  BY DEF TypeOK
<1>2. /\ Len(log) \in Nat /\ DOMAIN keys = 1..Len(keys)
      /\ DOMAIN tokens = 1..Len(tokens) /\ Len(tokens) \in Nat
  BY <1>1, LenProperties
<1>3. 1..Len(tokens) \subseteq 1..MaxTokens
  BY <1>1, <1>2, Numbers
<1>4. QED
  BY <1>1, <1>2, <1>3 DEF TokenIds

LEMMA GoodStays ==
  ASSUME NEW w, NEW ks, NEW g, Good(w, ks, g), NEW ks2, NEW g2, ks \subseteq ks2, g \subseteq g2
  PROVE  Good(w, ks2, g2)
  BY DEF Good

LEMMA StoreSame ==
  ASSUME UNCHANGED <<disk, log>>
  PROVE  Latest' = Latest /\ \A n : Replay(n)' = Replay(n)
  BY DEF Latest, Replay

LEMMA ImagesSame ==
  ASSUME ImageInv, UNCHANGED <<disk, log>>, DOMAIN keys \subseteq DOMAIN keys', gone \subseteq gone'
  PROVE  ImageInv'
<1>1. ASSUME NEW n \in 0..Len(log) PROVE Good(Replay(n)', DOMAIN keys', gone')
  <2>1. Good(Replay(n), DOMAIN keys, gone)
    BY DEF ImageInv
  <2>2. Replay(n)' = Replay(n)
    BY StoreSame
  <2>3. QED
    BY <2>1, <2>2, GoodStays
<1>2. QED
  BY <1>1 DEF ImageInv

(* A write that is recorded adds an image. *)
LEMMA StoreAppend ==
  ASSUME log \in Seq(Entries \X Int), NEW e \in Entries, NEW x \in Values,
         log' = Append(log, <<e, x>>), disk' = disk
  PROVE  /\ Latest' = [Latest EXCEPT ![e] = x]
         /\ Len(log') = Len(log) + 1 /\ Len(log) \in Nat /\ log' \in Seq(Entries \X Int)
         /\ \A n \in 0..Len(log) : Replay(n)' = Replay(n)
         /\ \A n \in 0..Len(log') : Replay(n)' = Latest' \/ n \in 0..Len(log)
<1>0. x \in Int
  BY DEF Values, Absent
<1>1. /\ Len(log') = Len(log) + 1 /\ Len(log) \in Nat
      /\ \A n \in 0..Len(log) : Play(disk, log', n) = Play(disk, log, n)
      /\ Play(disk, log', Len(log) + 1) = [Play(disk, log, Len(log)) EXCEPT ![e] = x]
  <2> DEFINE l2 == Append(log, <<e, x>>)
  <2>1. /\ Len(l2) = Len(log) + 1 /\ Len(log) \in Nat /\ l2[Len(log) + 1] = <<e, x>>
        /\ \A i \in 1..Len(log) : l2[i] = log[i]
    BY <1>0, AppendProperties, LenProperties
  <2>2. log' = l2
    OBVIOUS
  <2> HIDE DEF l2
  <2>3. Extends(l2, log, e, x)
    BY <2>1 DEF Extends
  <2>4. /\ \A n \in 0..Len(log) : Play(disk, l2, n) = Play(disk, log, n)
        /\ Play(disk, l2, Len(log) + 1) = [Play(disk, log, Len(log)) EXCEPT ![e] = x]
    BY <2>1, <2>3, PlayOneMore
  <2>5. QED
    BY <2>1, <2>2, <2>4
<1>2. \A n : Replay(n) = Play(disk, log, n) /\ Replay(n)' = Play(disk, log', n)
  BY DEF Replay, Play
<1>3. Latest' = Play(disk, log', Len(log')) /\ Latest = Play(disk, log, Len(log))
  BY DEF Latest, Replay, Play
<1>4. log' \in Seq(Entries \X Int)
  BY <1>0, AppendProperties
<1>5. ASSUME NEW n \in 0..Len(log') PROVE Replay(n)' = Latest' \/ n \in 0..Len(log)
  <2>1. n = Len(log') \/ n \in 0..Len(log)
    BY <1>1
  <2>2. QED
    BY <1>2, <1>3, <2>1
<1>6. QED
  BY <1>1, <1>2, <1>3, <1>4, <1>5

LEMMA ImagesAppend ==
  ASSUME ImageInv, log \in Seq(Entries \X Int), NEW e \in Entries, NEW x \in Values,
         log' = Append(log, <<e, x>>), disk' = disk,
         DOMAIN keys \subseteq DOMAIN keys', gone \subseteq gone',
         Good([Latest EXCEPT ![e] = x], DOMAIN keys', gone')
  PROVE  ImageInv'
<1>1. ASSUME NEW n \in 0..Len(log') PROVE Good(Replay(n)', DOMAIN keys', gone')
  <2>1. CASE n \in 0..Len(log)
    <3>1. Good(Replay(n), DOMAIN keys, gone)
      BY <2>1 DEF ImageInv
    <3>2. Replay(n)' = Replay(n)
      BY <2>1, StoreAppend
    <3>3. QED
      BY <3>1, <3>2, GoodStays
  <2>2. CASE n \notin 0..Len(log)
    <3>1. Replay(n)' = [Latest EXCEPT ![e] = x]
      BY <2>2, StoreAppend
    <3>2. QED
      BY <3>1
  <2>3. QED
    BY <2>1, <2>2
<1>2. QED
  BY <1>1 DEF ImageInv

(* The latest image is one of the images. *)
LEMMA LatestGood == TypeOK /\ ImageInv => Good(Latest, DOMAIN keys, gone)
  BY LogTypes DEF ImageInv, Latest

LEMMA PutStep ==
  ASSUME TypeOK, ImageInv, NEW e \in Entries, NEW x \in Values, Put(e, x),
         DOMAIN keys \subseteq DOMAIN keys', Good([Latest EXCEPT ![e] = x], DOMAIN keys', gone)
  PROVE  /\ kv' = [kv EXCEPT ![e] = x] /\ UNCHANGED <<disk, loose, crashes>>
         /\ gone \subseteq gone' /\ gone' \subseteq gone \cup {e} /\ lost' \in 0..MaxLosses
         /\ Latest' = [Latest EXCEPT ![e] = x] \/ (Latest' = Latest /\ e \in gone')
         /\ log' \in Seq(Entries \X Int) /\ ImageInv'
<1>1. log \in Seq(Entries \X Int) /\ lost \in 0..MaxLosses
  BY DEF TypeOK
<1>2. kv' = [kv EXCEPT ![e] = x] /\ UNCHANGED <<disk, loose, crashes>>
  BY DEF Put
<1>3. CASE log' = Append(log, <<e, x>>) /\ UNCHANGED <<gone, lost>>
  <2>1. Latest' = [Latest EXCEPT ![e] = x] /\ log' \in Seq(Entries \X Int)
    BY <1>1, <1>2, <1>3, StoreAppend
  <2>2. ImageInv'
    BY <1>1, <1>2, <1>3, ImagesAppend
  <2>3. QED
    BY <1>1, <1>2, <1>3, <2>1, <2>2
<1>4. CASE Lose(e) /\ UNCHANGED log
  <2>1. gone' = gone \cup {e} /\ lost' = lost + 1 /\ lost < MaxLosses
    BY <1>4 DEF Lose
  <2>2. lost' \in 0..MaxLosses
    BY <1>1, <2>1, Numbers
  <2>3. Latest' = Latest /\ ImageInv'
    BY <1>2, <1>4, <2>1, StoreSame, ImagesSame
  <2>4. QED
    BY <1>1, <1>2, <1>4, <2>1, <2>2, <2>3
<1>5. QED
  BY <1>3, <1>4 DEF Put

(* What a write does, recorded or not, and an eviction. *)
Stored(e, x) ==
    /\ kv' = [kv EXCEPT ![e] = x] /\ loose' = loose /\ gone \subseteq gone' /\ gone' \subseteq Entries
    /\ \A f \in Entries \ {e} : Latest'[f] = Latest[f]
    /\ Latest'[e] = x \/ e \in gone'
    /\ disk' = disk /\ log' \in Seq(Entries \X Int) /\ lost' \in 0..MaxLosses
    /\ ImageInv'

LEMMA PutStored ==
  ASSUME TypeOK, ImageInv, NEW e \in Entries, NEW x \in Values, Put(e, x),
         DOMAIN keys \subseteq DOMAIN keys', Good([Latest EXCEPT ![e] = x], DOMAIN keys', gone)
  PROVE  Stored(e, x) /\ crashes' = crashes
<1>1. Latest \in [Entries -> Values] /\ gone \subseteq Entries
  BY LatestGood DEF Good, TypeOK
<1>2. /\ kv' = [kv EXCEPT ![e] = x] /\ UNCHANGED <<disk, loose, crashes>>
      /\ gone \subseteq gone' /\ gone' \subseteq gone \cup {e} /\ lost' \in 0..MaxLosses
      /\ Latest' = [Latest EXCEPT ![e] = x] \/ (Latest' = Latest /\ e \in gone')
      /\ log' \in Seq(Entries \X Int) /\ ImageInv'
  BY PutStep
<1> HIDE DEF Latest, ImageInv, Put
<1>3. /\ \A f \in Entries \ {e} : Latest'[f] = Latest[f]
      /\ Latest'[e] = x \/ e \in gone'
  BY <1>1, <1>2
<1>4. QED
  BY <1>1, <1>2, <1>3 DEF Stored

LEMMA EvictStored ==
  ASSUME TypeOK, ImageInv, NEW e \in Entries, Evict(e)
  PROVE  Stored(e, Absent) /\ e \in gone' /\ crashes' = crashes
<1>1. Latest \in [Entries -> Values] /\ gone \subseteq Entries /\ Good(Latest, DOMAIN keys, gone)
  BY LatestGood DEF Good, TypeOK
<1>2. log \in Seq(Entries \X Int) /\ lost \in 0..MaxLosses
  BY DEF TypeOK
<1>3. /\ kv' = [kv EXCEPT ![e] = Absent] /\ log' = Append(log, <<e, Absent>>)
      /\ gone' = gone \cup {e} /\ lost' = lost + 1 /\ lost < MaxLosses
      /\ UNCHANGED <<disk, loose, crashes, keys>>
  BY DEF Evict, Lose, issued
<1>4. Absent \in Values
  BY DEF Values
<1>5. Good([Latest EXCEPT ![e] = Absent], DOMAIN keys', gone')
  BY <1>1, <1>3, <1>4 DEF Good
<1>6. ImageInv'
  BY <1>2, <1>3, <1>4, <1>5, ImagesAppend
<1>7. Latest' = [Latest EXCEPT ![e] = Absent] /\ log' \in Seq(Entries \X Int)
  BY <1>2, <1>3, <1>4, StoreAppend
<1>8. lost' \in 0..MaxLosses
  BY <1>2, <1>3, Numbers
<1> HIDE DEF Latest, ImageInv, Evict
<1>9. \A f \in Entries \ {e} : Latest'[f] = Latest[f]
  BY <1>1, <1>7
<1>10. QED
  BY <1>1, <1>3, <1>6, <1>7, <1>8, <1>9 DEF Stored

(* The files after a crash or the end of the store are one of the images. *)
LEMMA StoreEnds ==
  ASSUME TypeOK, ImageInv, NEW n \in 0..Len(log), disk' = Replay(n), log' = <<>>,
         keys' = keys, gone \subseteq gone'
  PROVE  /\ disk' \in [Entries -> Values] /\ Latest' = Replay(n) /\ ImageInv'
<1>1. Good(Replay(n), DOMAIN keys, gone) /\ Replay(n) \in [Entries -> Values]
  BY DEF ImageInv, Good
<1>2. Len(log') = 0 /\ Latest' = Replay(0)'
  BY DEF Latest
<1>3. Replay(0)' = Play(disk', log', 0)
  BY DEF Replay, Play
<1>4. Play(disk', log', 0) = disk'
  BY <1>1, PlayNone
<1>5. \A i \in 0..0 : Replay(i)' = disk'
  BY <1>3, <1>4
<1>6. \A i \in 0..Len(log') : Replay(i)' = disk' /\ Good(disk', DOMAIN keys', gone')
  BY <1>1, <1>2, <1>5, GoodStays
<1>7. QED
  BY <1>1, <1>2, <1>3, <1>4, <1>6 DEF ImageInv

LEMMA ImageKeys ==
  ASSUME TypeOK, CacheInv, ImageInv, RotateKey
  PROVE  Stored(KeyEntry(NewKey), 1) /\ crashes' = crashes /\ DOMAIN keys' = DOMAIN keys \cup {NewKey}
         /\ NewKey \notin DOMAIN keys /\ keys' \in Seq(0..MaxTime) /\ Len(keys') = NewKey
         /\ NewKey \in KeyIds
<1>1. NewKey \in KeyIds /\ keys' = Append(keys, now) /\ Put(KeyEntry(NewKey), 1)
  BY DEF RotateKey
<1>2. /\ keys \in Seq(0..MaxTime) /\ now \in 0..MaxTime /\ Len(keys) \in Nat
      /\ DOMAIN keys = 1..Len(keys)
  BY LogTypes, LenProperties DEF TypeOK
<1>3. /\ keys' \in Seq(0..MaxTime) /\ Len(keys') = NewKey /\ DOMAIN keys' = DOMAIN keys \cup {NewKey}
      /\ NewKey \notin DOMAIN keys
  BY <1>1, <1>2, AppendProperties DEF NewKey
<1>4. KeyEntry(NewKey) \in Entries /\ 1 \in Values /\ 1 # Absent
  BY <1>1, EntryKinds DEF Values, Absent
<1>5. Good(Latest, DOMAIN keys, gone)
  BY LatestGood
<1>6. Good([Latest EXCEPT ![KeyEntry(NewKey)] = 1], DOMAIN keys', gone)
  <2>1. DOMAIN keys \subseteq KeyIds
    BY <1>1, <1>2, Numbers DEF KeyIds, NewKey
  <2> HIDE DEF Latest
  <2>2. \A i \in DOMAIN keys : KeyEntry(i) # KeyEntry(NewKey) /\ KeyEntry(i) \in Entries
    BY <1>3, <2>1, EntryKinds
  <2>3. ActiveEntry # KeyEntry(NewKey)
    BY EntryKinds
  <2>4. QED
    BY <1>3, <1>4, <1>5, <2>2, <2>3 DEF Good
<1>7. QED
  BY <1>1, <1>3, <1>4, <1>6, PutStored

LEMMA ImageActivate ==
  ASSUME TypeOK, CacheInv, ImageInv, RecordInv, ActivateKey, phase = "up"
  PROVE  Stored(ActiveEntry, active) /\ crashes' = crashes
<1>1. mu = "rotating" /\ Put(ActiveEntry, active) /\ keys' = keys
  BY DEF ActivateKey, issued
<1>2. active \in DOMAIN keys /\ active \in KeyIds
  BY DEF CacheInv, TypeOK
<1>3. Latest[KeyEntry(active)] # Absent \/ KeyEntry(active) \in gone
  BY <1>1 DEF RecordInv
<1>4. Good(Latest, DOMAIN keys, gone)
  BY LatestGood
<1>5. /\ active \in Values /\ ActiveEntry \in Entries /\ ActiveEntry # KeyEntry(active)
      /\ KeyEntry(active) \in Entries
  BY <1>2, EntryKinds, Numbers DEF Values
<1>6. Good([Latest EXCEPT ![ActiveEntry] = active], DOMAIN keys', gone)
  <2> HIDE DEF Latest
  <2> QED
    BY <1>1, <1>2, <1>3, <1>4, <1>5 DEF Good
<1>7. QED
  BY <1>1, <1>5, <1>6, PutStored

LEMMA ImageOther ==
  ASSUME TypeOK, ImageInv, NEW e \in Entries, NEW x \in Values, Put(e, x), keys' = keys,
         e # ActiveEntry, \A i \in KeyIds : e # KeyEntry(i)
  PROVE  Stored(e, x) /\ crashes' = crashes
<1>1. Good(Latest, DOMAIN keys, gone)
  BY LatestGood
<1>2. DOMAIN keys \subseteq KeyIds
  BY LogTypes, Numbers DEF KeyIds
<1>3. Good([Latest EXCEPT ![e] = x], DOMAIN keys', gone)
  <2>1. /\ Latest \in [Entries -> Values] /\ ActiveEntry \in Entries
        /\ \A i \in DOMAIN keys : KeyEntry(i) \in Entries /\ e # KeyEntry(i)
    BY <1>1, <1>2, EntryKinds DEF Good
  <2> HIDE DEF Latest
  <2>2. [Latest EXCEPT ![e] = x] \in [Entries -> Values]
    BY <2>1
  <2>3. /\ [Latest EXCEPT ![e] = x][ActiveEntry] = Latest[ActiveEntry]
        /\ \A i \in DOMAIN keys : [Latest EXCEPT ![e] = x][KeyEntry(i)] = Latest[KeyEntry(i)]
    BY <2>1
  <2>4. QED
    BY <1>1, <2>2, <2>3 DEF Good
<1>4. QED
  BY <1>3, PutStored

(* A program that is down has its files only. *)
LEMMA DownImage ==
  ASSUME TypeOK, CacheInv, ImageInv, phase = "down"
  PROVE  log = <<>> /\ mu = "free" /\ Latest = disk /\ Good(disk, DOMAIN keys, gone)
<1>1. log = <<>> /\ mu = "free" /\ disk \in [Entries -> Int]
  BY DEF CacheInv, TypeOK
<1>2. Len(log) = 0 /\ Latest = Play(disk, log, 0)
  BY <1>1, ReplayIsPlay DEF Latest
<1>3. Latest = disk
  BY <1>1, <1>2, PlayNone
<1>4. QED
  BY <1>1, <1>3, LatestGood

(* Two writes on top of the files. *)
Two(e1, x1, e2, x2) == <<<<e1, x1>>, <<e2, x2>>>>
With(d, e, x) == [d EXCEPT ![e] = x]

LEMMA TwoWrites ==
  ASSUME NEW d \in [Entries -> Values], NEW e1 \in Entries, NEW e2 \in Entries,
         NEW x1 \in Values, NEW x2 \in Values, NEW l, l = Two(e1, x1, e2, x2)
  PROVE  /\ Play(d, l, 0) = d /\ Play(d, l, 1) = With(d, e1, x1)
         /\ Play(d, l, 2) = With(With(d, e1, x1), e2, x2)
         /\ Len(l) = 2 /\ l \in Seq(Entries \X Int)
<1> DEFINE r1 == <<e1, x1>>
           r2 == <<e2, x2>>
           d1 == [d EXCEPT ![e1] = x1]
           l0 == <<>>
           l1 == <<r1>>
<1>1. r1 \in Entries \X Int /\ r2 \in Entries \X Int /\ l = <<r1, r2>>
  BY DEF Values, Absent, Two
<1> HIDE DEF r1, r2
<1>2. /\ Len(l0) = 0 /\ Len(l1) = 1 /\ Len(l) = 2 /\ l \in Seq(Entries \X Int)
      /\ l1[1] = r1 /\ l[1] = r1 /\ l[2] = r2
  BY <1>1
<1> HIDE DEF l0, l1
<1>3. Play(d, l0, 0) = d /\ Play(d, l, 0) = d
  BY PlayNone
<1>4. Play(d, l1, 1) = d1
  <2>1. Len(l0) \in Nat /\ l1[Len(l0) + 1] = <<e1, x1>> /\ \A i \in 1..Len(l0) : l1[i] = l0[i]
    BY <1>2 DEF r1
  <2>2. Extends(l1, l0, e1, x1)
    BY <2>1, Zenon DEF Extends
  <2>3. Play(d, l1, Len(l0) + 1) = [Play(d, l0, Len(l0)) EXCEPT ![e1] = x1]
    BY <2>2, PlayOneMore
  <2>4. QED
    BY <1>2, <1>3, <2>3
<1> HIDE DEF d1
<1>5. Play(d, l, 1) = d1 /\ Play(d, l, 2) = [d1 EXCEPT ![e2] = x2]
  <2>1. Len(l1) \in Nat /\ l[Len(l1) + 1] = <<e2, x2>> /\ \A i \in 1..Len(l1) : l[i] = l1[i]
    BY <1>2 DEF r2
  <2>2. Extends(l, l1, e2, x2)
    BY <2>1, Zenon DEF Extends
  <2>3. /\ \A n \in 0..Len(l1) : Play(d, l, n) = Play(d, l1, n)
        /\ Play(d, l, Len(l1) + 1) = [Play(d, l1, Len(l1)) EXCEPT ![e2] = x2]
    BY <2>2, PlayOneMore
  <2>4. QED
    BY <1>2, <1>4, <2>3
<1>6. QED
  BY <1>2, <1>3, <1>5 DEF d1, With

(* A new key and its activation, written on top of files that name no key. *)
FirstUse(d, l, i, ks, ks2, g) ==
    /\ Good(d, ks, g) /\ ks \subseteq ks2 /\ d[ActiveEntry] = Absent
    /\ i \in ks2 /\ i \in KeyIds /\ l = Two(KeyEntry(i), 1, ActiveEntry, i)

LEMMA ImageTwo ==
  ASSUME NEW d, NEW l, NEW i, NEW ks, NEW ks2, NEW g, FirstUse(d, l, i, ks, ks2, g)
  PROVE  /\ Play(d, l, 2) = With(With(d, KeyEntry(i), 1), ActiveEntry, i)
         /\ Play(d, l, 2) \in [Entries -> Values]
         /\ Len(l) = 2 /\ l \in Seq(Entries \X Int)
         /\ \A n \in 0..Len(l) : Good(Play(d, l, n), ks2, g)
<1> DEFINE d1 == With(d, KeyEntry(i), 1)
           d2 == With(d1, ActiveEntry, i)
<1>0. /\ Good(d, ks, g) /\ ks \subseteq ks2 /\ d[ActiveEntry] = Absent
      /\ i \in ks2 /\ i \in KeyIds /\ l = Two(KeyEntry(i), 1, ActiveEntry, i)
  BY DEF FirstUse
<1>1. /\ KeyEntry(i) \in Entries /\ ActiveEntry \in Entries /\ ActiveEntry # KeyEntry(i)
      /\ 1 \in Values /\ i \in Values /\ 1 # Absent /\ i # Absent
  <2>1. i \in Nat /\ 1 \in Nat /\ 1 # Absent /\ i # Absent
    BY <1>0, Numbers DEF Absent
  <2>2. KeyEntry(i) \in Entries /\ ActiveEntry \in Entries /\ ActiveEntry # KeyEntry(i)
    BY <1>0, EntryKinds
  <2>3. QED
    BY <2>1, <2>2 DEF Values
<1>2. d \in [Entries -> Values]
  BY <1>0 DEF Good
<1>3. /\ Play(d, l, 0) = d /\ Play(d, l, 1) = d1 /\ Play(d, l, 2) = d2
      /\ Len(l) = 2 /\ l \in Seq(Entries \X Int)
  BY <1>0, <1>1, <1>2, TwoWrites
<1>4. /\ d1 \in [Entries -> Values] /\ d2 \in [Entries -> Values]
      /\ d1[ActiveEntry] = Absent /\ d2[ActiveEntry] = i /\ d2[KeyEntry(i)] = 1
  BY <1>0, <1>1, <1>2 DEF With
<1> HIDE DEF d1, d2
<1>5. Good(d, ks2, g) /\ Good(d1, ks2, g) /\ Good(d2, ks2, g)
  BY <1>0, <1>1, <1>4, GoodStays DEF Good
<1>6. \A n \in 0..2 : n = 0 \/ n = 1 \/ n = 2
  OBVIOUS
<1>7. \A n \in 0..2 : Good(Play(d, l, n), ks2, g)
  BY <1>3, <1>5, <1>6
<1>8. QED
  BY <1>3, <1>4, <1>7 DEF d1, d2

LEMMA ImageNewKey ==
  ASSUME TypeOK, CacheInv, ImageInv, phase = "down", StartWithNewKey,
         UNCHANGED <<disk, gone, loose>>
  PROVE  /\ Latest' = kv' /\ kv' \in [Entries -> Values] /\ ImageInv'
         /\ kv' = [disk EXCEPT ![KeyEntry(NewKey)] = 1, ![ActiveEntry] = NewKey]
         /\ log' \in Seq(Entries \X Int)
         /\ DOMAIN keys' = DOMAIN keys \cup {NewKey} /\ NewKey \notin DOMAIN keys
         /\ keys' \in Seq(0..MaxTime) /\ Len(keys') = NewKey /\ NewKey \in KeyIds
<1>1. /\ NewKey \in KeyIds /\ keys' = Append(keys, now) /\ disk[ActiveEntry] = Absent
      /\ log' = Two(KeyEntry(NewKey), 1, ActiveEntry, NewKey)
      /\ kv' = With(With(disk, KeyEntry(NewKey), 1), ActiveEntry, NewKey)
  BY DEF StartWithNewKey, Two, With
<1>2. Good(disk, DOMAIN keys, gone)
  BY DownImage
<1>3. /\ keys \in Seq(0..MaxTime) /\ now \in 0..MaxTime /\ Len(keys) \in Nat
      /\ DOMAIN keys = 1..Len(keys)
  BY LogTypes, LenProperties DEF TypeOK
<1>4. /\ keys' \in Seq(0..MaxTime) /\ Len(keys') = NewKey /\ DOMAIN keys' = DOMAIN keys \cup {NewKey}
      /\ NewKey \notin DOMAIN keys
  BY <1>1, <1>3, AppendProperties DEF NewKey
<1>5. FirstUse(disk, log', NewKey, DOMAIN keys, DOMAIN keys', gone)
  <2>1. DOMAIN keys \subseteq DOMAIN keys' /\ NewKey \in DOMAIN keys'
    BY <1>4
  <2>2. QED
    BY <1>1, <1>2, <2>1, Zenon DEF FirstUse
<1>6. /\ Play(disk, log', 2) = kv' /\ kv' \in [Entries -> Values]
      /\ Len(log') = 2 /\ log' \in Seq(Entries \X Int)
      /\ \A n \in 0..Len(log') : Good(Play(disk, log', n), DOMAIN keys', gone)
  BY <1>1, <1>5, ImageTwo
<1>7. \A n : Replay(n)' = Play(disk, log', n)
  BY DEF Replay, Play
<1>8. Latest' = Play(disk, log', Len(log'))
  BY DEF Latest, Replay, Play
<1>9. ImageInv'
  BY <1>6, <1>7 DEF ImageInv
<1>10. QED
  BY <1>1, <1>4, <1>6, <1>8, <1>9 DEF With

-----------------------------------------------------------------------------
(* Records.                                                                *)

LEMMA StoredFacts ==
  ASSUME TypeOK, RecordInv, NEW e \in Entries, NEW x \in Values, Stored(e, x), phase' = phase
  PROVE  /\ kv' \in [Entries -> Values] /\ Unsure \subseteq Unsure'
         /\ phase' = "up" => \A f \in Entries \ Unsure' : kv'[f] = Latest'[f]
         /\ \A f \in Entries \ {e} : Latest'[f] = Latest[f]
         /\ e \notin Unsure' => Latest'[e] = x
<1>1. kv \in [Entries -> Values] /\ (phase = "up" => \A f \in Entries \ Unsure : kv[f] = Latest[f])
  BY DEF RecordInv
<1>2. /\ kv' = [kv EXCEPT ![e] = x] /\ loose' = loose /\ gone \subseteq gone'
      /\ \A f \in Entries \ {e} : Latest'[f] = Latest[f]
      /\ Latest'[e] = x \/ e \in gone'
  BY DEF Stored
<1>3. Unsure \subseteq Unsure' /\ (e \notin Unsure' => Latest'[e] = x)
  BY <1>2 DEF Unsure
<1> HIDE DEF Latest, Unsure
<1>4. QED
  BY <1>1, <1>2, <1>3

LEMMA KeyRange ==
  TypeOK /\ CacheInv => /\ DOMAIN keys \subseteq KeyIds /\ revoked \subseteq TokenIds
                       /\ DOMAIN tokens \subseteq TokenIds
<1> SUFFICES ASSUME TypeOK, CacheInv
             PROVE  /\ DOMAIN keys \subseteq KeyIds /\ revoked \subseteq TokenIds
                    /\ DOMAIN tokens \subseteq TokenIds
  OBVIOUS
<1>1. DOMAIN keys = 1..Len(keys) /\ Len(keys) \in KeyIds /\ MaxKeys \in Nat
  BY LogTypes, Numbers
<1>2. DOMAIN keys \subseteq KeyIds
  BY <1>1 DEF KeyIds
<1>3. QED
  BY <1>2, LogTypes DEF TypeOK

(* The new key is stored before it is the active one. *)
LEMMA RecordRotate ==
  ASSUME TypeOK, CacheInv, ImageInv, RecordInv, RotateKey
  PROVE  RecordInv'
<1> DEFINE e == KeyEntry(NewKey)
<1>1. /\ Stored(e, 1) /\ DOMAIN keys' = DOMAIN keys \cup {NewKey} /\ NewKey \notin DOMAIN keys
      /\ NewKey \in KeyIds
  BY ImageKeys
<1>2. phase' = phase /\ active' = NewKey /\ UNCHANGED <<tokens, revoked, versions>>
  BY DEF RotateKey, ended
<1>3. e \in Entries /\ 1 \in Values /\ 1 # Absent
  BY <1>1, EntryKinds DEF Values, Absent
<1>4. /\ kv' \in [Entries -> Values] /\ Unsure \subseteq Unsure'
      /\ phase' = "up" => \A f \in Entries \ Unsure' : kv'[f] = Latest'[f]
      /\ \A f \in Entries \ {e} : Latest'[f] = Latest[f]
      /\ e \notin Unsure' => Latest'[e] = 1
      /\ e \in gone' \/ Latest'[e] = 1
  BY <1>1, <1>2, <1>3, StoredFacts DEF Stored
<1> HIDE DEF Latest, Unsure
<1>5. \A k \in DOMAIN keys' : KeyEntry(k) \notin Unsure' => Latest'[KeyEntry(k)] # Absent
  <2>1. ASSUME NEW k \in DOMAIN keys, KeyEntry(k) \notin Unsure'
        PROVE  Latest'[KeyEntry(k)] # Absent
    <3>1. KeyEntry(k) \in Entries \ {e}
      BY <1>1, EntryKinds, KeyRange
    <3>2. QED
      BY <1>4, <2>1, <3>1 DEF RecordInv
  <2>2. QED
    BY <1>1, <1>3, <1>4, <2>1
<1>6. \A s \in Subjects : VersionEntry(s) \in Entries \ {e}
  BY EntryKinds
<1>7. \A t \in revoked : BlackEntry(t) \in Entries \ {e}
  BY EntryKinds, KeyRange
<1>8. \A s \in Subjects : VersionEntry(s) \notin Unsure' =>
         Latest'[VersionEntry(s)] = versions'[s] \/ (Latest'[VersionEntry(s)] = Absent /\ versions'[s] = 0)
  BY <1>2, <1>4, <1>6 DEF RecordInv
<1>9. \A t \in revoked' : BlackEntry(t) \notin Unsure' =>
         Latest'[BlackEntry(t)] \in {Never, tokens'[t].exp * TicksPerSecond}
  BY <1>2, <1>4, <1>7 DEF RecordInv
<1>10. Latest'[KeyEntry(active')] # Absent \/ KeyEntry(active') \in gone'
  BY <1>2, <1>3, <1>4
<1>11. QED
  BY <1>4, <1>5, <1>8, <1>9, <1>10 DEF RecordInv

(* Any other write or eviction: what is said of entries but this one stays. *)
LEMMA RecordOne ==
  ASSUME TypeOK, CacheInv, RecordInv, NEW e \in Entries, NEW x \in Values, Stored(e, x),
         phase' = phase, UNCHANGED <<keys, active, tokens>>, x # Absent \/ e \in gone',
         mu' = "rotating" => mu = "rotating",
         \A s \in Subjects : VersionEntry(s) # e => versions'[s] = versions[s],
         \A s \in Subjects : VersionEntry(s) = e => versions'[s] = x \/ e \in Unsure',
         \A t \in revoked' : BlackEntry(t) # e => t \in revoked,
         \A t \in revoked' : BlackEntry(t) = e =>
             x \in {Never, tokens[t].exp * TicksPerSecond} \/ e \in Unsure',
         revoked' \subseteq TokenIds
  PROVE  RecordInv'
<1>1. /\ kv' \in [Entries -> Values] /\ Unsure \subseteq Unsure'
      /\ phase' = "up" => \A f \in Entries \ Unsure' : kv'[f] = Latest'[f]
      /\ \A f \in Entries \ {e} : Latest'[f] = Latest[f]
      /\ e \notin Unsure' => Latest'[e] = x
      /\ e \in gone' \/ Latest'[e] = x
  BY StoredFacts DEF Stored
<1>2. gone \subseteq gone' /\ gone' \subseteq Unsure'
  BY DEF Stored, Unsure
<1> HIDE DEF Latest, Unsure
<1>3. ASSUME NEW k \in DOMAIN keys, KeyEntry(k) \notin Unsure'
      PROVE  Latest'[KeyEntry(k)] # Absent
  <2>1. KeyEntry(k) \in Entries
    BY EntryKinds, KeyRange
  <2>2. CASE KeyEntry(k) = e
    BY <1>1, <1>2, <1>3, <2>2
  <2>3. CASE KeyEntry(k) # e
    BY <1>1, <1>3, <2>1, <2>3 DEF RecordInv
  <2>4. QED
    BY <2>2, <2>3
<1>4. ASSUME mu' = "rotating" PROVE Latest'[KeyEntry(active)] # Absent \/ KeyEntry(active) \in gone'
  <2>1. KeyEntry(active) \in Entries
    BY EntryKinds DEF TypeOK
  <2>2. Latest[KeyEntry(active)] # Absent \/ KeyEntry(active) \in gone
    BY <1>4 DEF RecordInv
  <2>3. QED
    BY <1>1, <1>2, <2>1, <2>2
<1>5. ASSUME NEW s \in Subjects, VersionEntry(s) \notin Unsure'
      PROVE  Latest'[VersionEntry(s)] = versions'[s] \/ (Latest'[VersionEntry(s)] = Absent /\ versions'[s] = 0)
  <2>1. VersionEntry(s) \in Entries
    BY EntryKinds
  <2>2. CASE VersionEntry(s) = e
    <3>1. e \notin Unsure' /\ Latest'[e] = x
      BY <1>1, <1>5, <2>2
    <3>2. versions'[s] = x
      BY <2>2, <3>1
    <3>3. Latest'[VersionEntry(s)] = x
      BY <2>2, <3>1, Zenon
    <3>4. QED
      BY <3>2, <3>3, Zenon
  <2>3. CASE VersionEntry(s) # e
    BY <1>1, <1>5, <2>1, <2>3 DEF RecordInv
  <2>4. QED
    BY <2>2, <2>3
<1>6. ASSUME NEW t \in revoked', BlackEntry(t) \notin Unsure'
      PROVE  Latest'[BlackEntry(t)] \in {Never, tokens[t].exp * TicksPerSecond}
  <2>1. BlackEntry(t) \in Entries
    BY EntryKinds
  <2>2. CASE BlackEntry(t) = e
    BY <1>1, <1>2, <1>6, <2>2
  <2>3. CASE BlackEntry(t) # e
    <3>1. t \in revoked /\ BlackEntry(t) \notin Unsure
      BY <1>1, <1>2, <1>6, <2>3
    <3>2. QED
      BY <1>1, <2>1, <2>3, <3>1 DEF RecordInv
  <2>4. QED
    BY <2>2, <2>3
<1>7. QED
  BY <1>1, <1>3, <1>4, <1>5, <1>6 DEF RecordInv

LEMMA RecordActivate ==
  ASSUME TypeOK, CacheInv, ImageInv, RecordInv, ActivateKey, phase = "up"
  PROVE  RecordInv'
<1>1. Stored(ActiveEntry, active) /\ ActiveEntry \in Entries
  BY ImageActivate, EntryKinds
<1>2. mu' = "free" /\ phase' = phase /\ UNCHANGED <<active, keys, tokens, revoked, versions>>
  BY DEF ActivateKey, issued, ended
<1>3. active \in Values /\ active # Absent
  <2>1. active \in KeyIds
    BY DEF TypeOK
  <2>2. QED
    BY <2>1, Numbers DEF Values, Absent
<1>4. /\ \A s \in Subjects : VersionEntry(s) # ActiveEntry
      /\ \A t \in revoked : BlackEntry(t) # ActiveEntry /\ revoked \subseteq TokenIds
  BY EntryKinds, KeyRange
<1>5. revoked \subseteq TokenIds
  BY KeyRange
<1> HIDE DEF Stored
<1>6. QED
  BY <1>1, <1>2, <1>3, <1>4, <1>5, RecordOne

(* CurrentVersion is what was counted, unless the store lost it. *)
LEMMA VersionType ==
  ASSUME TypeOK, RecordInv, NEW s \in Subjects
  PROVE  /\ CurrentVersion(s) \in Nat
         /\ phase = "up" /\ VersionEntry(s) \notin Unsure => CurrentVersion(s) = versions[s]
<1>1. kv[VersionEntry(s)] \in Values /\ VersionEntry(s) \in Entries
  BY EntryKinds DEF RecordInv
<1>2. phase = "up" /\ VersionEntry(s) \notin Unsure =>
        /\ kv[VersionEntry(s)] = Latest[VersionEntry(s)]
        /\ Latest[VersionEntry(s)] = versions[s] \/ (Latest[VersionEntry(s)] = Absent /\ versions[s] = 0)
  BY <1>1 DEF RecordInv
<1>3. kv[VersionEntry(s)] \in Nat \/ kv[VersionEntry(s)] = Absent
  BY <1>1 DEF Values
<1>4. CurrentVersion(s) \in Nat
  BY <1>3 DEF CurrentVersion, Get, Absent
<1>5. ASSUME phase = "up", VersionEntry(s) \notin Unsure PROVE CurrentVersion(s) = versions[s]
  <2>1. versions \in [Subjects -> Nat]
    BY Zenon DEF TypeOK
  <2>2. versions[s] # Absent
    BY <2>1 DEF Absent
  <2>3. QED
    BY <1>2, <1>5, <2>2 DEF CurrentVersion, Get
<1>6. QED
  BY <1>4, <1>5

LEMMA RecordIncrement ==
  ASSUME TypeOK, CacheInv, ImageInv, RecordInv, NEW s \in Subjects, Increment(s)
  PROVE  RecordInv' /\ ImageInv' /\ Stored(VersionEntry(s), CurrentVersion(s) + 1) /\ crashes' = crashes
<1> DEFINE e == VersionEntry(s)
           x == CurrentVersion(s) + 1
<1>1. /\ Put(e, x) /\ phase = "up" /\ phase' = phase /\ mu' = mu
      /\ UNCHANGED <<active, keys, tokens, revoked>> /\ versions' = [versions EXCEPT ![s] = @ + 1]
  BY DEF Increment, manager, issued
<1>2. /\ CurrentVersion(s) \in Nat /\ x \in Nat /\ x \in Values /\ x # Absent
      /\ VersionEntry(s) \notin Unsure => CurrentVersion(s) = versions[s]
  BY <1>1, VersionType DEF Values, Absent
<1>3. e \in Entries /\ e # ActiveEntry /\ \A i \in KeyIds : e # KeyEntry(i)
  BY EntryKinds
<1> HIDE DEF e, x
<1>4. Stored(e, x) /\ crashes' = crashes
  BY <1>1, <1>2, <1>3, ImageOther
<1>5. versions \in [Subjects -> Nat] /\ revoked \subseteq TokenIds
  BY KeyRange DEF TypeOK
<1>6. ASSUME NEW u \in Subjects PROVE (VersionEntry(u) = e) <=> u = s
  BY EntryKinds DEF e
<1>7. \A t \in revoked' : BlackEntry(t) # e
  BY <1>1, <1>5, EntryKinds DEF e
<1>8. /\ \A u \in Subjects : VersionEntry(u) # e => versions'[u] = versions[u]
      /\ \A u \in Subjects : VersionEntry(u) = e => versions'[u] = x \/ e \in Unsure'
  <2>1. Unsure \subseteq Unsure'
    BY <1>4 DEF Stored, Unsure
  <2>2. versions'[s] = versions[s] + 1 /\ \A u \in Subjects \ {s} : versions'[u] = versions[u]
    BY <1>1, <1>5
  <2>3. versions'[s] = x \/ e \in Unsure
    BY <1>2, <2>2 DEF e, x
  <2>4. QED
    BY <1>6, <2>1, <2>2, <2>3
<1>9. RecordInv'
  <2> HIDE DEF Stored, Unsure
  <2>1. QED
    BY <1>1, <1>2, <1>3, <1>4, <1>5, <1>7, <1>8, RecordOne
<1>10. QED
  BY <1>4, <1>9 DEF e, x, Stored

LEMMA RecordRevoke ==
  ASSUME TypeOK, CacheInv, ImageInv, RecordInv, NEW t \in DOMAIN tokens, RevokeToken(t)
  PROVE  RecordInv' /\ ImageInv' /\ crashes' = crashes /\ \E x \in Values : Stored(BlackEntry(t), x)
<1> DEFINE e == BlackEntry(t)
           end == tokens[t].exp * TicksPerSecond
           x == IF end <= now THEN Never ELSE end
<1>1. /\ Put(e, x) /\ phase' = phase /\ mu' = mu /\ revoked' = revoked \cup {t}
      /\ UNCHANGED <<active, keys, tokens, versions>>
  BY DEF RevokeToken, manager, issued
<1>2. t \in TokenIds /\ revoked \subseteq TokenIds
  BY KeyRange
<1>3. end \in Nat
  <2>1. tokens[t] \in Token
    BY LogTypes
  <2>2. tokens[t].exp \in Nat
    BY <2>1 DEF Token
  <2>3. QED
    BY <2>2, Seconds
<1>4. x \in Values /\ x # Absent /\ x \in {Never, end}
  BY <1>3 DEF Values, Absent, Never
<1>5. e \in Entries /\ e # ActiveEntry /\ \A i \in KeyIds : e # KeyEntry(i)
  BY <1>2, EntryKinds
<1>6. /\ \A s \in Subjects : VersionEntry(s) # e
      /\ \A u : BlackEntry(u) = e => u = t
  BY EntryKinds
<1> HIDE DEF x, e
<1>7. Stored(e, x) /\ crashes' = crashes
  BY <1>1, <1>4, <1>5, ImageOther
<1>8. /\ \A u \in revoked' : BlackEntry(u) # e => u \in revoked
      /\ \A u \in revoked' : BlackEntry(u) = e => x \in {Never, tokens[u].exp * TicksPerSecond}
      /\ revoked' \subseteq TokenIds
  <2>1. \A u \in revoked' : BlackEntry(u) # e => u \in revoked
    BY <1>1 DEF e
  <2>2. \A u \in revoked' : BlackEntry(u) = e => x \in {Never, tokens[u].exp * TicksPerSecond}
    BY <1>4, <1>6
  <2>3. QED
    BY <1>1, <1>2, <2>1, <2>2
<1>9. RecordInv'
  <2> HIDE DEF Stored, Unsure, end
  <2>1. QED
    BY <1>1, <1>4, <1>5, <1>6, <1>7, <1>8, RecordOne
<1>10. ImageInv'
  BY <1>7 DEF Stored
<1> HIDE DEF Stored
<1>11. QED
  BY <1>4, <1>7, <1>9, <1>10 DEF e

LEMMA RecordEvict ==
  ASSUME TypeOK, CacheInv, ImageInv, RecordInv, NEW e \in Entries, Evict(e)
  PROVE  RecordInv' /\ Stored(e, Absent) /\ crashes' = crashes
<1>1. Stored(e, Absent) /\ e \in gone' /\ crashes' = crashes
  BY EvictStored
<1>2. /\ phase' = phase /\ mu' = mu
      /\ UNCHANGED <<active, keys, tokens, versions, revoked>>
  BY DEF Evict, manager, issued, ended
<1>3. revoked \subseteq TokenIds /\ Absent \in Values /\ e \in Unsure'
  BY <1>1, KeyRange DEF Values, Unsure
<1> HIDE DEF Stored, Unsure
<1>4. RecordInv'
  BY <1>1, <1>2, <1>3, RecordOne
<1>5. QED
  BY <1>1, <1>4

(* Steps that leave the store alone. *)
LEMMA RecordSame ==
  ASSUME RecordInv, UNCHANGED <<store, phase, gone, loose, keys, revoked, versions, active>>,
         mu' = "rotating" => mu = "rotating", \A t \in revoked : tokens'[t] = tokens[t]
  PROVE  RecordInv'
<1>1. Latest' = Latest /\ kv' = kv
  BY StoreSame DEF store
<1>2. Unsure' = Unsure
  BY DEF Unsure
<1> HIDE DEF Latest, Unsure
<1>3. QED
  BY <1>1, <1>2 DEF RecordInv

LEMMA RecordClose ==
  ASSUME TypeOK, ImageInv, RecordInv, CloseStore
  PROVE  RecordInv' /\ ImageInv' /\ disk' \in [Entries -> Values]
<1>1. /\ disk' = Replay(Len(log)) /\ log' = <<>> /\ phase' = "closed"
      /\ UNCHANGED <<kv, mu, active, keys, tokens, revoked, versions, gone, loose>>
  BY DEF CloseStore, manager, issued, ended, losses
<1>2. Len(log) \in 0..Len(log)
  BY LogTypes
<1>3. disk' \in [Entries -> Values] /\ Latest' = Latest /\ ImageInv'
  BY <1>1, <1>2, StoreEnds DEF Latest
<1>4. Unsure' = Unsure
  BY <1>1 DEF Unsure
<1> HIDE DEF Latest, Unsure
<1>5. RecordInv'
  BY <1>1, <1>3, <1>4 DEF RecordInv
<1>6. QED
  BY <1>3, <1>5

LEMMA RecordEnd ==
  ASSUME TypeOK, ImageInv, RecordInv, CacheInv, End
  PROVE  RecordInv' /\ ImageInv' /\ disk' \in [Entries -> Values] /\ loose' \subseteq Entries
<1>1. PICK n \in 0..Len(log) : /\ disk' = Replay(n)
                              /\ loose' = loose \cup {log[i][1] : i \in (n + 1)..Len(log)}
  BY DEF End
<1>2. /\ log' = <<>> /\ phase' = "down" /\ mu' = "free" /\ kv' = NoEntries
      /\ UNCHANGED <<keys, tokens, revoked, versions, gone>>
  BY DEF End, issued, ended
<1>3. disk' \in [Entries -> Values] /\ Latest' = Replay(n) /\ ImageInv'
  BY <1>1, <1>2, StoreEnds
<1>4. log \in Seq(Entries \X Int) /\ Len(log) \in Nat /\ loose \subseteq Entries
  BY LogTypes DEF TypeOK
<1>5. loose' \subseteq Entries
  <2>1. \A i \in (n + 1)..Len(log) : i \in 1..Len(log)
    BY <1>1, <1>4
  <2>2. \A i \in 1..Len(log) : log[i] \in Entries \X Int
    BY <1>4
  <2>3. \A i \in (n + 1)..Len(log) : log[i][1] \in Entries
    BY <2>1, <2>2
  <2>4. QED
    BY <1>1, <1>4, <2>3
<1>6. Unsure \subseteq Unsure'
  BY <1>1, <1>2 DEF Unsure
<1>7. ASSUME NEW e \in Entries, e \notin Unsure' PROVE Latest'[e] = Latest[e]
  <2>1. e \notin {log[i][1] : i \in (n + 1)..Len(log)}
    BY <1>1, <1>7 DEF Unsure
  <2>2. Play(disk, log, n)[e] = Play(disk, log, Len(log))[e]
    BY <1>4, <2>1, PlayTail
  <2>3. QED
    BY <1>3, <2>2, ReplayIsPlay DEF Latest
<1>8. /\ \A k \in DOMAIN keys : KeyEntry(k) \in Entries
      /\ \A s \in Subjects : VersionEntry(s) \in Entries
      /\ \A t \in revoked : BlackEntry(t) \in Entries
  BY EntryKinds, KeyRange
<1>9. kv' \in [Entries -> Values]
  BY <1>2 DEF NoEntries, Values
<1> HIDE DEF Latest, Unsure
<1>10. \A k \in DOMAIN keys : KeyEntry(k) \notin Unsure' => Latest'[KeyEntry(k)] # Absent
  BY <1>6, <1>7, <1>8 DEF RecordInv
<1>11. \A s \in Subjects : VersionEntry(s) \notin Unsure' =>
         Latest'[VersionEntry(s)] = versions[s] \/ (Latest'[VersionEntry(s)] = Absent /\ versions[s] = 0)
  BY <1>6, <1>7, <1>8 DEF RecordInv
<1>12. \A t \in revoked : BlackEntry(t) \notin Unsure' =>
         Latest'[BlackEntry(t)] \in {Never, tokens[t].exp * TicksPerSecond}
  BY <1>6, <1>7, <1>8 DEF RecordInv
<1>13. RecordInv'
  BY <1>2, <1>9, <1>10, <1>11, <1>12 DEF RecordInv
<1>14. QED
  BY <1>3, <1>5, <1>13

LEMMA RecordStart ==
  ASSUME TypeOK, ImageInv, RecordInv, CacheInv, Start
  PROVE  RecordInv' /\ ImageInv'
<1>1. /\ phase = "down" /\ phase' = "up"
      /\ UNCHANGED <<disk, mu, tokens, revoked, versions, gone, loose>>
  BY DEF Start, ended, losses
<1>2. log = <<>> /\ mu = "free" /\ Latest = disk /\ Good(disk, DOMAIN keys, gone)
  BY <1>1, DownImage
<1>3. Unsure' = Unsure
  BY <1>1 DEF Unsure
<1>4. CASE StartWithActive
  <2>1. kv' = disk /\ UNCHANGED <<log, keys>>
    BY <1>4 DEF StartWithActive
  <2>2. Latest' = Latest /\ ImageInv'
    BY <1>1, <2>1, StoreSame, ImagesSame
  <2>3. kv' \in [Entries -> Values]
    BY <1>2, <2>1 DEF Good
  <2> HIDE DEF Latest, Unsure
  <2>4. RecordInv'
    BY <1>1, <1>2, <1>3, <2>1, <2>2, <2>3 DEF RecordInv
  <2>5. QED
    BY <2>2, <2>4
<1>5. CASE StartWithNewKey
  <2> DEFINE e == KeyEntry(NewKey)
  <2>1. /\ Latest' = kv' /\ kv' \in [Entries -> Values] /\ ImageInv'
        /\ kv' = [disk EXCEPT ![e] = 1, ![ActiveEntry] = NewKey]
        /\ DOMAIN keys' = DOMAIN keys \cup {NewKey} /\ NewKey \in KeyIds
    BY <1>1, <1>5, ImageNewKey
  <2>2. /\ e \in Entries /\ e # ActiveEntry /\ disk \in [Entries -> Values] /\ 1 # Absent
    BY <1>2, <2>1, EntryKinds DEF Good, Absent
  <2>3. Latest'[e] = 1 /\ \A f \in Entries \ {e, ActiveEntry} : Latest'[f] = Latest[f]
    BY <1>2, <2>1, <2>2
  <2>4. /\ \A k \in DOMAIN keys : KeyEntry(k) \in Entries \ {ActiveEntry}
        /\ \A s \in Subjects : VersionEntry(s) \in Entries \ {e, ActiveEntry}
        /\ \A t \in revoked : BlackEntry(t) \in Entries \ {e, ActiveEntry}
    BY EntryKinds, KeyRange
  <2> HIDE DEF Latest, Unsure, e
  <2>5. \A k \in DOMAIN keys' : KeyEntry(k) \notin Unsure' => Latest'[KeyEntry(k)] # Absent
    BY <1>3, <2>1, <2>2, <2>3, <2>4 DEF RecordInv, e
  <2>6. \A s \in Subjects : VersionEntry(s) \notin Unsure' =>
           Latest'[VersionEntry(s)] = versions[s] \/ (Latest'[VersionEntry(s)] = Absent /\ versions[s] = 0)
    BY <1>3, <2>3, <2>4 DEF RecordInv
  <2>7. \A t \in revoked : BlackEntry(t) \notin Unsure' =>
           Latest'[BlackEntry(t)] \in {Never, tokens[t].exp * TicksPerSecond}
    BY <1>3, <2>3, <2>4 DEF RecordInv
  <2>8. RecordInv'
    BY <1>1, <1>2, <2>1, <2>5, <2>6, <2>7 DEF RecordInv
  <2>9. QED
    BY <2>1, <2>8
<1>6. QED
  BY <1>4, <1>5 DEF Start

LEMMA RecordInit == Init => RecordInv /\ ImageInv
<1> SUFFICES ASSUME Init PROVE RecordInv /\ ImageInv
  OBVIOUS
<1>1. /\ disk = NoEntries /\ keys = <<now>> /\ phase = "up" /\ mu = "free"
      /\ log = Two(KeyEntry(1), 1, ActiveEntry, 1)
      /\ kv = With(With(disk, KeyEntry(1), 1), ActiveEntry, 1)
      /\ tokens = <<>> /\ revoked = {} /\ versions = [s \in Subjects |-> 0]
      /\ gone = {} /\ loose = {}
  BY DEF Init, Two, With
<1>2. /\ 1 \in KeyIds /\ ActiveEntry \in Entries /\ KeyEntry(1) \in Entries
      /\ ActiveEntry # KeyEntry(1) /\ 1 # Absent
  BY EntryKinds, Numbers DEF Absent
<1>3. disk \in [Entries -> Values] /\ \A e \in Entries : disk[e] = Absent
  BY <1>1 DEF NoEntries, Values
<1>4. DOMAIN keys = {1}
  BY <1>1
<1>5. FirstUse(disk, log, 1, {}, DOMAIN keys, gone)
  BY <1>1, <1>2, <1>3, <1>4 DEF FirstUse, Good
<1>6. /\ Play(disk, log, 2) = kv /\ kv \in [Entries -> Values] /\ Len(log) = 2
      /\ \A n \in 0..Len(log) : Good(Play(disk, log, n), DOMAIN keys, gone)
  BY <1>1, <1>5, ImageTwo
<1>7. Latest = kv /\ ImageInv
  BY <1>6, ReplayIsPlay DEF Latest, ImageInv
<1>8. kv[KeyEntry(1)] = 1 /\ \A e \in Entries \ {KeyEntry(1), ActiveEntry} : kv[e] = Absent
  BY <1>1, <1>2, <1>3 DEF With
<1>9. \A s \in Subjects : VersionEntry(s) \in Entries \ {KeyEntry(1), ActiveEntry}
  BY EntryKinds
<1> HIDE DEF Latest
<1>10. RecordInv
  BY <1>1, <1>2, <1>4, <1>6, <1>7, <1>8, <1>9 DEF RecordInv
<1>11. QED
  BY <1>7, <1>10

-----------------------------------------------------------------------------
(* Every step keeps what is said of the store.                             *)

StoreTypes ==
    /\ kv \in [Entries -> Int] /\ disk \in [Entries -> Int]
    /\ log \in Seq(Entries \X Int)
    /\ gone \subseteq Entries /\ loose \subseteq Entries
    /\ crashes \in 0..MaxCrashes /\ lost \in 0..MaxLosses

StoreInv == RecordInv /\ ImageInv /\ StoreTypes

LEMMA ValuesAreInts == \A f : f \in [Entries -> Values] => f \in [Entries -> Int]
  BY DEF Values, Absent

LEMMA StoredTypes ==
  ASSUME TypeOK, RecordInv', NEW e, NEW x, Stored(e, x), crashes' = crashes
  PROVE  StoreInv'
<1>1. kv' \in [Entries -> Int]
  BY ValuesAreInts DEF RecordInv
<1>2. /\ disk \in [Entries -> Int] /\ loose \subseteq Entries /\ crashes \in 0..MaxCrashes
  BY Zenon DEF TypeOK
<1>3. /\ loose' = loose /\ gone' \subseteq Entries /\ disk' = disk
      /\ log' \in Seq(Entries \X Int) /\ lost' \in 0..MaxLosses /\ ImageInv'
  BY DEF Stored
<1>4. StoreTypes'
  BY <1>1, <1>2, <1>3 DEF StoreTypes
<1>5. QED
  BY <1>3, <1>4 DEF StoreInv

LEMMA QuietStore ==
  ASSUME TypeOK, RecordInv, ImageInv,
         UNCHANGED <<store, phase, losses, keys, revoked, versions, active>>,
         mu' = "rotating" => mu = "rotating", \A t \in revoked : tokens'[t] = tokens[t]
  PROVE  StoreInv'
<1>1. UNCHANGED <<kv, disk, log, gone, loose, crashes, lost>>
  BY DEF store, losses
<1>2. RecordInv' /\ ImageInv'
  BY <1>1, RecordSame, ImagesSame
<1>3. /\ kv \in [Entries -> Int] /\ disk \in [Entries -> Int] /\ log \in Seq(Entries \X Int)
      /\ gone \subseteq Entries /\ loose \subseteq Entries
      /\ crashes \in 0..MaxCrashes /\ lost \in 0..MaxLosses
  BY Zenon DEF TypeOK
<1>4. StoreTypes'
  BY <1>1, <1>3 DEF StoreTypes
<1>5. QED
  BY <1>2, <1>4 DEF StoreInv

(* The end of the store or of the process, and the start. *)
LEMMA EndedTypes ==
  ASSUME TypeOK, RecordInv', ImageInv', disk' \in [Entries -> Int], log' \in Seq(Entries \X Int),
         gone' = gone, lost' = lost, loose' \subseteq Entries, crashes' \in 0..MaxCrashes
  PROVE  StoreInv'
<1>1. kv' \in [Entries -> Int]
  BY ValuesAreInts DEF RecordInv
<1>2. gone \subseteq Entries /\ lost \in 0..MaxLosses
  BY Zenon DEF TypeOK
<1>3. StoreTypes'
  BY <1>1, <1>2 DEF StoreTypes
<1>4. QED
  BY <1>3 DEF StoreInv

(* A token that is issued is the last of the tokens. *)
LEMMA TokensGrow ==
  ASSUME TypeOK, RecordInv, NEW s \in Subjects, GenerateToken(s)
  PROVE  /\ tokens' \in Seq(Token) /\ Len(tokens') = Len(tokens) + 1 /\ Len(tokens') <= MaxTokens
         /\ DOMAIN tokens' = DOMAIN tokens \cup {Len(tokens) + 1}
         /\ \A t \in DOMAIN tokens : tokens'[t] = tokens[t]
         /\ tokens'[Len(tokens) + 1].key = active
<1>1. PICK ttl \in Lifetimes :
         tokens' = Append(tokens, [key |-> active, subject |-> s,
                                   version |-> CurrentVersion(s),
                                   exp |-> (now + ttl) \div TicksPerSecond])
  BY DEF GenerateToken
<1>2. Len(tokens) < MaxTokens
  BY DEF GenerateToken
<1>3. tokens \in Seq(Token) /\ Len(tokens) \in Nat /\ DOMAIN tokens = 1..Len(tokens)
  BY LogTypes
<1>4. active \in KeyIds /\ now \in 0..MaxTime
  BY Zenon DEF TypeOK
<1> DEFINE x == (now + ttl) \div TicksPerSecond
           n == CurrentVersion(s)
           new == [key |-> active, subject |-> s, version |-> n, exp |-> x]
<1>5. x \in Nat
  <2>1. now + ttl \in Nat
    BY <1>4, Numbers
  <2>2. QED
    BY <2>1, Seconds
<1>6. n \in Nat
  BY VersionType
<1> HIDE DEF x, n
<1>7. new \in Token /\ new.key = active
  BY <1>4, <1>5, <1>6 DEF Token
<1>8. tokens' = Append(tokens, new)
  BY <1>1 DEF x, n
<1> HIDE DEF new
<1>9. QED
  BY <1>2, <1>3, <1>7, <1>8, AppendProperties, Numbers

LEMMA StoreStep ==
  ASSUME TypeOK, ImageInv, RecordInv, CacheInv, [Next]_vars
  PROVE  StoreInv'
<1>1. CASE UNCHANGED vars
  <2>1. UNCHANGED <<store, phase, losses, keys, revoked, versions, active, mu, tokens>>
    BY <1>1 DEF vars, manager, issued, ended
  <2>2. QED
    BY <2>1, QuietStore
<1>2. CASE Tick
  <2>1. UNCHANGED <<store, phase, losses, keys, revoked, versions, active, mu, tokens>>
    BY <1>2 DEF Tick, manager, issued, ended
  <2>2. QED
    BY <2>1, QuietStore
<1>3. CASE CloseStore
  <2>1. RecordInv' /\ ImageInv' /\ disk' \in [Entries -> Int]
    BY <1>3, RecordClose, ValuesAreInts
  <2>2. log' = <<>> /\ UNCHANGED <<gone, loose, crashes, lost>>
    BY <1>3 DEF CloseStore, losses
  <2>3. loose \subseteq Entries /\ crashes \in 0..MaxCrashes
    BY Zenon DEF TypeOK
  <2>4. QED
    BY <2>1, <2>2, <2>3, EndedTypes
<1>4. CASE End
  <2>1. RecordInv' /\ ImageInv' /\ disk' \in [Entries -> Int] /\ loose' \subseteq Entries
    BY <1>4, RecordEnd, ValuesAreInts
  <2>2. log' = <<>> /\ UNCHANGED <<gone, lost>> /\ crashes < MaxCrashes /\ crashes' = crashes + 1
    BY <1>4 DEF End
  <2>3. crashes' \in 0..MaxCrashes
    <3>1. crashes \in 0..MaxCrashes
      BY Zenon DEF TypeOK
    <3>2. QED
      BY <2>2, <3>1, Numbers
  <2>4. QED
    BY <2>1, <2>2, <2>3, EndedTypes
<1>5. CASE Start
  <2>1. RecordInv' /\ ImageInv'
    BY <1>5, RecordStart
  <2>2. UNCHANGED <<disk, gone, loose, crashes, lost>> /\ phase = "down"
    BY <1>5 DEF Start, losses
  <2>3. /\ loose \subseteq Entries /\ crashes \in 0..MaxCrashes /\ disk \in [Entries -> Int]
        /\ log \in Seq(Entries \X Int)
    BY Zenon DEF TypeOK
  <2>4. log' \in Seq(Entries \X Int)
    <3>1. CASE StartWithActive
      BY <2>3, <3>1 DEF StartWithActive
    <3>2. CASE StartWithNewKey
      BY <2>2, <3>2, ImageNewKey
    <3>3. QED
      BY <1>5, <3>1, <3>2 DEF Start
  <2>5. QED
    BY <2>1, <2>2, <2>3, <2>4, EndedTypes
<1>6. ASSUME NEW e \in Entries, Evict(e) PROVE StoreInv'
  BY <1>6, RecordEvict, StoredTypes
<1>7. CASE RotateKey
  BY <1>7, RecordRotate, ImageKeys, StoredTypes
<1>8. CASE ActivateKey
  <2>1. CASE phase = "up"
    BY <1>8, <2>1, RecordActivate, ImageActivate, StoredTypes
  <2>2. CASE phase # "up"
    <3>1. /\ UNCHANGED <<store, phase, losses, keys, revoked, versions, active, tokens>>
          /\ mu' = "free"
      BY <1>8, <2>2 DEF ActivateKey, issued, ended
    <3>2. QED
      BY <3>1, QuietStore
  <2>3. QED
    BY <2>1, <2>2
<1>9. CASE GenerateLocksUp
  <2>1. /\ UNCHANGED <<store, phase, losses, keys, revoked, versions, active, tokens>>
        /\ mu' = "stuck"
    BY <1>9 DEF GenerateLocksUp, issued, ended
  <2>2. QED
    BY <2>1, QuietStore
<1>10. ASSUME NEW s \in Subjects, GenerateToken(s) PROVE StoreInv'
  <2>1. UNCHANGED <<store, phase, losses, keys, revoked, versions, active, mu>>
    BY <1>10 DEF GenerateToken, manager, ended
  <2>2. \A t \in revoked : tokens'[t] = tokens[t]
    BY <1>10, TokensGrow DEF CacheInv
  <2>3. QED
    BY <2>1, <2>2, QuietStore
<1>11. ASSUME NEW s \in Subjects, Increment(s) PROVE StoreInv'
  BY <1>11, RecordIncrement, StoredTypes
<1>12. ASSUME NEW t \in DOMAIN tokens, RevokeToken(t) PROVE StoreInv'
  BY <1>12, RecordRevoke, StoredTypes
<1>13. ASSUME NEW v \in Verifiers,
              \/ \E t \in DOMAIN tokens : VerifyParse(v, t)
              \/ VerifyBlacklist(v) \/ Accept(v) \/ Refuse(v)
       PROVE  StoreInv'
  <2>1. UNCHANGED <<store, phase, losses, keys, revoked, versions, active, mu, tokens>>
    BY <1>13 DEF VerifyParse, VerifyBlacklist, Accept, Refuse, manager, issued, ended
  <2>2. QED
    BY <2>1, QuietStore
<1>14. QED
  BY <1>1, <1>2, <1>3, <1>4, <1>5, <1>6, <1>7, <1>8, <1>9, <1>10, <1>11, <1>12, <1>13 DEF Next

-----------------------------------------------------------------------------
(* What never shrinks: the losses, the tokens and what was done to them.    *)

LEMMA PutGrows == ASSUME NEW e, NEW x, Put(e, x) PROVE gone \subseteq gone' /\ loose' = loose
  BY DEF Put, Lose

Older ==
    /\ gone \subseteq gone' /\ loose \subseteq loose'
    /\ DOMAIN tokens \subseteq DOMAIN tokens' /\ \A t \in DOMAIN tokens : tokens'[t] = tokens[t]
    /\ revoked \subseteq revoked' /\ \A s \in Subjects : versions[s] <= versions'[s]
    /\ now <= now' /\ now' \in 0..MaxTime

LEMMA Grows == ASSUME TypeOK, RecordInv, [Next]_vars PROVE Older
<1>1. now \in 0..MaxTime /\ versions \in [Subjects -> Nat] /\ MaxTime \in Nat
  BY Zenon, Numbers DEF TypeOK
<1>2. now <= now /\ \A s \in Subjects : versions[s] <= versions[s]
  BY <1>1
<1>3. ASSUME UNCHANGED <<gone, loose, tokens, revoked, versions, now>> PROVE Older
  BY <1>1, <1>2, <1>3 DEF Older
<1>4. CASE UNCHANGED vars
  BY <1>3, <1>4 DEF vars, issued, ended, losses
<1>5. CASE Tick
  <2>1. now' = now + 1 /\ now < MaxTime /\ UNCHANGED <<gone, loose, tokens, revoked, versions>>
    BY <1>5 DEF Tick, issued, ended, losses
  <2>2. now <= now' /\ now' \in 0..MaxTime
    BY <1>1, <2>1
  <2>3. QED
    BY <1>2, <2>1, <2>2 DEF Older
<1>6. CASE CloseStore
  BY <1>3, <1>6 DEF CloseStore, issued, ended, losses
<1>7. CASE End
  <2>1. loose \subseteq loose' /\ UNCHANGED <<gone, tokens, revoked, versions, now>>
    BY <1>7 DEF End, issued, ended
  <2>2. QED
    BY <1>1, <1>2, <2>1 DEF Older
<1>8. CASE Start
  BY <1>3, <1>8 DEF Start, ended, losses
<1>9. ASSUME NEW e \in Entries, Evict(e) PROVE Older
  <2>1. gone \subseteq gone' /\ UNCHANGED <<loose, tokens, revoked, versions, now>>
    BY <1>9 DEF Evict, Lose, issued, ended
  <2>2. QED
    BY <1>1, <1>2, <2>1 DEF Older
<1>10. CASE RotateKey
  <2>1. gone \subseteq gone' /\ UNCHANGED <<loose, tokens, revoked, versions, now>>
    BY <1>10, PutGrows DEF RotateKey, ended
  <2>2. QED
    BY <1>1, <1>2, <2>1 DEF Older
<1>11. CASE ActivateKey
  <2>1. UNCHANGED <<tokens, revoked, versions, now>>
    BY <1>11 DEF ActivateKey, issued, ended
  <2>2. gone \subseteq gone' /\ loose' = loose
    BY <1>11, PutGrows DEF ActivateKey, losses
  <2>3. QED
    BY <1>1, <1>2, <2>1, <2>2 DEF Older
<1>12. CASE GenerateLocksUp
  BY <1>3, <1>12 DEF GenerateLocksUp, issued, ended, losses
<1>13. ASSUME NEW s \in Subjects, GenerateToken(s) PROVE Older
  <2>1. UNCHANGED <<gone, loose, revoked, versions, now>>
    BY <1>13 DEF GenerateToken, ended, losses
  <2>2. DOMAIN tokens \subseteq DOMAIN tokens' /\ \A t \in DOMAIN tokens : tokens'[t] = tokens[t]
    BY <1>13, TokensGrow
  <2>3. QED
    BY <1>1, <1>2, <2>1, <2>2 DEF Older
<1>14. ASSUME NEW s \in Subjects, Increment(s) PROVE Older
  <2>1. /\ gone \subseteq gone' /\ UNCHANGED <<loose, tokens, revoked, now>>
        /\ versions' = [versions EXCEPT ![s] = @ + 1]
    BY <1>14, PutGrows DEF Increment, issued
  <2>2. \A u \in Subjects : versions[u] <= versions'[u]
    BY <1>1, <2>1
  <2>3. QED
    BY <1>1, <1>2, <2>1, <2>2 DEF Older
<1>15. ASSUME NEW t \in DOMAIN tokens, RevokeToken(t) PROVE Older
  <2>1. /\ gone \subseteq gone' /\ UNCHANGED <<loose, tokens, versions, now>>
        /\ revoked \subseteq revoked'
    BY <1>15, PutGrows DEF RevokeToken, issued
  <2>2. QED
    BY <1>1, <1>2, <2>1 DEF Older
<1>16. ASSUME NEW v \in Verifiers,
              \/ \E t \in DOMAIN tokens : VerifyParse(v, t)
              \/ VerifyBlacklist(v) \/ Accept(v) \/ Refuse(v)
       PROVE  Older
  BY <1>3, <1>16 DEF VerifyParse, VerifyBlacklist, Accept, Refuse, issued, ended, losses
<1>17. QED
  BY <1>4, <1>5, <1>6, <1>7, <1>8, <1>9, <1>10, <1>11, <1>12, <1>13, <1>14, <1>15, <1>16 DEF Next

-----------------------------------------------------------------------------
(* The keys of the manager and of the tokens.                              *)

LEMMA CacheSame ==
  ASSUME CacheInv, phase' = phase, phase = "down" => log' = log /\ mu' = mu,
         UNCHANGED <<cache, active, keys>>, gone \subseteq gone', Unsure \subseteq Unsure',
         \A t \in DOMAIN tokens' : tokens'[t].key \in DOMAIN keys, revoked' \subseteq DOMAIN tokens'
  PROVE  CacheInv'
<1> HIDE DEF Unsure
<1>1. QED
  BY DEF CacheInv

LEMMA CacheStep ==
  ASSUME TypeOK, ImageInv, RecordInv, CacheInv, [Next]_vars
  PROVE  CacheInv'
<1>1. gone \subseteq gone' /\ Unsure \subseteq Unsure'
  BY Grows DEF Older, Unsure
<1>2. (\A t \in DOMAIN tokens : tokens[t].key \in DOMAIN keys) /\ revoked \subseteq DOMAIN tokens
  BY DEF CacheInv
<1>3. ASSUME UNCHANGED <<phase, cache, active, keys, tokens, revoked>>,
             phase = "down" => log' = log /\ mu' = mu
      PROVE  CacheInv'
  BY <1>1, <1>2, <1>3, CacheSame
<1>4. CASE UNCHANGED vars
  BY <1>3, <1>4 DEF vars, store, manager, issued, ended
<1>5. CASE Tick
  BY <1>3, <1>5 DEF Tick, store, manager, issued, ended
<1>6. CASE CloseStore
  <2>1. phase = "up" /\ phase' = "closed" /\ UNCHANGED <<cache, active, keys, tokens, revoked>>
    BY <1>6 DEF CloseStore, manager, issued, ended
  <2> HIDE DEF Unsure
  <2>2. QED
    BY <1>1, <2>1 DEF CacheInv
<1>7. CASE End
  <2>1. /\ phase' = "down" /\ log' = <<>> /\ mu' = "free"
        /\ UNCHANGED <<keys, tokens, revoked>>
    BY <1>7 DEF End, issued, ended
  <2>2. QED
    BY <1>2, <2>1 DEF CacheInv
<1>8. CASE Start
  <2>1. /\ phase = "down" /\ phase' = "up"
        /\ UNCHANGED <<disk, tokens, revoked, gone, loose>>
    BY <1>8 DEF Start, ended, losses
  <2>2. Latest = disk /\ Good(disk, DOMAIN keys, gone)
    BY <2>1, DownImage
  <2>3. DOMAIN keys \subseteq KeyIds
    BY KeyRange
  <2>4. \A k \in DOMAIN keys : k \notin OnDisk => KeyEntry(k) \in Unsure
    BY <2>2, <2>3 DEF RecordInv, OnDisk
  <2>5. CASE StartWithActive
    <3>1. disk[ActiveEntry] # Absent /\ active' = disk[ActiveEntry] /\ cache' = OnDisk /\ keys' = keys
      BY <2>5 DEF StartWithActive
    <3>2. active' \in DOMAIN keys /\ (active' \notin cache' => KeyEntry(active') \in gone)
      BY <2>2, <2>3, <3>1 DEF Good, OnDisk
    <3> HIDE DEF Unsure
    <3>3. QED
      BY <1>1, <1>2, <2>1, <2>4, <3>1, <3>2 DEF CacheInv
  <2>6. CASE StartWithNewKey
    <3>1. active' = NewKey /\ cache' = OnDisk \cup {NewKey}
      BY <2>6 DEF StartWithNewKey
    <3>2. DOMAIN keys' = DOMAIN keys \cup {NewKey}
      BY <2>1, <2>6, ImageNewKey
    <3> HIDE DEF Unsure, NewKey
    <3>3. QED
      BY <1>1, <1>2, <2>1, <2>4, <3>1, <3>2 DEF CacheInv
  <2>7. QED
    BY <1>8, <2>5, <2>6 DEF Start
<1>9. ASSUME NEW e \in Entries, Evict(e) PROVE CacheInv'
  BY <1>3, <1>9 DEF Evict, manager, issued, ended
<1>10. CASE RotateKey
  <2>1. /\ phase = "up" /\ phase' = phase /\ cache' = cache \cup {NewKey} /\ active' = NewKey
        /\ UNCHANGED <<tokens, revoked>>
    BY <1>10 DEF RotateKey, ended
  <2>2. DOMAIN keys' = DOMAIN keys \cup {NewKey}
    BY <1>10, ImageKeys
  <2> HIDE DEF Unsure, NewKey
  <2>3. QED
    BY <1>1, <1>2, <2>1, <2>2 DEF CacheInv
<1>11. CASE ActivateKey
  <2>1. mu = "rotating" /\ UNCHANGED <<phase, cache, active, keys, tokens, revoked>>
    BY <1>11 DEF ActivateKey, issued, ended
  <2>2. phase # "down"
    BY <2>1 DEF CacheInv
  <2>3. QED
    BY <1>3, <2>1, <2>2
<1>12. CASE GenerateLocksUp
  BY <1>3, <1>12 DEF GenerateLocksUp, Running, issued, ended
<1>13. ASSUME NEW s \in Subjects, GenerateToken(s) PROVE CacheInv'
  <2>1. UNCHANGED <<phase, cache, active, keys, revoked, log, mu>> /\ phase # "down"
    BY <1>13 DEF GenerateToken, Running, store, manager, ended
  <2>2. active \in DOMAIN keys
    BY <2>1 DEF CacheInv
  <2>3. /\ DOMAIN tokens' = DOMAIN tokens \cup {Len(tokens) + 1}
        /\ \A t \in DOMAIN tokens : tokens'[t] = tokens[t]
        /\ tokens'[Len(tokens) + 1].key = active
    BY <1>13, TokensGrow
  <2>4. (\A t \in DOMAIN tokens' : tokens'[t].key \in DOMAIN keys) /\ revoked' \subseteq DOMAIN tokens'
    BY <1>2, <2>1, <2>2, <2>3
  <2>5. QED
    BY <1>1, <2>1, <2>4, CacheSame
<1>14. ASSUME NEW s \in Subjects, Increment(s) PROVE CacheInv'
  BY <1>3, <1>14 DEF Increment, manager, issued
<1>15. ASSUME NEW t \in DOMAIN tokens, RevokeToken(t) PROVE CacheInv'
  <2>1. /\ phase = "up" /\ revoked' = revoked \cup {t}
        /\ UNCHANGED <<phase, cache, active, keys, tokens>>
    BY <1>15 DEF RevokeToken, manager, issued
  <2>2. revoked' \subseteq DOMAIN tokens'
    BY <1>2, <2>1
  <2>3. QED
    BY <1>1, <1>2, <2>1, <2>2, CacheSame
<1>16. ASSUME NEW v \in Verifiers,
              \/ \E t \in DOMAIN tokens : VerifyParse(v, t)
              \/ VerifyBlacklist(v) \/ Accept(v) \/ Refuse(v)
       PROVE  CacheInv'
  BY <1>3, <1>16 DEF VerifyParse, VerifyBlacklist, Accept, Refuse, store, manager, issued, ended
<1>17. QED
  BY <1>4, <1>5, <1>6, <1>7, <1>8, <1>9, <1>10, <1>11, <1>12, <1>13, <1>14, <1>15, <1>16 DEF Next

-----------------------------------------------------------------------------
(* Verifications.                                                          *)

(* What is known of one verification. *)
Call(c) ==
    LET t == c.token IN
    c.at # "idle" =>
        /\ phase # "down" /\ t \in DOMAIN tokens
        /\ c.revoked => t \in revoked
        /\ c.version <= versions[tokens[t].subject]
        /\ c.at = "not revoked" /\ c.revoked /\ phase = "up" /\ BlackEntry(t) \notin Unsure =>
               now > tokens[t].exp * TicksPerSecond

LEMMA VerifyIsCalls == VerifyInv <=> \A v \in Verifiers : Call(verify[v])
  BY DEF VerifyInv, Call

LEMMA TokenFacts ==
  ASSUME TypeOK, NEW t \in DOMAIN tokens
  PROVE  /\ tokens[t].subject \in Subjects /\ tokens[t].exp * TicksPerSecond \in Nat
         /\ versions[tokens[t].subject] \in Nat
<1>0. versions \in [Subjects -> Nat]
  BY Zenon DEF TypeOK
<1>1. tokens[t] \in Token
  BY LogTypes
<1>2. tokens[t].exp \in Nat /\ tokens[t].subject \in Subjects
  BY <1>1 DEF Token
<1>3. QED
  BY <1>0, <1>2, Seconds

LEMMA CallStays ==
  ASSUME TypeOK, Older, NEW c, c.version \in Nat, Call(c), NEW a, a = c,
         phase' = phase \/ phase' = "closed", versions' \in [Subjects -> Nat]
  PROVE  Call(a)'
<1> DEFINE t == c.token
<1>1. CASE c.at = "idle"
  BY <1>1 DEF Call
<1>2. CASE c.at # "idle"
  <2>1. phase # "down" /\ t \in DOMAIN tokens /\ (c.revoked => t \in revoked)
    BY <1>2 DEF Call
  <2>2. /\ c.version <= versions[tokens[t].subject]
        /\ c.at = "not revoked" /\ c.revoked /\ phase = "up" /\ BlackEntry(t) \notin Unsure =>
               now > tokens[t].exp * TicksPerSecond
    BY <1>2 DEF Call
  <2>3. /\ tokens[t].subject \in Subjects /\ tokens[t].exp * TicksPerSecond \in Nat
        /\ versions[tokens[t].subject] \in Nat
    BY <2>1, TokenFacts
  <2>4. /\ t \in DOMAIN tokens' /\ tokens'[t] = tokens[t] /\ revoked \subseteq revoked'
        /\ versions[tokens[t].subject] <= versions'[tokens[t].subject]
        /\ Unsure \subseteq Unsure' /\ now <= now' /\ now' \in 0..MaxTime
    BY <2>1, <2>3 DEF Older, Unsure
  <2>5. versions'[tokens[t].subject] \in Nat /\ now \in 0..MaxTime /\ MaxTime \in Nat
    BY <2>3, Numbers DEF TypeOK
  <2> DEFINE n == versions[tokens[t].subject]
             m == versions'[tokens[t].subject]
             end == tokens[t].exp * TicksPerSecond
  <2>6. c.version <= versions'[tokens[t].subject]
    <3>1. c.version <= n /\ n <= m /\ c.version \in Nat /\ n \in Nat /\ m \in Nat
      BY <2>2, <2>3, <2>4, <2>5
    <3> HIDE DEF n, m
    <3>2. c.version <= m
      BY <3>1
    <3>3. QED
      BY <3>2 DEF m
  <2>7. c.at = "not revoked" /\ c.revoked /\ phase' = "up" /\ BlackEntry(t) \notin Unsure' =>
           now' > tokens[t].exp * TicksPerSecond
    <3>1. /\ end \in Nat /\ now <= now' /\ now' \in 0..MaxTime /\ now \in 0..MaxTime
          /\ MaxTime \in Nat
      BY <2>3, <2>4, <2>5
    <3>2. ASSUME c.at = "not revoked", c.revoked, phase' = "up", BlackEntry(t) \notin Unsure'
          PROVE  now > end
      <4>1. phase = "up" /\ BlackEntry(t) \notin Unsure
        BY <2>4, <3>2
      <4>2. QED
        BY <2>2, <3>2, <4>1, Zenon
    <3> HIDE DEF end
    <3>3. now > end => now' > end
      BY <3>1
    <3>4. QED
      BY <3>2, <3>3 DEF end
  <2> HIDE DEF t, Unsure
  <2>8. phase' # "down"
    BY <2>1
  <2>9. t = c.token
    BY DEF t
  <2>10. QED
    BY <2>1, <2>4, <2>6, <2>7, <2>8, <2>9 DEF Call
<1>3. QED
  BY <1>1, <1>2

CallTypes ==
    verify \in [Verifiers -> [at : {"idle", "in time", "not revoked"},
                              token : 0..MaxTokens, revoked : BOOLEAN, version : Nat]]

(* The state of calls that begin or end. *)
LEMMA CallOf ==
  ASSUME NEW c, c.at = "idle" PROVE Call(c)'
  BY DEF Call

LEMMA VersionsType ==
  ASSUME TypeOK, [Next]_vars PROVE versions' \in [Subjects -> Nat]
<1>1. versions \in [Subjects -> Nat]
  BY Zenon DEF TypeOK
<1>2. ASSUME NEW s \in Subjects, Increment(s) PROVE versions' \in [Subjects -> Nat]
  <2>1. versions' = [versions EXCEPT ![s] = @ + 1]
    BY <1>2 DEF Increment
  <2>2. QED
    BY <1>1, <2>1
<1>3. ASSUME ~\E s \in Subjects : Increment(s) PROVE versions' = versions
  BY <1>3 DEF Next, vars, Tick, CloseStore, End, Start, Evict, RotateKey, ActivateKey,
     GenerateLocksUp,
      GenerateToken, RevokeToken, VerifyParse, VerifyBlacklist, Accept, Refuse, ended
<1>4. QED
  BY <1>1, <1>2, <1>3

LEMMA VerifyStep ==
  ASSUME IInv, [Next]_vars
  PROVE  VerifyInv' /\ CallTypes'
<1>1. TypeOK /\ ImageInv /\ RecordInv /\ CacheInv /\ VerifyInv /\ CallTypes
  BY DEF IInv, TypeOK, CallTypes
<1>2. Older /\ versions' \in [Subjects -> Nat]
  BY <1>1, Grows, VersionsType
<1>3. ASSUME NEW v \in Verifiers PROVE Call(verify[v]) /\ verify[v].version \in Nat
  BY <1>1, <1>3, VerifyIsCalls DEF CallTypes
<1>4. Idle.at = "idle"
  BY DEF Idle
<1>5. Idle \in [at : {"idle", "in time", "not revoked"},
                token : 0..MaxTokens, revoked : BOOLEAN, version : Nat]
  BY Numbers DEF Idle, NoToken
<1>6. ASSUME UNCHANGED <<phase, verify>> \/ (phase' = "closed" /\ verify' = verify)
      PROVE  VerifyInv' /\ CallTypes'
  <2>1. ASSUME NEW v \in Verifiers, NEW a, a = verify[v] PROVE Call(a)'
    BY <1>1, <1>2, <1>3, <1>6, <2>1, CallStays
  <2>2. ASSUME NEW v \in Verifiers PROVE Call(verify[v])'
    <3>1. verify'[v] = verify[v]
      BY <1>6
    <3>2. QED
      BY <2>1, <3>1 DEF Call
  <2>3. QED
    BY <1>1, <1>6, <2>2, VerifyIsCalls DEF CallTypes, VerifyInv, Call
<1>7. ASSUME verify' = [v \in Verifiers |-> Idle] PROVE VerifyInv' /\ CallTypes'
  BY <1>4, <1>5, <1>7 DEF VerifyInv, CallTypes
(* A step of one verification, after which its state is c. *)
<1>8. ASSUME NEW v \in Verifiers, NEW c, verify' = [verify EXCEPT ![v] = c], phase' = phase,
             c \in [at : {"idle", "in time", "not revoked"},
                    token : 0..MaxTokens, revoked : BOOLEAN, version : Nat],
             Call(c)'
      PROVE  VerifyInv' /\ CallTypes'
  <2>1. CallTypes'
    BY <1>1, <1>8 DEF CallTypes
  <2>2. ASSUME NEW u \in Verifiers PROVE Call(verify[u])'
    <3>1. CASE u = v
      <4>1. verify'[u] = c
        BY <1>1, <1>8, <3>1 DEF CallTypes
      <4>2. QED
        BY <1>8, <4>1 DEF Call
    <3>2. CASE u # v
      <4>1. verify'[u] = verify[u]
        BY <1>1, <1>8, <3>2 DEF CallTypes
      <4>2. ASSUME NEW a, a = verify[u] PROVE Call(a)'
        BY <1>1, <1>2, <1>3, <1>8, <4>2, CallStays
      <4>3. QED
        BY <4>1, <4>2 DEF Call
    <3>3. QED
      BY <3>1, <3>2
  <2>3. QED
    BY <2>1, <2>2 DEF VerifyInv, Call
<1>9. ASSUME NEW v \in Verifiers, Return(v), phase' = phase PROVE VerifyInv' /\ CallTypes'
  <2>1. ASSUME NEW a, a = Idle PROVE Call(a)'
    BY <1>4, <2>1, CallOf
  <2>2. QED
    BY <1>5, <1>8, <1>9, <2>1 DEF Return, Idle
<1>10. ASSUME NEW v \in Verifiers, NEW t \in DOMAIN tokens, VerifyParse(v, t)
       PROVE  VerifyInv' /\ CallTypes'
  <2> DEFINE c == [at |-> "in time", token |-> t, revoked |-> t \in revoked,
                   version |-> versions[tokens[t].subject]]
  <2>1. /\ verify' = [verify EXCEPT ![v] = c]
        /\ UNCHANGED <<phase, tokens, revoked, versions>> /\ phase # "down"
    BY <1>10 DEF VerifyParse, Running, issued, ended
  <2>2. versions[tokens[t].subject] \in Nat /\ t \in 0..MaxTokens
    BY <1>1, TokenFacts, LogTypes, Numbers DEF TokenIds
  <2>3. c \in [at : {"idle", "in time", "not revoked"},
               token : 0..MaxTokens, revoked : BOOLEAN, version : Nat]
    BY <2>2
  <2>4. /\ c.at = "in time" /\ c.token = t /\ c.revoked = (t \in revoked)
        /\ c.version = versions[tokens[t].subject]
    OBVIOUS
  <2> HIDE DEF c
  <2>5. ASSUME NEW a, a = c PROVE Call(a)'
    <3>1. a.at = "in time" /\ a.token = t /\ a.revoked = (t \in revoked)
      BY <2>4, <2>5
    <3>2. a.version <= versions[tokens[t].subject]
      <4> DEFINE n == versions[tokens[t].subject]
      <4>1. a.version = n /\ n \in Nat
        BY <2>2, <2>4, <2>5
      <4> HIDE DEF n
      <4>2. a.version <= n
        BY <4>1
      <4>3. QED
        BY <4>2 DEF n
    <3>3. /\ phase' # "down" /\ a.token \in DOMAIN tokens' /\ (a.revoked => a.token \in revoked')
          /\ a.version <= versions'[tokens'[a.token].subject] /\ a.at # "not revoked"
      BY <2>1, <3>1, <3>2
    <3>4. QED
      BY <3>3 DEF Call
  <2>6. QED
    BY <1>8, <2>1, <2>3, <2>5
<1>11. ASSUME NEW v \in Verifiers, VerifyBlacklist(v) PROVE VerifyInv' /\ CallTypes'
  <2>1. /\ verify[v].at = "in time"
        /\ UNCHANGED <<phase, tokens, revoked, versions, now, gone, loose>>
    BY <1>11 DEF VerifyBlacklist, issued, ended, losses
  <2>2. CASE Blacklisted(verify[v].token)
    BY <1>9, <1>11, <2>1, <2>2 DEF VerifyBlacklist
  <2>3. CASE ~Blacklisted(verify[v].token)
    <3> DEFINE t == verify[v].token
               c == [verify[v] EXCEPT !.at = "not revoked"]
    <3>1. verify' = [verify EXCEPT ![v] = c]
      BY <1>11, <2>3 DEF VerifyBlacklist, GoOn
    <3>2. verify[v] \in [at : {"idle", "in time", "not revoked"},
                         token : 0..MaxTokens, revoked : BOOLEAN, version : Nat]
      BY <1>1 DEF CallTypes
    <3>3. /\ c \in [at : {"idle", "in time", "not revoked"},
                    token : 0..MaxTokens, revoked : BOOLEAN, version : Nat]
          /\ c.at = "not revoked" /\ c.token = t /\ c.revoked = verify[v].revoked
          /\ c.version = verify[v].version
      BY <3>2
    <3>4. /\ phase # "down" /\ t \in DOMAIN tokens /\ (verify[v].revoked => t \in revoked)
          /\ verify[v].version <= versions[tokens[t].subject]
      BY <1>3, <2>1 DEF Call
    <3>5. ASSUME verify[v].revoked, phase = "up", BlackEntry(t) \notin Unsure
          PROVE  now > tokens[t].exp * TicksPerSecond
      <4>1. t \in revoked /\ t \in TokenIds /\ BlackEntry(t) \in Entries
        BY <1>1, <3>4, <3>5, KeyRange, EntryKinds
      <4>2. Latest[BlackEntry(t)] \in {Never, tokens[t].exp * TicksPerSecond}
        BY <1>1, <3>5, <4>1 DEF RecordInv
      <4>3. kv[BlackEntry(t)] = Latest[BlackEntry(t)]
        BY <1>1, <3>5, <4>1 DEF RecordInv
      <4>4. tokens[t].exp * TicksPerSecond \in Nat /\ now \in 0..MaxTime /\ MaxTime \in Nat
        BY <1>1, <3>4, TokenFacts, Numbers DEF TypeOK
      <4> DEFINE x == kv[BlackEntry(t)]
      <4>5. x = Absent \/ (x # Never /\ ~(now <= x))
        BY <2>3, <3>5 DEF Blacklisted, Get
      <4>6. x = tokens[t].exp * TicksPerSecond
        <5>1. x \in {Never, tokens[t].exp * TicksPerSecond}
          BY <4>2, <4>3, Zenon
        <5> HIDE DEF x
        <5>2. QED
          BY <4>4, <4>5, <5>1 DEF Absent, Never
      <4> HIDE DEF x
      <4>7. QED
        BY <4>4, <4>5, <4>6 DEF Absent
    <3> HIDE DEF c, t
    <3>6. Unsure' = Unsure
      BY <2>1 DEF Unsure
    <3> HIDE DEF Unsure
    <3>7. ASSUME NEW a, a = c PROVE Call(a)'
      BY <2>1, <3>3, <3>4, <3>5, <3>6, <3>7 DEF Call
    <3>8. QED
      BY <1>8, <2>1, <3>1, <3>3, <3>7
  <2>4. QED
    BY <2>2, <2>3
<1>12. ASSUME NEW v \in Verifiers, Accept(v) \/ Refuse(v) PROVE VerifyInv' /\ CallTypes'
  BY <1>9, <1>12 DEF Accept, Refuse
<1>13. CASE Start
  <2>1. phase = "down" /\ verify' = verify
    BY <1>13 DEF Start
  <2>2. ASSUME NEW v \in Verifiers PROVE verify[v].at = "idle"
    BY <1>3, <2>1 DEF Call
  <2>3. QED
    BY <1>1, <2>1, <2>2 DEF VerifyInv, CallTypes
<1>14. CASE UNCHANGED vars
  BY <1>6, <1>14 DEF vars
<1>15. CASE Tick \/ RotateKey \/ ActivateKey \/ GenerateLocksUp
  BY <1>6, <1>15 DEF Tick, RotateKey, ActivateKey, GenerateLocksUp
<1>16. CASE CloseStore
  BY <1>6, <1>16 DEF CloseStore
<1>17. CASE End
  BY <1>7, <1>17 DEF End
<1>18. ASSUME NEW e, Evict(e) PROVE VerifyInv' /\ CallTypes'
  BY <1>6, <1>18 DEF Evict
<1>19. ASSUME NEW s, GenerateToken(s) \/ Increment(s) PROVE VerifyInv' /\ CallTypes'
  BY <1>6, <1>19 DEF GenerateToken, Increment
<1>20. ASSUME NEW t, RevokeToken(t) PROVE VerifyInv' /\ CallTypes'
  BY <1>6, <1>20 DEF RevokeToken
<1>21. QED
  BY <1>10, <1>11, <1>12, <1>13, <1>14, <1>15, <1>16, <1>17, <1>18, <1>19, <1>20 DEF Next

-----------------------------------------------------------------------------
(* Types.                                                                  *)

KeyTypes ==
    /\ phase \in {"up", "closed", "down"} /\ mu \in {"free", "rotating", "stuck"}
    /\ cache \subseteq KeyIds /\ active \in KeyIds
    /\ keys \in Seq(0..MaxTime) /\ Len(keys) \in KeyIds

TokenTypes ==
    /\ tokens \in Seq(Token) /\ Len(tokens) <= MaxTokens
    /\ revoked \subseteq TokenIds /\ versions \in [Subjects -> Nat]
    /\ now \in 0..MaxTime

LEMMA TypeParts == TypeOK <=> KeyTypes /\ TokenTypes /\ StoreTypes /\ CallTypes
  BY Zenon DEF TypeOK, KeyTypes, TokenTypes, StoreTypes, CallTypes

LEMMA KeyTypesStep ==
  ASSUME TypeOK, ImageInv, RecordInv, CacheInv, [Next]_vars
  PROVE  KeyTypes'
<1>1. KeyTypes
  BY TypeParts
<1>2. ASSUME UNCHANGED <<cache, active, keys>>, phase' \in {"up", "closed", "down"},
             mu' \in {"free", "rotating", "stuck"}
      PROVE  KeyTypes'
  BY <1>1, <1>2 DEF KeyTypes
<1>3. phase \in {"up", "closed", "down"} /\ mu \in {"free", "rotating", "stuck"}
  BY <1>1 DEF KeyTypes
<1>4. CASE UNCHANGED vars
  BY <1>2, <1>3, <1>4 DEF vars, manager, issued
<1>5. CASE Tick
  BY <1>2, <1>3, <1>5 DEF Tick, manager, issued
<1>6. CASE CloseStore
  BY <1>2, <1>3, <1>6 DEF CloseStore, manager, issued
<1>7. CASE End
  <2>1. cache' = {} /\ active' = 1 /\ keys' = keys /\ phase' = "down" /\ mu' = "free"
    BY <1>7 DEF End, issued
  <2>2. QED
    BY <1>1, <2>1, Numbers DEF KeyTypes
<1>8. CASE Start
  <2>1. phase = "down" /\ phase' = "up" /\ mu' = mu /\ UNCHANGED <<disk, gone, loose>>
    BY <1>8 DEF Start, losses
  <2>2. OnDisk \subseteq KeyIds
    BY DEF OnDisk
  <2>3. CASE StartWithActive
    <3>1. disk[ActiveEntry] # Absent /\ active' = disk[ActiveEntry] /\ cache' = OnDisk /\ keys' = keys
      BY <2>3 DEF StartWithActive
    <3>2. active' \in DOMAIN keys
      BY <2>1, <3>1, DownImage DEF Good
    <3>3. active' \in KeyIds
      BY <3>2, KeyRange
    <3>4. QED
      BY <1>1, <2>1, <2>2, <3>1, <3>3 DEF KeyTypes
  <2>4. CASE StartWithNewKey
    <3>1. active' = NewKey /\ cache' = OnDisk \cup {NewKey}
      BY <2>4 DEF StartWithNewKey
    <3>2. keys' \in Seq(0..MaxTime) /\ Len(keys') = NewKey /\ NewKey \in KeyIds
      BY <2>1, <2>4, ImageNewKey
    <3>3. QED
      BY <1>3, <2>1, <2>2, <3>1, <3>2 DEF KeyTypes
  <2>5. QED
    BY <1>8, <2>3, <2>4 DEF Start
<1>9. ASSUME NEW e, Evict(e) PROVE KeyTypes'
  BY <1>2, <1>3, <1>9 DEF Evict, manager, issued
<1>10. CASE RotateKey
  <2>1. /\ phase' = phase /\ cache' = cache \cup {NewKey} /\ active' = NewKey
        /\ mu' = "rotating"
    BY <1>10 DEF RotateKey
  <2>2. keys' \in Seq(0..MaxTime) /\ Len(keys') = NewKey /\ NewKey \in KeyIds
    BY <1>10, ImageKeys
  <2>3. QED
    BY <1>1, <2>1, <2>2 DEF KeyTypes
<1>11. CASE ActivateKey
  BY <1>2, <1>3, <1>11 DEF ActivateKey, issued
<1>12. CASE GenerateLocksUp
  BY <1>2, <1>3, <1>12 DEF GenerateLocksUp, issued
<1>13. ASSUME NEW s, GenerateToken(s) \/ Increment(s) PROVE KeyTypes'
  BY <1>2, <1>3, <1>13 DEF GenerateToken, Increment, manager, issued
<1>14. ASSUME NEW t, RevokeToken(t) PROVE KeyTypes'
  BY <1>2, <1>3, <1>14 DEF RevokeToken, manager, issued
<1>15. ASSUME NEW v \in Verifiers,
              \/ \E t \in DOMAIN tokens : VerifyParse(v, t)
              \/ VerifyBlacklist(v) \/ Accept(v) \/ Refuse(v)
       PROVE  KeyTypes'
  BY <1>2, <1>3, <1>15 DEF VerifyParse, VerifyBlacklist, Accept, Refuse, manager, issued
<1>16. QED
  BY <1>4, <1>5, <1>6, <1>7, <1>8, <1>9, <1>10, <1>11, <1>12, <1>13, <1>14, <1>15 DEF Next

LEMMA TokenTypesStep ==
  ASSUME TypeOK, RecordInv, CacheInv', [Next]_vars
  PROVE  TokenTypes'
<1>1. tokens \in Seq(Token) /\ Len(tokens) <= MaxTokens
  BY Zenon DEF TypeOK
<1>2. tokens' \in Seq(Token) /\ Len(tokens') <= MaxTokens
  <2>1. ASSUME NEW s \in Subjects, GenerateToken(s)
        PROVE  tokens' \in Seq(Token) /\ Len(tokens') <= MaxTokens
    BY <2>1, TokensGrow
  <2>2. ASSUME ~\E s \in Subjects : GenerateToken(s) PROVE tokens' = tokens
    BY <2>2 DEF Next, vars, Tick, CloseStore, End, Start, Evict, RotateKey, ActivateKey,
        GenerateLocksUp, Increment, RevokeToken, VerifyParse, VerifyBlacklist, Accept, Refuse, issued
  <2>3. QED
    BY <1>1, <2>1, <2>2
<1>3. versions' \in [Subjects -> Nat] /\ now' \in 0..MaxTime
  BY VersionsType, Grows DEF Older
<1>4. revoked' \subseteq TokenIds
  <2>1. revoked' \subseteq DOMAIN tokens' /\ DOMAIN tokens' = 1..Len(tokens') /\ Len(tokens') \in Nat
    BY <1>2, LenProperties DEF CacheInv
  <2>2. QED
    BY <1>2, <2>1, Numbers DEF TokenIds
<1>5. QED
  BY <1>2, <1>3, <1>4 DEF TokenTypes

-----------------------------------------------------------------------------
(* The invariant.                                                          *)

LEMMA Initially == Init => IInv
<1> SUFFICES ASSUME Init PROVE IInv
  OBVIOUS
<1>1. RecordInv /\ ImageInv
  BY RecordInit
<1>2. /\ now = StartTime /\ disk = NoEntries /\ log = Two(KeyEntry(1), 1, ActiveEntry, 1)
      /\ phase = "up" /\ mu = "free" /\ cache = {1} /\ active = 1
      /\ keys = <<now>> /\ tokens = <<>> /\ verify = [v \in Verifiers |-> Idle]
      /\ revoked = {} /\ versions = [s \in Subjects |-> 0]
      /\ gone = {} /\ loose = {} /\ crashes = 0 /\ lost = 0
  BY DEF Init, Two
<1>3. now \in 0..MaxTime /\ 1 \in KeyIds /\ MaxTokens \in Nat /\ MaxCrashes \in Nat /\ MaxLosses \in Nat
  BY <1>2, Numbers
<1>4. keys \in Seq(0..MaxTime) /\ Len(keys) = 1 /\ DOMAIN keys = {1}
  BY <1>2, <1>3
<1>5. KeyTypes
  BY <1>2, <1>3, <1>4 DEF KeyTypes
<1>6. tokens \in Seq(Token) /\ Len(tokens) = 0 /\ DOMAIN tokens = {}
  BY <1>2
<1>7. TokenTypes
  BY <1>2, <1>3, <1>6 DEF TokenTypes
<1>8. StoreTypes
  <2>1. disk \in [Entries -> Int] /\ kv \in [Entries -> Int]
    BY <1>1, <1>2, ValuesAreInts DEF RecordInv, NoEntries, Absent
  <2>2. log \in Seq(Entries \X Int)
    BY <1>2, EntryKinds, Numbers DEF Two
  <2>3. QED
    BY <1>2, <1>3, <2>1, <2>2 DEF StoreTypes
<1>9. CallTypes /\ VerifyInv
  BY <1>2, <1>3 DEF CallTypes, VerifyInv, Idle, NoToken
<1>10. CacheInv
  BY <1>2, <1>4, <1>6 DEF CacheInv
<1>11. QED
  BY <1>1, <1>5, <1>7, <1>8, <1>9, <1>10, TypeParts DEF IInv

LEMMA Inductive == ASSUME IInv, [Next]_vars PROVE IInv'
<1>1. TypeOK /\ ImageInv /\ RecordInv /\ CacheInv /\ VerifyInv
  BY DEF IInv
<1>2. RecordInv' /\ ImageInv' /\ StoreTypes'
  BY <1>1, StoreStep DEF StoreInv
<1>3. CacheInv'
  BY <1>1, CacheStep
<1>4. VerifyInv' /\ CallTypes'
  BY VerifyStep
<1>5. KeyTypes' /\ TokenTypes'
  BY <1>1, <1>3, KeyTypesStep, TokenTypesStep
<1>6. TypeOK'
  BY <1>2, <1>4, <1>5, Zenon DEF TypeOK, KeyTypes, TokenTypes, StoreTypes, CallTypes
<1>7. QED
  BY <1>2, <1>3, <1>4, <1>6 DEF IInv

LEMMA Invariant == Spec => []IInv
<1>1. IInv /\ UNCHANGED vars => IInv'
  BY Inductive
<1>2. QED
  BY Initially, Inductive, <1>1, PTL DEF Spec

(* Every variable keeps its type, whatever is written, lost, closed or      *)
(* started again.                                                          *)
THEOREM TypeCorrect == Spec => []TypeOK
<1>1. IInv => TypeOK
  BY DEF IInv
<1>2. QED
  BY <1>1, Invariant, PTL

(* The active key and the keys of all tokens are in the manager's cache,    *)
(* through rotations, errors, crashes and restarts, unless the store lost   *)
(* their records: RotateKey, ActivateKey and loadKeys.                      *)
THEOREM KeysKeptAlways == Spec => []KeysKept
<1>1. IInv => KeysKept
  <2> SUFFICES ASSUME IInv, phase # "down"
               PROVE  /\ active \notin cache => KeyEntry(active) \in gone
                      /\ \A t \in DOMAIN tokens :
                           tokens[t].key \notin cache => KeyEntry(tokens[t].key) \in gone \cup loose
    BY DEF KeysKept
  <2>1. /\ active \notin cache => KeyEntry(active) \in gone
        /\ \A k \in DOMAIN keys : k \notin cache => KeyEntry(k) \in gone \cup loose
        /\ \A t \in DOMAIN tokens : tokens[t].key \in DOMAIN keys
    BY DEF IInv, CacheInv, Unsure
  <2>2. QED
    BY <2>1
<1>2. QED
  BY <1>1, Invariant, PTL

(* VerifyToken accepts no token that was revoked, or whose subject's        *)
(* version was raised, before the verification began, while the store is    *)
(* open and has lost neither entry.                                        *)
THEOREM EndedRefused == Spec => EndedIsRefused
<1>1. ASSUME IInv, NEW v \in Verifiers, Accept(v), StoreComplete(verify[v].token)
      PROVE  /\ verify[v].revoked => now > tokens[verify[v].token].exp * TicksPerSecond
             /\ verify[v].version <= tokens[verify[v].token].version
  <2> DEFINE t == verify[v].token
             s == tokens[t].subject
  <2>1. TypeOK /\ RecordInv /\ VerifyInv
    BY <1>1 DEF IInv
  <2>2. verify[v].at = "not revoked" /\ VersionMatches(t)
    BY <1>1 DEF Accept
  <2>3. phase = "up" /\ BlackEntry(t) \notin Unsure /\ VersionEntry(s) \notin Unsure
    BY <1>1 DEF StoreComplete, Unsure
  <2>4. /\ t \in DOMAIN tokens /\ verify[v].version <= versions[s]
        /\ verify[v].revoked => now > tokens[t].exp * TicksPerSecond
    BY <2>1, <2>2, <2>3 DEF VerifyInv
  <2>5. s \in Subjects
    BY <2>1, <2>4, TokenFacts
  <2>6. CurrentVersion(s) = versions[s]
    BY <2>1, <2>3, <2>5, VersionType
  <2>7. CurrentVersion(s) = tokens[t].version
    BY <2>2 DEF VersionMatches
  <2>8. verify[v].version <= tokens[t].version
    BY <2>4, <2>6, <2>7, Zenon
  <2>9. QED
    BY <2>4, <2>8
<1>2. IInv /\ [Next]_vars =>
        [\A v \in Verifiers :
            LET t == verify[v].token IN
            Accept(v) /\ StoreComplete(t) =>
                /\ verify[v].revoked => now > tokens[t].exp * TicksPerSecond
                /\ verify[v].version <= tokens[t].version]_vars
  BY <1>1
<1>3. QED
  BY <1>2, Invariant, PTL DEF Spec, EndedIsRefused
=============================================================================
