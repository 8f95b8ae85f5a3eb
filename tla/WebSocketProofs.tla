---------------------------- MODULE WebSocketProofs ----------------------------
(***************************************************************************)
(* Proofs about WebSocket, for every number of connections and messages,   *)
(* and all sizes of the queues.                                            *)
(***************************************************************************)
EXTENDS WebSocket, FiniteSetTheorems, SequenceTheorems, TLAPS

SenderType == [at : {"idle", "read", "in message", "spread", "gone"},
               msg : Message \cup {NoMessage}, todo : SUBSET Conns]
WorkerType == [at : {"idle", "send", "blocked", "gone"},
               conn : Conns \cup {Admin}, msg : Message \cup {NoMessage}]
PumpType == [at : {"idle", "write", "gone"}, msg : Message \cup {NoMessage}, part : 0..MaxParts]
FrameType == [msg : Message \cup {NoMessage}, part : 0..MaxParts]

Busy(s) == sender[s].at \in {"in message", "spread"}
Sending(w) == worker[w].at \in {"send", "blocked"}

ControlInv ==
    /\ phase \in {"up", "draining", "stopping", "stopped"}
    /\ crash \in {"none", "map"} \cup Senders
    /\ behavior \in Behaviors
    /\ stage \in [Conns -> {"none", "opening", "serving"}]
    /\ closed \subseteq Conns /\ broken \subseteq Conns /\ members \subseteq Conns
    /\ timedOut \in BOOLEAN

(* A message that is read or broadcast bears its sender and its number. *)
SenderInv ==
    /\ count \in 0..MaxMessages
    /\ sender \in [Senders -> SenderType]
    /\ \A s \in Senders : Busy(s) =>
         /\ sender[s].msg \in Message
         /\ sender[s].msg.from = s /\ sender[s].msg.num <= count

JobsInv == jobs \in Seq(Job) /\ Len(jobs) <= JobQueueSize

WorkerInv ==
    /\ worker \in [Workers -> WorkerType]
    /\ \A w \in Workers : Sending(w) => worker[w].conn \in Conns /\ worker[w].msg \in Message

QueueInv ==
    /\ queue \in [Conns -> Seq(Message)]
    /\ \A c \in Conns : Len(queue[c]) <= SendQueueSize

(* The pump is at a part of a message. *)
PumpInv ==
    /\ pump \in [Conns -> PumpType]
    /\ \A c \in Conns : pump[c].at = "write" =>
         pump[c].msg \in Message /\ pump[c].part \in 1..pump[c].msg.parts
    /\ last \in [Conns -> [Senders -> FrameType]]

IInv == ControlInv /\ SenderInv /\ JobsInv /\ WorkerInv /\ QueueInv /\ PumpInv

(* The request that is under way when the hub has stopped was given up on. *)
StopInv ==
    /\ JobsClosed /\ sender[Admin].at # "idle" => timedOut
    /\ crash = Admin => timedOut

LEMMA Sizes ==
  /\ JobQueueSize \in Nat /\ SendQueueSize \in Nat /\ MaxMessages \in Nat /\ MaxParts \in Nat \ {0}
  /\ Admin \notin Conns /\ Admin \in Senders /\ Conns \subseteq Senders
  /\ Senders = Conns \cup {Admin} /\ Admin # "none" /\ Admin # "map"
  /\ Behaviors \subseteq {"wait", "block", "drop", "close"}
  BY WebSocketAssumption DEF Senders

LEMMA Messages ==
  ASSUME NEW m \in Message
  PROVE  /\ m.from \in Senders /\ m.num \in 1..MaxMessages /\ m.parts \in 1..MaxParts
         /\ m.num \in Nat /\ m.parts \in Nat
<1>1. /\ m.from \in Senders /\ m.num \in 1..MaxMessages /\ m.parts \in 1..MaxParts
  BY DEF Message
<1>2. QED
  BY <1>1, Sizes

LEMMA TypeParts == IInv => TypeOK
  BY Zenon DEF IInv, ControlInv, SenderInv, JobsInv, WorkerInv, QueueInv, PumpInv, TypeOK,
     SenderType, WorkerType, PumpType, FrameType

LEMMA Initially == Init => IInv /\ StopInv
<1> SUFFICES ASSUME Init PROVE IInv /\ StopInv
  OBVIOUS
<1>1. ControlInv
  BY DEF Init, ControlInv
<1>2. SenderInv
  <2>1. sender = [s \in Senders |-> AtRest("idle")] /\ count = 0
    BY DEF Init
  <2>2. AtRest("idle") \in SenderType
    BY DEF AtRest, SenderType
  <2>3. \A s \in Senders : ~Busy(s)
    BY <2>1 DEF Busy, AtRest
  <2>4. QED
    BY <2>1, <2>2, <2>3, Sizes DEF SenderInv
<1>3. JobsInv
  BY Sizes DEF Init, JobsInv
<1>4. WorkerInv
  BY DEF Init, WorkerInv, Sending, WorkerType
<1>5. QueueInv
  BY Sizes DEF Init, QueueInv
<1>6. PumpInv
  BY Sizes DEF Init, PumpInv, PumpIdle, NoFrame, PumpType, FrameType
<1>7. StopInv
  BY Sizes DEF Init, StopInv, AtRest
<1>8. QED
  BY <1>1, <1>2, <1>3, <1>4, <1>5, <1>6, <1>7 DEF IInv

-----------------------------------------------------------------------------
(* Who changes what.                                                       *)

LEMMA Control ==
  ASSUME ControlInv, WorkerInv, [Next]_vars
  PROVE  ControlInv'
<1> USE DEF ControlInv
<1>1. CASE UNCHANGED vars
  BY <1>1 DEF vars, conns
<1>2. ASSUME NEW c \in Conns, ConnNext(c) PROVE ControlInv'
  <2>1. CASE Open(c)
    BY <2>1 DEF Open
  <2>2. CASE Join(c)
    BY <2>2 DEF Join, MapWrite
  <2>3. CASE Cleanup(c)
    BY <2>3 DEF Cleanup, MapWrite, conns
  <2>4. CASE Break(c) \/ PongTimeout(c) \/ ReadEnds(c)
    BY <2>4 DEF Break, PongTimeout, ReadEnds
  <2>5. CASE ReadFirst(c) \/ ReadNext(c) \/ ReadCut(c)
    BY <2>5 DEF ReadFirst, ReadNext, ReadCut, conns
  <2>6. CASE PumpTakes(c) \/ PumpWrites(c) \/ PumpEnds(c)
    BY <2>6 DEF PumpTakes, PumpWrites, PumpEnds, conns
  <2>7. CASE PumpFails(c)
    BY <2>7 DEF PumpFails
  <2>8. QED
    BY <1>2, <2>1, <2>2, <2>3, <2>4, <2>5, <2>6, <2>7 DEF ConnNext
<1>3. ASSUME NEW s \in Senders, SenderNext(s) PROVE ControlInv'
  BY <1>3 DEF SenderNext, Spread, SpreadEnds, conns
<1>4. ASSUME NEW w \in Workers, WorkerNext(w) PROVE ControlInv'
  <2>1. CASE EnqueueFull(w)
    <3>1. worker[w].conn \in Conns
      BY <2>1 DEF EnqueueFull, WorkerInv, Sending
    <3>2. QED
      BY <2>1, <3>1 DEF EnqueueFull
  <2>2. CASE ~EnqueueFull(w)
    BY <1>4, <2>2 DEF WorkerNext, TakeJob, Enqueue, GiveUp, WorkerEnds, conns
  <2>3. QED
    BY <2>1, <2>2
<1>5. CASE BroadcastAll \/ Signal \/ Stop \/ StopReturn
  BY <1>5 DEF BroadcastAll, Signal, Stop, StopReturn, conns
<1>6. QED
  BY <1>1, <1>2, <1>3, <1>4, <1>5 DEF Next

LEMMA WritersOfSender ==
  ASSUME [Next]_vars
  PROVE  \/ UNCHANGED <<sender, count>>
         \/ \E c \in Conns : \/ Join(c) \/ Cleanup(c) \/ ReadFirst(c) \/ ReadNext(c)
                             \/ ReadCut(c) \/ ReadEnds(c)
         \/ \E s \in Senders : SenderNext(s)
         \/ BroadcastAll
  BY DEF Next, vars, ConnNext, Open, Break, PongTimeout, PumpTakes, PumpWrites, PumpFails, PumpEnds,
     WorkerNext, TakeJob, Enqueue, EnqueueFull, GiveUp, WorkerEnds, Signal, Stop, StopReturn

LEMMA WritersOfJobs ==
  ASSUME [Next]_vars
  PROVE  \/ jobs' = jobs
         \/ \E s \in Senders, c \in Conns : Spread(s, c)
         \/ \E w \in Workers : TakeJob(w)
  BY DEF Next, vars, ConnNext, Open, Join, Cleanup, Break, PongTimeout, ReadFirst, ReadNext,
     ReadCut,
     ReadEnds, PumpTakes, PumpWrites, PumpFails, PumpEnds, SenderNext, SpreadEnds,
     WorkerNext, Enqueue, EnqueueFull, GiveUp, WorkerEnds, BroadcastAll, Signal, Stop, StopReturn

LEMMA WritersOfWorker ==
  ASSUME [Next]_vars
  PROVE  worker' = worker \/ \E w \in Workers : WorkerNext(w)
  BY DEF Next, vars, ConnNext, Open, Join, Cleanup, Break, PongTimeout, ReadFirst, ReadNext,
     ReadCut,
     ReadEnds, PumpTakes, PumpWrites, PumpFails, PumpEnds, SenderNext, Spread, SpreadEnds,
     BroadcastAll, Signal, Stop, StopReturn

LEMMA WritersOfQueue ==
  ASSUME [Next]_vars
  PROVE  \/ queue' = queue
         \/ \E w \in Workers : Enqueue(w)
         \/ \E c \in Conns : PumpTakes(c)
  BY DEF Next, vars, ConnNext, Open, Join, Cleanup, Break, PongTimeout, ReadFirst, ReadNext,
     ReadCut,
     ReadEnds, PumpWrites, PumpFails, PumpEnds, SenderNext, Spread, SpreadEnds, WorkerNext, TakeJob,
     EnqueueFull, GiveUp, WorkerEnds, BroadcastAll, Signal, Stop, StopReturn

LEMMA WritersOfPump ==
  ASSUME [Next]_vars
  PROVE  \/ UNCHANGED <<pump, last>>
         \/ \E c \in Conns : PumpTakes(c) \/ PumpWrites(c) \/ PumpFails(c) \/ PumpEnds(c)
  BY DEF Next, vars, ConnNext, Open, Join, Cleanup, Break, PongTimeout, ReadFirst, ReadNext,
     ReadCut,
     ReadEnds, SenderNext, Spread, SpreadEnds, WorkerNext, TakeJob, Enqueue, EnqueueFull, GiveUp,
     WorkerEnds, BroadcastAll, Signal, Stop, StopReturn

-----------------------------------------------------------------------------
(* Senders.                                                                *)

(* What is said of one sender, in its state x. *)
SenderOk(s, x, n) ==
    /\ x \in SenderType
    /\ x.at \in {"in message", "spread"} => x.msg \in Message /\ x.msg.from = s /\ x.msg.num <= n

LEMMA SenderParts ==
  SenderInv <=> /\ count \in 0..MaxMessages
                /\ sender = [s \in Senders |-> sender[s]]
                /\ \A s \in Senders : SenderOk(s, sender[s], count)
<1>1. SenderInv <=> /\ count \in 0..MaxMessages /\ sender \in [Senders -> SenderType]
                    /\ \A s \in Senders : Busy(s) =>
                         /\ sender[s].msg \in Message
                         /\ sender[s].msg.from = s /\ sender[s].msg.num <= count
  BY DEF SenderInv
<1>2. (sender = [s \in Senders |-> sender[s]] /\ \A s \in Senders : sender[s] \in SenderType)
        <=> sender \in [Senders -> SenderType]
  OBVIOUS
<1>3. QED
  BY <1>1, <1>2, Zenon DEF SenderOk, Busy

LEMMA SendersNext ==
  ASSUME count' \in 0..MaxMessages, sender' = [s \in Senders |-> sender'[s]],
         \A s \in Senders : SenderOk(s, sender'[s], count')
  PROVE  SenderInv'
<1>1. sender' \in [Senders -> SenderType]
  BY DEF SenderOk
<1>2. QED
  BY <1>1, Zenon DEF SenderInv, Busy, SenderOk

(* One sender changes. *)
LEMMA OneSender ==
  ASSUME SenderInv, NEW s \in Senders, NEW x, sender' = [sender EXCEPT ![s] = x],
         count' \in 0..MaxMessages, count <= count', SenderOk(s, x, count')
  PROVE  SenderInv'
<1>1. count \in Nat /\ count' \in Nat
  BY Sizes DEF SenderInv
<1>2. sender = [u \in Senders |-> sender[u]] /\ \A u \in Senders : SenderOk(u, sender[u], count)
  BY SenderParts
<1>3. ASSUME NEW u \in Senders PROVE SenderOk(u, sender[u], count')
  <2>1. SenderOk(u, sender[u], count)
    BY <1>2
  <2>2. CASE sender[u].at \in {"in message", "spread"}
    <3>1. sender[u].msg \in Message /\ sender[u].msg.num <= count
      BY <2>1, <2>2 DEF SenderOk
    <3>2. sender[u].msg.num <= count'
      BY <1>1, <3>1, Messages
    <3>3. QED
      BY <2>1, <3>1, <3>2 DEF SenderOk
  <2>3. CASE sender[u].at \notin {"in message", "spread"}
    BY <2>1, <2>3 DEF SenderOk
  <2>4. QED
    BY <2>2, <2>3
<1>4. sender' = [u \in Senders |-> IF u = s THEN x ELSE sender[u]]
  BY <1>2
<1>5. \A u \in Senders : SenderOk(u, sender'[u], count')
  BY <1>3, <1>4
<1>6. sender' = [u \in Senders |-> sender'[u]]
  BY <1>4
<1>7. QED
  BY <1>5, <1>6, SendersNext

LEMMA SpreadOk ==
  ASSUME NEW s, NEW m \in Message, m.from = s, NEW n, m.num <= n, NEW M \in SUBSET Conns
  PROVE  SenderOk(s, [at |-> "spread", msg |-> m, todo |-> M], n)
  BY DEF SenderOk, SenderType

LEMMA RestOk ==
  ASSUME NEW s, NEW n, NEW at \in {"idle", "read", "gone"}
  PROVE  SenderOk(s, AtRest(at), n)
  BY DEF SenderOk, SenderType, AtRest

LEMMA TodoOk ==
  ASSUME NEW s, NEW n, NEW x, SenderOk(s, x, n), NEW T \in SUBSET Conns
  PROVE  SenderOk(s, [x EXCEPT !.todo = T], n)
<1>1. x \in SenderType
  BY DEF SenderOk
<1>2. /\ [x EXCEPT !.todo = T] \in SenderType /\ [x EXCEPT !.todo = T].at = x.at
      /\ [x EXCEPT !.todo = T].msg = x.msg
  BY <1>1 DEF SenderType
<1>3. QED
  BY <1>2 DEF SenderOk

LEMMA GoneOk ==
  ASSUME NEW s, NEW n, NEW x, SenderOk(s, x, n)
  PROVE  SenderOk(s, [x EXCEPT !.at = "gone"], n)
<1>1. x \in SenderType
  BY DEF SenderOk
<1>2. [x EXCEPT !.at = "gone"] \in SenderType /\ [x EXCEPT !.at = "gone"].at = "gone"
  BY <1>1 DEF SenderType
<1>3. QED
  BY <1>2 DEF SenderOk

(* The first part of a new message. *)
LEMMA NewMessage ==
  ASSUME SenderInv, NEW s \in Senders, count < MaxMessages
  PROVE  /\ [from |-> s, num |-> count + 1, parts |-> 1] \in Message
         /\ [from |-> s, num |-> count + 1, parts |-> 1].from = s
         /\ [from |-> s, num |-> count + 1, parts |-> 1].num <= count + 1
         /\ count + 1 \in 0..MaxMessages /\ count <= count + 1 /\ count \in Nat
<1>1. count \in Nat /\ count + 1 \in 1..MaxMessages /\ 1 \in 1..MaxParts /\ count <= count + 1
  BY Sizes DEF SenderInv
<1>2. QED
  BY <1>1, Sizes DEF Message

LEMMA SenderStep ==
  ASSUME ControlInv, SenderInv, [Next]_vars
  PROVE  SenderInv' /\ count <= count'
<1>1. /\ count \in 0..MaxMessages /\ count \in Nat /\ count <= count
      /\ sender = [s \in Senders |-> sender[s]]
      /\ \A s \in Senders : SenderOk(s, sender[s], count)
  BY SenderParts, Sizes DEF SenderInv
<1>2. members \in SUBSET Conns /\ Ranging \subseteq Conns
  BY DEF ControlInv, Ranging
<1>3. ASSUME UNCHANGED <<sender, count>> PROVE SenderInv' /\ count <= count'
  BY <1>1, <1>3 DEF SenderInv, Busy
<1>4. ASSUME NEW c \in Conns, Join(c) PROVE SenderInv' /\ count <= count'
  <2>1. PICK R \in SUBSET Ranging :
          sender' = [s \in Senders |->
                      IF s \in R THEN [sender[s] EXCEPT !.todo = @ \cup {c}]
                      ELSE IF s = c THEN AtRest("read") ELSE sender[s]]
    BY <1>4 DEF Join
  <2>2. count' = count
    BY <1>4 DEF Join
  <2>3. ASSUME NEW s \in Senders PROVE SenderOk(s, [sender[s] EXCEPT !.todo = @ \cup {c}], count)
    <3>1. sender[s].todo \cup {c} \in SUBSET Conns
      BY <1>1 DEF SenderOk, SenderType
    <3>2. QED
      BY <1>1, <3>1, TodoOk
  <2>4. \A s \in Senders : SenderOk(s, AtRest("read"), count)
    BY RestOk
  <2>5. \A s \in Senders : SenderOk(s, sender'[s], count)
    BY <1>1, <2>1, <2>3, <2>4
  <2>6. sender' = [s \in Senders |-> sender'[s]]
    BY <2>1
  <2>7. QED
    BY <1>1, <2>2, <2>5, <2>6, SendersNext
<1>5. ASSUME NEW c \in Conns, Cleanup(c) PROVE SenderInv' /\ count <= count'
  <2>1. /\ sender' = [s \in Senders |->
                        IF s \in Ranging THEN [sender[s] EXCEPT !.todo = @ \ {c}] ELSE sender[s]]
        /\ count' = count
    BY <1>5 DEF Cleanup
  <2>2. ASSUME NEW s \in Senders PROVE SenderOk(s, [sender[s] EXCEPT !.todo = @ \ {c}], count)
    <3>1. sender[s].todo \ {c} \in SUBSET Conns
      BY <1>1 DEF SenderOk, SenderType
    <3>2. QED
      BY <1>1, <3>1, TodoOk
  <2>3. \A s \in Senders : SenderOk(s, sender'[s], count)
    BY <1>1, <2>1, <2>2
  <2>4. sender' = [s \in Senders |-> sender'[s]]
    BY <2>1
  <2>5. QED
    BY <1>1, <2>1, <2>3, <2>4, SendersNext
<1>6. ASSUME NEW c \in Conns, ReadFirst(c) PROVE SenderInv' /\ count <= count'
  <2> DEFINE m == [from |-> c, num |-> count + 1, parts |-> 1]
             in == [at |-> "in message", msg |-> m, todo |-> {}]
  <2>1. /\ count < MaxMessages /\ count' = count + 1
        /\ \/ sender' = [sender EXCEPT ![c] = in]
           \/ BeginSpread(c, m)
    BY <1>6 DEF ReadFirst
  <2>2. c \in Senders /\ m \in Message /\ count' \in 0..MaxMessages /\ count <= count'
    BY <2>1, NewMessage, Sizes
  <2>3. m.from = c /\ m.num <= count'
    BY <2>1, <2>2, NewMessage
  <2> HIDE DEF m
  <2>4. SenderOk(c, in, count')
    BY <2>2, <2>3 DEF SenderOk, SenderType
  <2>5. SenderOk(c, [at |-> "spread", msg |-> m, todo |-> members], count')
    BY <1>2, <2>2, <2>3, SpreadOk
  <2> HIDE DEF in
  <2>6. QED
    BY <2>1, <2>2, <2>4, <2>5, OneSender DEF BeginSpread
<1>7. ASSUME NEW c \in Conns, ReadNext(c) PROVE SenderInv' /\ count <= count'
  <2> DEFINE m == [sender[c].msg EXCEPT !.parts = @ + 1]
             more == [sender[c] EXCEPT !.msg = m]
  <2>1. /\ sender[c].at = "in message" /\ sender[c].msg.parts < MaxParts /\ count' = count
        /\ \/ sender' = [sender EXCEPT ![c] = more]
           \/ BeginSpread(c, m)
    BY <1>7 DEF ReadNext
  <2>2. /\ c \in Senders /\ sender[c] \in SenderType
        /\ sender[c].msg \in Message /\ sender[c].msg.from = c /\ sender[c].msg.num <= count
    BY <1>1, <2>1, Sizes DEF SenderOk
  <2>3. m \in Message /\ m.from = c /\ m.num <= count
    <3> DEFINE old == sender[c].msg
    <3>1. old \in Message /\ old.parts < MaxParts /\ old.from = c /\ old.num <= count
      BY <2>1, <2>2
    <3>2. m = [old EXCEPT !.parts = old.parts + 1]
      OBVIOUS
    <3> HIDE DEF old, m
    <3>3. old.parts + 1 \in 1..MaxParts
      BY <3>1, Messages, Sizes
    <3>4. QED
      BY <3>1, <3>2, <3>3 DEF Message
  <2> HIDE DEF m
  <2>4. SenderOk(c, more, count)
    BY <2>2, <2>3 DEF SenderOk, SenderType
  <2>5. SenderOk(c, [at |-> "spread", msg |-> m, todo |-> members], count)
    BY <1>2, <2>3, SpreadOk
  <2> HIDE DEF more
  <2>6. QED
    BY <1>1, <2>1, <2>2, <2>4, <2>5, OneSender DEF BeginSpread
<1>8. ASSUME NEW c \in Conns, ReadCut(c) PROVE SenderInv' /\ count <= count'
  <2>1. sender[c].at = "in message" /\ count' = count /\ BeginSpread(c, sender[c].msg)
    BY <1>8 DEF ReadCut
  <2>2. /\ c \in Senders /\ sender[c].msg \in Message /\ sender[c].msg.from = c
        /\ sender[c].msg.num <= count
    BY <1>1, <2>1, Sizes DEF SenderOk
  <2>3. SenderOk(c, [at |-> "spread", msg |-> sender[c].msg, todo |-> members], count)
    BY <1>2, <2>2, SpreadOk
  <2>4. QED
    BY <1>1, <2>1, <2>2, <2>3, OneSender DEF BeginSpread
<1>9. ASSUME NEW c \in Conns, ReadEnds(c) PROVE SenderInv' /\ count <= count'
  <2> DEFINE x == [sender[c] EXCEPT !.at = "gone"]
  <2>1. sender' = [sender EXCEPT ![c] = x] /\ count' = count
    BY <1>9 DEF ReadEnds
  <2>2. c \in Senders /\ SenderOk(c, x, count)
    BY <1>1, GoneOk, Sizes
  <2> HIDE DEF x
  <2>3. QED
    BY <1>1, <2>1, <2>2, OneSender
<1>10. ASSUME NEW s \in Senders, NEW c \in Conns, Spread(s, c) PROVE SenderInv' /\ count <= count'
  <2> DEFINE x == [sender[s] EXCEPT !.todo = @ \ {c}]
  <2>1. sender' = [sender EXCEPT ![s] = x] /\ count' = count
    BY <1>10 DEF Spread
  <2>2. SenderOk(s, x, count)
    <3>1. sender[s].todo \ {c} \in SUBSET Conns
      BY <1>1 DEF SenderOk, SenderType
    <3>2. QED
      BY <1>1, <3>1, TodoOk
  <2> HIDE DEF x
  <2>3. QED
    BY <1>1, <2>1, <2>2, OneSender
<1>11. ASSUME NEW s \in Senders, SpreadEnds(s) PROVE SenderInv' /\ count <= count'
  <2> DEFINE at == IF s = Admin THEN "idle" ELSE "read"
  <2>1. sender' = [sender EXCEPT ![s] = AtRest(at)] /\ count' = count
    BY <1>11 DEF SpreadEnds
  <2>2. SenderOk(s, AtRest(at), count)
    BY RestOk
  <2> HIDE DEF at
  <2>3. QED
    BY <1>1, <2>1, <2>2, OneSender
<1>12. CASE BroadcastAll
  <2> DEFINE m == [from |-> Admin, num |-> count + 1, parts |-> 1]
  <2>1. count < MaxMessages /\ count' = count + 1 /\ BeginSpread(Admin, m)
    BY <1>12 DEF BroadcastAll
  <2>2. Admin \in Senders /\ m \in Message /\ count' \in 0..MaxMessages /\ count <= count'
    BY <2>1, NewMessage, Sizes
  <2>3. m.from = Admin /\ m.num <= count'
    BY <2>1, <2>2, NewMessage
  <2> HIDE DEF m
  <2>4. SenderOk(Admin, [at |-> "spread", msg |-> m, todo |-> members], count')
    BY <1>2, <2>2, <2>3, SpreadOk
  <2>5. QED
    BY <2>1, <2>2, <2>4, OneSender DEF BeginSpread
<1>13. QED
  BY <1>3, <1>4, <1>5, <1>6, <1>7, <1>8, <1>9, <1>10, <1>11, <1>12, WritersOfSender DEF SenderNext

-----------------------------------------------------------------------------
(* Jobs, workers, queues and pumps.                                        *)

LEMMA JobsStep ==
  ASSUME SenderInv, JobsInv, [Next]_vars
  PROVE  JobsInv'
<1>1. jobs \in Seq(Job) /\ Len(jobs) <= JobQueueSize /\ Len(jobs) \in Nat
  BY LenProperties DEF JobsInv
<1>2. CASE jobs' = jobs
  BY <1>2 DEF JobsInv
<1>3. ASSUME NEW s \in Senders, NEW c \in Conns, Spread(s, c) PROVE JobsInv'
  <2> DEFINE j == [conn |-> c, msg |-> sender[s].msg]
  <2>1. /\ sender[s].at = "spread"
        /\ jobs' = jobs \/ (Len(jobs) < JobQueueSize /\ jobs' = Append(jobs, j))
    BY <1>3 DEF Spread
  <2>2. j \in Job
    BY <2>1 DEF SenderInv, Busy, Job
  <2> HIDE DEF j
  <2>3. Len(jobs) < JobQueueSize /\ jobs' = Append(jobs, j) =>
          jobs' \in Seq(Job) /\ Len(jobs') <= JobQueueSize
    BY <1>1, <2>2, AppendProperties, Sizes
  <2>4. QED
    BY <1>2, <2>1, <2>3 DEF JobsInv
<1>4. ASSUME NEW w \in Workers, TakeJob(w) PROVE JobsInv'
  <2>1. jobs # <<>> /\ jobs' = Tail(jobs)
    BY <1>4 DEF TakeJob
  <2>2. jobs' \in Seq(Job) /\ Len(jobs') = Len(jobs) - 1
    BY <1>1, <2>1, HeadTailProperties
  <2>3. Len(jobs') <= JobQueueSize
    BY <1>1, <2>2, Sizes
  <2>4. QED
    BY <2>2, <2>3 DEF JobsInv
<1>5. QED
  BY <1>2, <1>3, <1>4, WritersOfJobs

LEMMA WorkerStep ==
  ASSUME JobsInv, WorkerInv, [Next]_vars
  PROVE  WorkerInv'
<1>1. worker \in [Workers -> WorkerType]
  BY DEF WorkerInv
<1>2. ASSUME NEW w \in Workers, NEW x \in WorkerType, worker' = [worker EXCEPT ![w] = x],
             x.at \in {"send", "blocked"} => x.conn \in Conns /\ x.msg \in Message
      PROVE  WorkerInv'
  BY <1>1, <1>2 DEF WorkerInv, Sending
<1>3. ASSUME NEW w \in Workers, NEW at \in {"idle", "gone"}, Rest(w, at) PROVE WorkerInv'
  <2> DEFINE x == [at |-> at, conn |-> Admin, msg |-> NoMessage]
  <2>1. worker' = [worker EXCEPT ![w] = x]
    BY <1>3 DEF Rest
  <2>2. x \in WorkerType /\ x.at \notin {"send", "blocked"}
    BY DEF WorkerType
  <2> HIDE DEF x
  <2>3. QED
    BY <1>2, <2>1, <2>2
<1>4. CASE worker' = worker
  BY <1>4 DEF WorkerInv, Sending
<1>5. ASSUME NEW w \in Workers, WorkerNext(w) PROVE WorkerInv'
  <2>1. CASE TakeJob(w)
    <3> DEFINE x == [at |-> "send", conn |-> Head(jobs).conn, msg |-> Head(jobs).msg]
    <3>1. jobs # <<>> /\ (worker' = worker \/ worker' = [worker EXCEPT ![w] = x])
      BY <2>1 DEF TakeJob
    <3>2. Head(jobs) \in Job
      BY <3>1, HeadTailProperties DEF JobsInv
    <3>3. x \in WorkerType /\ x.conn \in Conns /\ x.msg \in Message
      BY <3>2 DEF Job, WorkerType
    <3> HIDE DEF x
    <3>4. QED
      BY <1>2, <1>4, <3>1, <3>3
  <2>2. CASE Enqueue(w) \/ GiveUp(w) \/ WorkerEnds(w)
    BY <1>3, <2>2 DEF Enqueue, GiveUp, WorkerEnds
  <2>3. CASE EnqueueFull(w)
    <3> DEFINE x == [worker[w] EXCEPT !.at = "blocked"]
    <3>1. worker[w].at = "send" /\ (worker' = [worker EXCEPT ![w] = x] \/ Rest(w, "idle"))
      BY <2>3 DEF EnqueueFull
    <3>2. x \in WorkerType /\ x.conn \in Conns /\ x.msg \in Message
      BY <1>1, <3>1 DEF WorkerInv, Sending, WorkerType
    <3> HIDE DEF x
    <3>3. QED
      BY <1>2, <1>3, <3>1, <3>2
  <2>4. QED
    BY <1>5, <2>1, <2>2, <2>3 DEF WorkerNext
<1>6. QED
  BY <1>4, <1>5, WritersOfWorker

LEMMA QueueStep ==
  ASSUME WorkerInv, QueueInv, [Next]_vars
  PROVE  QueueInv'
<1>1. /\ queue \in [Conns -> Seq(Message)]
      /\ \A c \in Conns : queue[c] \in Seq(Message) /\ Len(queue[c]) \in Nat /\ Len(queue[c]) <= SendQueueSize
  BY LenProperties DEF QueueInv
<1>2. CASE queue' = queue
  BY <1>2 DEF QueueInv
<1>3. ASSUME NEW c \in Conns, NEW q \in Seq(Message), Len(q) <= SendQueueSize,
             queue' = [queue EXCEPT ![c] = q]
      PROVE  QueueInv'
  BY <1>1, <1>3 DEF QueueInv
<1>4. ASSUME NEW w \in Workers, Enqueue(w) PROVE QueueInv'
  <2> DEFINE c == worker[w].conn
             m == worker[w].msg
             q == Append(queue[c], m)
  <2>1. c \in Conns /\ m \in Message
    BY <1>4 DEF Enqueue, WorkerInv, Sending
  <2>2. ~(Len(queue[c]) >= SendQueueSize) /\ queue' = [queue EXCEPT ![c] = q]
    BY <1>4 DEF Enqueue, Full
  <2> HIDE DEF c, m
  <2>3. q \in Seq(Message) /\ Len(q) <= SendQueueSize
    BY <1>1, <2>1, <2>2, AppendProperties, Sizes
  <2>4. QED
    BY <1>3, <2>1, <2>2, <2>3
<1>5. ASSUME NEW c \in Conns, PumpTakes(c) PROVE QueueInv'
  <2> DEFINE q == Tail(queue[c])
  <2>1. queue[c] # <<>> /\ queue' = [queue EXCEPT ![c] = q]
    BY <1>5 DEF PumpTakes
  <2>2. q \in Seq(Message) /\ Len(q) = Len(queue[c]) - 1
    BY <1>1, <2>1, HeadTailProperties
  <2> HIDE DEF q
  <2>3. Len(q) <= SendQueueSize
    BY <1>1, <2>2, Sizes
  <2>4. QED
    BY <1>3, <2>1, <2>2, <2>3
<1>6. QED
  BY <1>2, <1>4, <1>5, WritersOfQueue

(* One pump changes. *)
LEMMA OnePump ==
  ASSUME PumpInv, NEW c \in Conns, NEW x \in PumpType, pump' = [pump EXCEPT ![c] = x],
         x.at = "write" => x.msg \in Message /\ x.part \in 1..x.msg.parts,
         last' \in [Conns -> [Senders -> FrameType]]
  PROVE  PumpInv'
<1>1. pump \in [Conns -> PumpType]
  BY DEF PumpInv
<1>2. pump' \in [Conns -> PumpType]
  BY <1>1
<1>3. ASSUME NEW d \in Conns, pump'[d].at = "write"
      PROVE  pump'[d].msg \in Message /\ pump'[d].part \in 1..pump'[d].msg.parts
  <2>1. CASE d = c
    BY <1>1, <1>3, <2>1
  <2>2. CASE d # c
    BY <1>1, <1>3, <2>2 DEF PumpInv
  <2>3. QED
    BY <2>1, <2>2
<1>4. QED
  BY <1>2, <1>3 DEF PumpInv

(* What a pump that writes is about to send. *)
LEMMA Writing ==
  ASSUME PumpInv, NEW c \in Conns, pump[c].at = "write"
  PROVE  /\ pump[c] \in PumpType /\ pump[c].msg \in Message /\ pump[c].msg.from \in Senders
         /\ pump[c].part \in 1..pump[c].msg.parts /\ pump[c].msg.parts \in 1..MaxParts
         /\ pump[c].part \in Nat /\ pump[c].msg.parts \in Nat /\ MaxParts \in Nat
         /\ Frame(c) \in FrameType
<1>1. /\ pump[c] \in PumpType /\ pump[c].msg \in Message
      /\ pump[c].part \in 1..pump[c].msg.parts
  BY DEF PumpInv
<1>2. pump[c].msg.from \in Senders /\ pump[c].msg.parts \in 1..MaxParts /\ pump[c].msg.parts \in Nat
  BY <1>1, Messages
<1>3. pump[c].part \in 0..MaxParts
  BY <1>1 DEF PumpType
<1>4. Frame(c) \in FrameType
  BY <1>1, <1>3 DEF Frame, FrameType
<1>5. QED
  BY <1>1, <1>2, <1>4, Sizes

LEMMA IdlePump ==
  /\ PumpIdle \in PumpType /\ PumpIdle.at = "idle"
  /\ [PumpIdle EXCEPT !.at = "gone"] \in PumpType /\ [PumpIdle EXCEPT !.at = "gone"].at = "gone"
  BY Sizes DEF PumpIdle, PumpType

LEMMA PumpStep ==
  ASSUME QueueInv, PumpInv, [Next]_vars
  PROVE  PumpInv'
<1>1. last \in [Conns -> [Senders -> FrameType]] /\ pump \in [Conns -> PumpType]
  BY DEF PumpInv
<1>2. CASE UNCHANGED <<pump, last>>
  BY <1>2 DEF PumpInv
<1>3. ASSUME NEW c \in Conns, PumpTakes(c) PROVE PumpInv'
  <2> DEFINE x == [at |-> "write", msg |-> Head(queue[c]), part |-> 1]
  <2>1. queue[c] # <<>> /\ pump' = [pump EXCEPT ![c] = x] /\ last' = last
    BY <1>3 DEF PumpTakes
  <2>2. Head(queue[c]) \in Message
    BY <2>1, HeadTailProperties DEF QueueInv
  <2>3. 1 \in 0..MaxParts /\ 1 \in 1..Head(queue[c]).parts
    BY <2>2, Messages, Sizes
  <2>4. x \in PumpType /\ x.msg \in Message /\ x.part \in 1..x.msg.parts
    BY <2>2, <2>3 DEF PumpType
  <2> HIDE DEF x
  <2>5. QED
    BY <1>1, <2>1, <2>4, OnePump
<1>4. ASSUME NEW c \in Conns, PumpWrites(c) PROVE PumpInv'
  <2> DEFINE next == [pump[c] EXCEPT !.part = pump[c].part + 1]
             x == IF pump[c].part = pump[c].msg.parts THEN PumpIdle ELSE next
  <2>1. /\ pump[c].at = "write" /\ pump' = [pump EXCEPT ![c] = x]
        /\ last' = [last EXCEPT ![c][pump[c].msg.from] = Frame(c)]
    <3>1. pump[c].at = "write"
      BY <1>4 DEF PumpWrites
    <3>2. pump' = [pump EXCEPT ![c] = x]
      BY <1>4 DEF PumpWrites
    <3>3. last' = [last EXCEPT ![c][pump[c].msg.from] = Frame(c)]
      BY <1>4, Zenon DEF PumpWrites
    <3>4. QED
      BY <3>1, <3>2, <3>3
  <2>2. /\ pump[c] \in PumpType /\ pump[c].msg \in Message /\ pump[c].msg.from \in Senders
        /\ pump[c].part \in 1..pump[c].msg.parts /\ pump[c].msg.parts \in 1..MaxParts
        /\ pump[c].part \in Nat /\ pump[c].msg.parts \in Nat /\ MaxParts \in Nat
        /\ Frame(c) \in FrameType
    BY <2>1, Writing
  <2>3. last' \in [Conns -> [Senders -> FrameType]]
    BY <1>1, <2>1, <2>2
  <2>4. ASSUME pump[c].part # pump[c].msg.parts
        PROVE  next \in PumpType /\ next.msg \in Message /\ next.part \in 1..next.msg.parts
    <3>1. pump[c].part + 1 \in 1..pump[c].msg.parts /\ pump[c].part + 1 \in 0..MaxParts
      BY <2>2, <2>4
    <3>2. next \in PumpType /\ next.msg = pump[c].msg /\ next.part = pump[c].part + 1
      BY <2>2, <3>1 DEF PumpType
    <3>3. QED
      BY <2>2, <3>1, <3>2
  <2> HIDE DEF next
  <2>5. x \in PumpType /\ (x.at = "write" => x.msg \in Message /\ x.part \in 1..x.msg.parts)
    BY <2>4, IdlePump
  <2> HIDE DEF x
  <2>6. QED
    BY <2>1, <2>3, <2>5, OnePump
<1>5. ASSUME NEW c \in Conns, PumpFails(c) PROVE PumpInv'
  <2>1. \E x \in {PumpIdle, [PumpIdle EXCEPT !.at = "gone"]} : pump' = [pump EXCEPT ![c] = x]
    BY <1>5 DEF PumpFails
  <2>2. last' = last
    BY <1>5 DEF PumpFails
  <2>3. QED
    BY <1>1, <2>1, <2>2, IdlePump, OnePump
<1>6. ASSUME NEW c \in Conns, PumpEnds(c) PROVE PumpInv'
  <2> DEFINE x == [pump[c] EXCEPT !.at = "gone"]
  <2>1. pump' = [pump EXCEPT ![c] = x] /\ last' = last
    BY <1>6 DEF PumpEnds
  <2>2. x \in PumpType /\ x.at = "gone"
    BY <1>1 DEF PumpType
  <2> HIDE DEF x
  <2>3. QED
    BY <1>1, <2>1, <2>2, OnePump
<1>7. QED
  BY <1>2, <1>3, <1>4, <1>5, <1>6, WritersOfPump

(* Shutdown waits for the request, or gives up on it; after the hub was     *)
(* stopped no request begins.                                              *)
LEMMA StopStep ==
  ASSUME IInv, StopInv, [Next]_vars
  PROVE  StopInv'
<1>1. Admin \notin Conns /\ Admin # "map" /\ Admin # "none" /\ Admin \in Senders
  BY Sizes
<1>2. sender = [s \in Senders |-> sender[s]] /\ timedOut \in BOOLEAN
  BY SenderParts DEF IInv, ControlInv
<1>3. ASSUME UNCHANGED <<phase, timedOut>>, crash' = Admin => timedOut,
             sender'[Admin].at # "idle" => sender[Admin].at # "idle" \/ timedOut \/ phase = "up"
      PROVE  StopInv'
  BY <1>3 DEF StopInv, JobsClosed
<1>4. CASE UNCHANGED vars
  BY <1>3, <1>4 DEF vars, StopInv
<1>5. ASSUME NEW c \in Conns, ConnNext(c) PROVE StopInv'
  <2>1. UNCHANGED <<phase, timedOut>>
    BY <1>5 DEF ConnNext, Open, Join, Cleanup, Break, PongTimeout, ReadFirst, ReadNext, ReadCut,
       ReadEnds, PumpTakes, PumpWrites, PumpFails, PumpEnds
  <2>2. crash' = crash \/ crash' = "map"
    BY <1>5 DEF ConnNext, Open, Join, Cleanup, Break, PongTimeout, ReadFirst, ReadNext, ReadCut,
       ReadEnds, PumpTakes, PumpWrites, PumpFails, PumpEnds, MapWrite
  <2>3. sender'[Admin] = sender[Admin]
    <3>1. CASE Join(c)
      <4>1. PICK R \in SUBSET Ranging :
              sender' = [s \in Senders |->
                          IF s \in R THEN [sender[s] EXCEPT !.todo = @ \cup {c}]
                          ELSE IF s = c THEN AtRest("read") ELSE sender[s]]
        BY <3>1 DEF Join
      <4>2. QED
        BY <1>1, <4>1 DEF Ranging
    <3>2. CASE Cleanup(c)
      BY <1>1, <3>2 DEF Cleanup, Ranging
    <3>3. CASE ReadFirst(c) \/ ReadNext(c) \/ ReadCut(c) \/ ReadEnds(c)
      BY <1>1, <1>2, <3>3 DEF ReadFirst, ReadNext, ReadCut, ReadEnds, BeginSpread
    <3>4. CASE Open(c) \/ Break(c) \/ PongTimeout(c) \/ PumpTakes(c) \/ PumpWrites(c)
               \/ PumpFails(c) \/ PumpEnds(c)
      BY <3>4 DEF Open, Break, PongTimeout, PumpTakes, PumpWrites, PumpFails, PumpEnds
    <3>5. QED
      BY <1>5, <3>1, <3>2, <3>3, <3>4 DEF ConnNext
  <2>4. crash' = Admin => timedOut
    BY <1>1, <2>2 DEF StopInv
  <2>5. QED
    BY <1>3, <2>1, <2>3, <2>4
<1>6. ASSUME NEW s \in Senders, SenderNext(s) PROVE StopInv'
  <2>1. CASE SpreadEnds(s)
    <3>1. /\ UNCHANGED <<phase, crash, timedOut>>
          /\ sender' = [sender EXCEPT ![s] = AtRest(IF s = Admin THEN "idle" ELSE "read")]
      BY <2>1 DEF SpreadEnds
    <3>2. sender'[Admin].at # "idle" => sender[Admin].at # "idle"
      BY <1>1, <1>2, <3>1 DEF AtRest
    <3>3. QED
      BY <1>3, <3>1, <3>2 DEF StopInv
  <2>2. ASSUME NEW c \in Conns, Spread(s, c) PROVE StopInv'
    <3>1. /\ UNCHANGED <<phase, timedOut>> /\ sender[s].at = "spread"
          /\ sender' = [sender EXCEPT ![s].todo = @ \ {c}]
          /\ crash' = crash \/ (JobsClosed /\ crash' = s)
      BY <2>2 DEF Spread
    <3>2. sender'[Admin].at # "idle" => sender[Admin].at # "idle"
      <4>1. CASE s = Admin
        BY <3>1, <4>1
      <4>2. CASE s # Admin
        BY <1>1, <1>2, <3>1, <4>2
      <4>3. QED
        BY <4>1, <4>2
    <3>3. crash' = Admin => timedOut
      BY <3>1 DEF StopInv
    <3>4. QED
      BY <1>3, <3>1, <3>2, <3>3
  <2>3. QED
    BY <1>6, <2>1, <2>2 DEF SenderNext
<1>7. ASSUME NEW w \in Workers, WorkerNext(w) PROVE StopInv'
  <2>1. UNCHANGED <<phase, timedOut, crash, sender>>
    BY <1>7 DEF WorkerNext, TakeJob, Enqueue, EnqueueFull, GiveUp, WorkerEnds
  <2>2. QED
    BY <1>3, <2>1 DEF StopInv
<1>8. CASE BroadcastAll
  <2>1. UNCHANGED <<phase, timedOut, crash>> /\ phase = "up"
    BY <1>8 DEF BroadcastAll
  <2>2. QED
    BY <1>3, <2>1 DEF StopInv
<1>9. CASE Signal
  BY <1>9 DEF Signal, StopInv, JobsClosed
<1>10. CASE Stop
  <2>1. /\ timedOut' = (sender[Admin].at # "idle") /\ UNCHANGED <<sender, crash>> /\ crash = "none"
    BY <1>10 DEF Stop, Alive
  <2>2. QED
    BY <1>1, <2>1 DEF StopInv
<1>11. CASE StopReturn
  BY <1>11 DEF StopReturn, StopInv, JobsClosed
<1>12. QED
  BY <1>4, <1>5, <1>6, <1>7, <1>8, <1>9, <1>10, <1>11 DEF Next

LEMMA Inductive == ASSUME IInv, [Next]_vars PROVE IInv'
<1>1. ControlInv' /\ SenderInv' /\ JobsInv' /\ WorkerInv' /\ QueueInv' /\ PumpInv'
  BY Control, SenderStep, JobsStep, WorkerStep, QueueStep, PumpStep DEF IInv
<1>2. QED
  BY <1>1 DEF IInv

LEMMA Invariant == Spec => [](IInv /\ StopInv)
<1>1. IInv /\ StopInv /\ [Next]_vars => (IInv /\ StopInv)'
  BY Inductive, StopStep
<1>2. QED
  BY Initially, <1>1, PTL DEF Spec

(* Every variable keeps its type, and no queue holds more than its channel. *)
THEOREM TypeCorrect == Spec => []TypeOK
<1>1. IInv => TypeOK
  BY TypeParts
<1>2. QED
  BY <1>1, Invariant, PTL

(* The broadcast to all meets the closed jobQueue only if Shutdown gave up  *)
(* waiting for it: main's order of Shutdown and hub.Stop.                   *)
THEOREM RequestSafe == Spec => []RequestSafeFromStop
<1>1. StopInv => RequestSafeFromStop
  BY DEF StopInv, RequestSafeFromStop
<1>2. QED
  BY <1>1, Invariant, PTL

-----------------------------------------------------------------------------
(* The order of messages.  A message of sender s with number n comes after  *)
(* everything of s that the peer of c has received or that its pump writes, *)
(* that is in its queue, that a worker brings, that waits for a worker.     *)

AfterPump(c, s, n) ==
    /\ last[c][s].msg.num < n
    /\ pump[c].at = "write" /\ pump[c].msg.from = s => pump[c].msg.num < n

AfterQueue(c, s, n) ==
    /\ AfterPump(c, s, n)
    /\ \A i \in DOMAIN queue[c] : queue[c][i].from = s => queue[c][i].num < n

AfterWorker(c, s, n) ==
    /\ AfterQueue(c, s, n)
    /\ \A w \in Workers :
         Sending(w) /\ worker[w].conn = c /\ worker[w].msg.from = s => worker[w].msg.num < n

AfterJobs(c, s, n) ==
    /\ AfterWorker(c, s, n)
    /\ \A i \in DOMAIN jobs : jobs[i].conn = c /\ jobs[i].msg.from = s => jobs[i].msg.num < n

(* A message on its way, or one that is still being read, comes after all   *)
(* that is ahead of it, and a new one after all.                           *)
ToCome(c, s) ==
    sender[s].at = "in message" \/ (sender[s].at = "spread" /\ c \in sender[s].todo)

QueueOrder(c) ==
    \A j \in DOMAIN queue[c] :
        /\ AfterPump(c, queue[c][j].from, queue[c][j].num)
        /\ \A i \in 1..(j - 1) :
             queue[c][i].from = queue[c][j].from => queue[c][i].num < queue[c][j].num

WorkerOrder(c) ==
    \A w \in Workers : Sending(w) /\ worker[w].conn = c =>
        AfterQueue(c, worker[w].msg.from, worker[w].msg.num)

JobsOrder(c) ==
    \A j \in DOMAIN jobs : jobs[j].conn = c =>
        /\ AfterWorker(c, jobs[j].msg.from, jobs[j].msg.num)
        /\ \A i \in 1..(j - 1) :
             jobs[i].conn = c /\ jobs[i].msg.from = jobs[j].msg.from =>
                 jobs[i].msg.num < jobs[j].msg.num

SenderOrder(c) ==
    \A s \in Senders :
        /\ AfterJobs(c, s, count + 1)
        /\ ToCome(c, s) => AfterJobs(c, s, sender[s].msg.num)

(* What the peer has is whole, but for the message that the pump is at. *)
PartsInv(c) ==
    /\ pump[c].at = "idle" => \A s \in Senders : Whole(last[c][s])
    /\ pump[c].at = "write" /\ pump[c].part = 1 =>
         /\ \A s \in Senders : Whole(last[c][s])
         /\ last[c][pump[c].msg.from].msg.num < pump[c].msg.num
    /\ pump[c].at = "write" /\ pump[c].part # 1 =>
         /\ \A s \in Senders \ {pump[c].msg.from} : Whole(last[c][s])
         /\ last[c][pump[c].msg.from] = [msg |-> pump[c].msg, part |-> pump[c].part - 1]

OrderInv(c) == QueueOrder(c) /\ WorkerOrder(c) /\ JobsOrder(c) /\ SenderOrder(c) /\ PartsInv(c)

(* Nothing is on its way to a connection that was never in the room. *)
Served == {c \in Conns : stage[c] = "serving"}

ServedInv ==
    /\ members \subseteq Served
    /\ \A s \in Senders : sender[s].todo \subseteq Served
    /\ \A i \in DOMAIN jobs : jobs[i].conn \in Served
    /\ \A w \in Workers : Sending(w) => worker[w].conn \in Served
    /\ \A c \in Conns \ Served :
         /\ queue[c] = <<>> /\ pump[c].at # "write"
         /\ \A s \in Senders : last[c][s].msg.num = 0

LEMMA ServedGrows == ASSUME ControlInv, [Next]_vars PROVE Served \subseteq Served'
<1>1. stage \in [Conns -> {"none", "opening", "serving"}]
  BY DEF ControlInv
<1>2. ASSUME NEW c \in Conns, Open(c) \/ Join(c) PROVE Served \subseteq Served'
  BY <1>1, <1>2 DEF Open, Join, Served
<1>3. ASSUME ~\E c \in Conns : Open(c) \/ Join(c) PROVE stage' = stage
  BY <1>3 DEF Next, vars, conns, ConnNext, Cleanup, Break, PongTimeout, ReadFirst, ReadNext,
     ReadCut,
     ReadEnds, PumpTakes, PumpWrites, PumpFails, PumpEnds, SenderNext, Spread, SpreadEnds,
     WorkerNext, TakeJob, Enqueue, EnqueueFull, GiveUp, WorkerEnds, BroadcastAll, Signal, Stop,
     StopReturn
<1>4. QED
  BY <1>2, <1>3 DEF Served

LEMMA ServedMembers ==
  ASSUME ControlInv, ServedInv, [Next]_vars PROVE members' \subseteq Served'
<1>1. members \subseteq Served /\ Served \subseteq Served'
  BY ServedGrows DEF ServedInv
<1>2. ASSUME NEW c \in Conns, Join(c) PROVE members' \subseteq Served'
  <2>1. members' = members \cup {c} /\ stage' = [stage EXCEPT ![c] = "serving"]
    BY <1>2 DEF Join
  <2>2. c \in Served'
    BY <2>1 DEF ControlInv, Served
  <2>3. QED
    BY <1>1, <2>1, <2>2
<1>3. ASSUME NEW c \in Conns, Cleanup(c) PROVE members' \subseteq Served'
  BY <1>1, <1>3 DEF Cleanup
<1>4. ASSUME ~\E c \in Conns : Join(c) \/ Cleanup(c) PROVE members' = members
  BY <1>4 DEF Next, vars, ConnNext, Open, Break, PongTimeout, ReadFirst, ReadNext, ReadCut,
     ReadEnds, PumpTakes, PumpWrites, PumpFails, PumpEnds, SenderNext, Spread, SpreadEnds,
     WorkerNext, TakeJob, Enqueue, EnqueueFull, GiveUp, WorkerEnds, BroadcastAll, Signal, Stop,
     StopReturn
<1>5. QED
  BY <1>1, <1>2, <1>3, <1>4

LEMMA ServedTodo ==
  ASSUME IInv, ServedInv, [Next]_vars
  PROVE  \A s \in Senders : sender'[s].todo \subseteq Served'
<1>1. /\ sender = [s \in Senders |-> sender[s]] /\ \A s \in Senders : sender[s] \in SenderType
      /\ Conns \subseteq Senders /\ Admin \in Senders
  BY SenderParts, Sizes DEF IInv, SenderOk
<1>2. /\ members \subseteq Served /\ Served \subseteq Served'
      /\ \A s \in Senders : sender[s].todo \subseteq Served
  BY ServedGrows DEF ServedInv, IInv
<1> DEFINE Goal == \A s \in Senders : sender'[s].todo \subseteq Served'
<1>3. CASE sender' = sender
  BY <1>2, <1>3
<1>4. ASSUME NEW s \in Senders, NEW x, sender' = [sender EXCEPT ![s] = x], x.todo \subseteq Served
      PROVE  Goal
  BY <1>1, <1>2, <1>4
<1>5. \A at : AtRest(at).todo = {}
  BY DEF AtRest
<1>6. ASSUME NEW c \in Conns, Join(c) PROVE Goal
  <2>1. PICK R \in SUBSET Ranging :
          sender' = [s \in Senders |->
                      IF s \in R THEN [sender[s] EXCEPT !.todo = @ \cup {c}]
                      ELSE IF s = c THEN AtRest("read") ELSE sender[s]]
    BY <1>6 DEF Join
  <2>2. c \in Served'
    BY <1>6 DEF Join, Served, IInv, ControlInv
  <2>3. ASSUME NEW s \in Senders
        PROVE  [sender[s] EXCEPT !.todo = @ \cup {c}].todo = sender[s].todo \cup {c}
    BY <1>1 DEF SenderType
  <2> HIDE DEF Served
  <2>4. ASSUME NEW s \in Senders PROVE sender'[s].todo \subseteq Served'
    BY <1>2, <1>5, <2>1, <2>2, <2>3
  <2>5. QED
    BY <2>4
<1>7. ASSUME NEW c \in Conns, Cleanup(c) PROVE Goal
  <2>1. sender' = [s \in Senders |->
                    IF s \in Ranging THEN [sender[s] EXCEPT !.todo = @ \ {c}] ELSE sender[s]]
    BY <1>7 DEF Cleanup
  <2>2. ASSUME NEW s \in Senders
        PROVE  [sender[s] EXCEPT !.todo = @ \ {c}].todo = sender[s].todo \ {c}
    BY <1>1 DEF SenderType
  <2> HIDE DEF Served
  <2>3. QED
    BY <1>2, <2>1, <2>2
<1>8. ASSUME NEW s \in Senders, NEW m, BeginSpread(s, m) PROVE Goal
  BY <1>2, <1>4, <1>8 DEF BeginSpread
<1>9. ASSUME NEW c \in Conns, ReadFirst(c) \/ ReadNext(c) \/ ReadCut(c) \/ ReadEnds(c) PROVE Goal
  <2>1. c \in Senders
    BY Sizes
  <2>2. CASE \E m : BeginSpread(c, m)
    BY <1>8, <2>1, <2>2
  <2>3. CASE sender' = [sender EXCEPT ![c].at = "gone"]
    <3>1. [sender[c] EXCEPT !.at = "gone"].todo = sender[c].todo
      BY <1>1, <2>1 DEF SenderType
    <3>2. QED
      BY <1>2, <1>4, <2>1, <2>3, <3>1
  <2>4. ASSUME NEW m, sender' = [sender EXCEPT ![c] = [at |-> "in message", msg |-> m, todo |-> {}]]
        PROVE  Goal
    <3> DEFINE x == [at |-> "in message", msg |-> m, todo |-> {}]
    <3>1. x.todo \subseteq Served /\ sender' = [sender EXCEPT ![c] = x]
      BY <2>4
    <3> HIDE DEF x
    <3>2. QED
      BY <1>4, <2>1, <3>1
  <2>5. ASSUME NEW m, sender' = [sender EXCEPT ![c].msg = m] PROVE Goal
    <3>1. [sender[c] EXCEPT !.msg = m].todo = sender[c].todo
      BY <1>1, <2>1 DEF SenderType
    <3>2. QED
      BY <1>2, <1>4, <2>1, <2>5, <3>1
  <2>6. QED
    BY <1>9, <2>2, <2>3, <2>4, <2>5 DEF ReadFirst, ReadNext, ReadCut, ReadEnds
<1>10. ASSUME NEW s \in Senders, SenderNext(s) PROVE Goal
  <2>1. CASE SpreadEnds(s)
    BY <1>4, <1>5, <2>1 DEF SpreadEnds
  <2>2. ASSUME NEW c \in Conns, Spread(s, c) PROVE Goal
    <3>1. sender' = [sender EXCEPT ![s] = [sender[s] EXCEPT !.todo = sender[s].todo \ {c}]]
      BY <2>2 DEF Spread
    <3>2. [sender[s] EXCEPT !.todo = sender[s].todo \ {c}].todo = sender[s].todo \ {c}
      BY <1>1 DEF SenderType
    <3>3. QED
      BY <1>2, <1>4, <3>1, <3>2
  <2>3. QED
    BY <1>10, <2>1, <2>2 DEF SenderNext
<1>11. CASE BroadcastAll
  BY <1>1, <1>8, <1>11 DEF BroadcastAll
<1>12. QED
  BY <1>3, <1>6, <1>7, <1>9, <1>10, <1>11, WritersOfSender

LEMMA ServedStep ==
  ASSUME IInv, ServedInv, [Next]_vars PROVE ServedInv'
<1>1. /\ Served \subseteq Served' /\ members' \subseteq Served'
      /\ \A s \in Senders : sender'[s].todo \subseteq Served'
  BY ServedGrows, ServedMembers, ServedTodo DEF IInv
<1>2. /\ \A s \in Senders : sender[s].todo \subseteq Served
      /\ \A i \in DOMAIN jobs : jobs[i].conn \in Served
      /\ \A w \in Workers : Sending(w) => worker[w].conn \in Served
      /\ \A c \in Conns \ Served :
           /\ queue[c] = <<>> /\ pump[c].at # "write"
           /\ \A s \in Senders : last[c][s].msg.num = 0
  BY DEF ServedInv
<1>3. /\ worker \in [Workers -> WorkerType] /\ queue \in [Conns -> Seq(Message)]
      /\ pump \in [Conns -> PumpType] /\ last \in [Conns -> [Senders -> FrameType]]
      /\ jobs \in Seq(Job) /\ Len(jobs) \in Nat /\ DOMAIN jobs = 1..Len(jobs)
  BY LenProperties DEF IInv, WorkerInv, QueueInv, PumpInv, JobsInv
<1> HIDE DEF Served
<1>4. \A i \in DOMAIN jobs' : jobs'[i].conn \in Served'
  <2>1. CASE jobs' = jobs
    BY <1>1, <1>2, <2>1
  <2>2. ASSUME NEW s \in Senders, NEW c \in Conns, Spread(s, c)
        PROVE  \A i \in DOMAIN jobs' : jobs'[i].conn \in Served'
    <3> DEFINE j == [conn |-> c, msg |-> sender[s].msg]
    <3>1. (jobs' = jobs \/ jobs' = Append(jobs, j)) /\ c \in sender[s].todo
      BY <2>2 DEF Spread
    <3>2. j.conn = c /\ c \in Served
      BY <1>2, <3>1
    <3>3. j \in Job
      BY <2>2 DEF Spread, IInv, SenderInv, Busy, Job
    <3> HIDE DEF j
    <3>4. jobs' = Append(jobs, j) =>
            \A i \in DOMAIN jobs' : jobs'[i] = j \/ (i \in DOMAIN jobs /\ jobs'[i] = jobs[i])
      BY <1>3, <3>3, AppendProperties
    <3>5. QED
      BY <1>1, <1>2, <2>1, <3>1, <3>2, <3>4
  <2>3. ASSUME NEW w \in Workers, TakeJob(w)
        PROVE  \A i \in DOMAIN jobs' : jobs'[i].conn \in Served'
    <3>1. jobs # <<>> /\ jobs' = Tail(jobs)
      BY <2>3 DEF TakeJob
    <3>2. \A i \in DOMAIN jobs' : i + 1 \in DOMAIN jobs /\ jobs'[i] = jobs[i + 1]
      BY <1>3, <3>1, HeadTailProperties
    <3>3. QED
      BY <1>1, <1>2, <3>2
  <2>4. QED
    BY <2>1, <2>2, <2>3, WritersOfJobs
<1>5. \A w \in Workers : Sending(w)' => worker'[w].conn \in Served'
  <2>1. CASE worker' = worker
    BY <1>1, <1>2, <2>1 DEF Sending
  <2>2. ASSUME NEW w \in Workers, WorkerNext(w)
        PROVE  \A v \in Workers : Sending(v)' => worker'[v].conn \in Served'
    <3>1. ASSUME NEW x, worker' = [worker EXCEPT ![w] = x],
                 x.at \in {"send", "blocked"} => x.conn \in Served
          PROVE  \A v \in Workers : Sending(v)' => worker'[v].conn \in Served'
      BY <1>1, <1>2, <1>3, <3>1 DEF Sending
    <3>2. ASSUME NEW at \in {"idle", "gone"}, Rest(w, at)
          PROVE  \A v \in Workers : Sending(v)' => worker'[v].conn \in Served'
      BY <3>1, <3>2 DEF Rest
    <3>3. CASE TakeJob(w)
      <4>1. jobs # <<>> /\ (worker' = worker \/ worker' = [worker EXCEPT ![w] =
                              [at |-> "send", conn |-> Head(jobs).conn, msg |-> Head(jobs).msg]])
        BY <3>3 DEF TakeJob
      <4>2. Head(jobs) = jobs[1] /\ 1 \in DOMAIN jobs
        BY <1>3, <4>1, HeadTailProperties
      <4>3. QED
        BY <1>2, <2>1, <3>1, <4>1, <4>2
    <3>4. CASE EnqueueFull(w)
      <4>1. /\ worker[w].at = "send"
            /\ \/ Rest(w, "idle")
               \/ worker' = [worker EXCEPT ![w] = [worker[w] EXCEPT !.at = "blocked"]]
        BY <3>4 DEF EnqueueFull
      <4>2. [worker[w] EXCEPT !.at = "blocked"].conn = worker[w].conn /\ worker[w].conn \in Served
        BY <1>2, <1>3, <4>1 DEF WorkerType, Sending
      <4>3. QED
        BY <3>1, <3>2, <4>1, <4>2
    <3>5. CASE Enqueue(w) \/ GiveUp(w) \/ WorkerEnds(w)
      BY <3>2, <3>5 DEF Enqueue, GiveUp, WorkerEnds
    <3>6. QED
      BY <2>2, <3>3, <3>4, <3>5 DEF WorkerNext
  <2>3. QED
    BY <2>1, <2>2, WritersOfWorker
<1>6. \A c \in Conns \ Served' : queue'[c] = <<>>
  <2>1. CASE queue' = queue
    BY <1>1, <1>2, <2>1
  <2>2. ASSUME NEW w \in Workers, Enqueue(w) PROVE \A c \in Conns \ Served' : queue'[c] = <<>>
    <3> DEFINE d == worker[w].conn
    <3>1. d \in Served /\ queue' = [queue EXCEPT ![d] = Append(@, worker[w].msg)]
      BY <1>2, <2>2 DEF Enqueue, Sending
    <3> HIDE DEF d
    <3>2. QED
      BY <1>1, <1>2, <1>3, <3>1
  <2>3. ASSUME NEW c \in Conns, PumpTakes(c) PROVE \A d \in Conns \ Served' : queue'[d] = <<>>
    <3>1. queue[c] # <<>> /\ queue' = [queue EXCEPT ![c] = Tail(@)]
      BY <2>3 DEF PumpTakes
    <3>2. c \in Served
      BY <1>2, <3>1
    <3>3. QED
      BY <1>1, <1>2, <1>3, <3>1, <3>2
  <2>4. QED
    BY <2>1, <2>2, <2>3, WritersOfQueue
<1>7. \A c \in Conns \ Served' : pump'[c].at # "write" /\ \A s \in Senders : last'[c][s].msg.num = 0
  <2>1. CASE UNCHANGED <<pump, last>>
    BY <1>1, <1>2, <2>1
  <2>2. ASSUME NEW c \in Conns, PumpTakes(c) \/ PumpWrites(c), NEW d \in Conns \ Served'
        PROVE  pump'[d].at # "write" /\ \A s \in Senders : last'[d][s].msg.num = 0
    <3>1. queue[c] # <<>> \/ pump[c].at = "write"
      BY <2>2 DEF PumpTakes, PumpWrites
    <3>2. c \in Served /\ d \notin Served /\ d # c
      BY <1>1, <1>2, <3>1
    <3>3. pump'[d] = pump[d] /\ last'[d] = last[d]
      BY <1>3, <2>2, <3>2 DEF PumpTakes, PumpWrites
    <3>4. QED
      BY <1>2, <3>2, <3>3
  <2>3. ASSUME NEW c \in Conns, PumpFails(c) \/ PumpEnds(c), NEW d \in Conns \ Served'
        PROVE  pump'[d].at # "write" /\ \A s \in Senders : last'[d][s].msg.num = 0
    <3>1. last' = last /\ \E x : x.at # "write" /\ pump' = [pump EXCEPT ![c] = x]
      <4>1. CASE PumpFails(c)
        <5>1. last' = last /\ \E x \in {PumpIdle, [PumpIdle EXCEPT !.at = "gone"]} :
                                 pump' = [pump EXCEPT ![c] = x]
          BY <4>1 DEF PumpFails
        <5>2. QED
          BY <5>1, IdlePump
      <4>2. CASE PumpEnds(c)
        <5>1. last' = last /\ pump' = [pump EXCEPT ![c] = [pump[c] EXCEPT !.at = "gone"]]
          BY <4>2 DEF PumpEnds
        <5>2. [pump[c] EXCEPT !.at = "gone"].at = "gone"
          BY <1>3 DEF PumpType
        <5>3. QED
          BY <5>1, <5>2
      <4>3. QED
        BY <2>3, <4>1, <4>2
    <3>2. d \notin Served
      BY <1>1
    <3>3. QED
      BY <1>2, <1>3, <3>1, <3>2
  <2>4. QED
    BY <2>1, <2>2, <2>3, WritersOfPump
<1>8. QED
  BY <1>1, <1>4, <1>5, <1>6, <1>7 DEF ServedInv

-----------------------------------------------------------------------------
(* Facts about the order.                                                  *)

Numbered(m) == m.num \in Nat

LEMMA MessageNumbered == \A m \in Message \cup {NoMessage} : Numbered(m)
  BY Messages DEF Numbered, NoMessage

LEMMA OnTheWay ==
  ASSUME IInv, NEW c \in Conns
  PROVE  /\ \A s \in Senders : last[c][s] \in FrameType /\ Numbered(last[c][s].msg)
         /\ pump[c].at = "write" => Numbered(pump[c].msg)
         /\ queue[c] \in Seq(Message) /\ Len(queue[c]) \in Nat /\ DOMAIN queue[c] = 1..Len(queue[c])
         /\ \A i \in DOMAIN queue[c] : queue[c][i] \in Message /\ Numbered(queue[c][i])
         /\ \A w \in Workers : Sending(w) => worker[w].msg \in Message /\ Numbered(worker[w].msg)
         /\ jobs \in Seq(Job) /\ Len(jobs) \in Nat /\ DOMAIN jobs = 1..Len(jobs)
         /\ \A i \in DOMAIN jobs : jobs[i].msg \in Message /\ Numbered(jobs[i].msg)
<1>1. \A s \in Senders : last[c][s] \in FrameType /\ Numbered(last[c][s].msg)
  BY MessageNumbered DEF IInv, PumpInv, FrameType
<1>2. pump[c].at = "write" => Numbered(pump[c].msg)
  BY MessageNumbered DEF IInv, PumpInv
<1>3. queue[c] \in Seq(Message) /\ Len(queue[c]) \in Nat /\ DOMAIN queue[c] = 1..Len(queue[c])
  BY LenProperties DEF IInv, QueueInv
<1>4. \A i \in DOMAIN queue[c] : queue[c][i] \in Message /\ Numbered(queue[c][i])
  BY <1>3, MessageNumbered
<1>5. \A w \in Workers : Sending(w) => worker[w].msg \in Message /\ Numbered(worker[w].msg)
  BY MessageNumbered DEF IInv, WorkerInv
<1>6. jobs \in Seq(Job) /\ Len(jobs) \in Nat /\ DOMAIN jobs = 1..Len(jobs)
  BY LenProperties DEF IInv, JobsInv
<1>7. \A i \in DOMAIN jobs : jobs[i].msg \in Message /\ Numbered(jobs[i].msg)
  <2>1. \A i \in DOMAIN jobs : jobs[i] \in Job
    BY <1>6
  <2>2. \A i \in DOMAIN jobs : jobs[i].msg \in Message
    BY <2>1 DEF Job
  <2>3. QED
    BY <2>2, MessageNumbered
<1>8. QED
  BY <1>1, <1>2, <1>3, <1>4, <1>5, <1>6, <1>7

(* What comes after all for a number does for a greater one. *)
LEMMA Monotone ==
  ASSUME IInv, NEW c \in Conns, NEW s \in Senders, NEW n \in Nat, NEW m \in Nat, n <= m,
         AfterJobs(c, s, n)
  PROVE  AfterJobs(c, s, m)
<1>1. \A k \in Nat : k < n => k < m
  OBVIOUS
<1>2. last[c][s].msg.num \in Nat /\ (pump[c].at = "write" => pump[c].msg.num \in Nat)
  BY OnTheWay DEF Numbered
<1>3. AfterPump(c, s, m)
  BY <1>1, <1>2 DEF AfterJobs, AfterWorker, AfterQueue, AfterPump
<1>4. AfterQueue(c, s, m)
  <2>1. \A i \in DOMAIN queue[c] : queue[c][i].num \in Nat
    BY OnTheWay DEF Numbered
  <2>2. QED
    BY <1>1, <1>3, <2>1 DEF AfterJobs, AfterWorker, AfterQueue
<1>5. AfterWorker(c, s, m)
  <2>1. \A w \in Workers : Sending(w) => worker[w].msg.num \in Nat
    BY OnTheWay DEF Numbered
  <2>2. QED
    BY <1>1, <1>4, <2>1 DEF AfterJobs, AfterWorker
<1>6. QED
  <2>1. \A i \in DOMAIN jobs : jobs[i].msg.num \in Nat
    BY OnTheWay DEF Numbered
  <2>2. QED
    BY <1>1, <1>5, <2>1 DEF AfterJobs

(* Everything comes after what never reached a connection. *)
LEMMA NothingAhead ==
  ASSUME IInv, ServedInv, NEW c \in Conns \ Served, NEW s \in Senders, NEW n \in Nat \ {0}
  PROVE  AfterJobs(c, s, n)
<1>1. /\ queue[c] = <<>> /\ pump[c].at # "write" /\ last[c][s].msg.num = 0
      /\ \A w \in Workers : Sending(w) => worker[w].conn # c
      /\ \A i \in DOMAIN jobs : jobs[i].conn # c
  BY DEF ServedInv
<1>2. 0 < n /\ DOMAIN queue[c] = {}
  BY <1>1
<1>3. QED
  BY <1>1, <1>2 DEF AfterJobs, AfterWorker, AfterQueue, AfterPump

Pipe(c) == QueueOrder(c) /\ WorkerOrder(c) /\ JobsOrder(c) /\ PartsInv(c)

(* Steps that leave the messages alone that are on their way. *)
LEMMA PipeSame ==
  ASSUME NEW c \in Conns, Pipe(c), UNCHANGED <<queue, pump, last, worker, jobs>>
  PROVE  Pipe(c)' /\ \A s, n : AfterJobs(c, s, n) <=> AfterJobs(c, s, n)'
<1>1. \A s, n : AfterPump(c, s, n) <=> AfterPump(c, s, n)'
  BY DEF AfterPump
<1>2. \A s, n : AfterQueue(c, s, n) <=> AfterQueue(c, s, n)'
  BY <1>1 DEF AfterQueue
<1>3. \A s, n : AfterWorker(c, s, n) <=> AfterWorker(c, s, n)'
  BY <1>2 DEF AfterWorker, Sending
<1>4. \A s, n : AfterJobs(c, s, n) <=> AfterJobs(c, s, n)'
  BY <1>3 DEF AfterJobs
<1>5. QueueOrder(c)'
  BY <1>1 DEF Pipe, QueueOrder
<1>6. WorkerOrder(c)'
  BY <1>2 DEF Pipe, WorkerOrder, Sending
<1>7. JobsOrder(c)'
  BY <1>3 DEF Pipe, JobsOrder
<1>8. PartsInv(c)'
  BY DEF Pipe, PartsInv
<1>9. QED
  BY <1>4, <1>5, <1>6, <1>7, <1>8 DEF Pipe

(* A step of the pipeline that forgets nothing of what is still ahead. *)
LEMMA SenderKept ==
  ASSUME NEW c \in Conns, SenderOrder(c), UNCHANGED <<sender, count>>,
         \A s, n : AfterJobs(c, s, n) => AfterJobs(c, s, n)'
  PROVE  SenderOrder(c)'
  BY DEF SenderOrder, ToCome

-----------------------------------------------------------------------------
(* The pump takes a message, writes, fails or ends.                        *)

LEMMA PumpTakesOrder ==
  ASSUME IInv, NEW c \in Conns, PumpTakes(c), NEW d \in Conns, Pipe(d)
  PROVE  Pipe(d)' /\ \A s, n : AfterJobs(d, s, n) => AfterJobs(d, s, n)'
<1> DEFINE q == queue[c]
           h == Head(queue[c])
<1>1. /\ pump[c].at = "idle" /\ q # <<>> /\ UNCHANGED <<jobs, worker, last>>
      /\ pump' = [pump EXCEPT ![c] = [at |-> "write", msg |-> h, part |-> 1]]
      /\ queue' = [queue EXCEPT ![c] = Tail(queue[c])]
  BY DEF PumpTakes
<1>2. pump \in [Conns -> PumpType] /\ queue \in [Conns -> Seq(Message)] /\ q \in Seq(Message)
  BY DEF IInv, PumpInv, QueueInv
<1>3. /\ Len(q) \in Nat /\ DOMAIN q = 1..Len(q) /\ h = q[1] /\ 1 \in DOMAIN q
      /\ DOMAIN Tail(q) = 1..(Len(q) - 1)
      /\ \A i \in DOMAIN Tail(q) : i + 1 \in DOMAIN q /\ Tail(q)[i] = q[i + 1]
  BY <1>1, <1>2, HeadTailProperties, LenProperties
<1>4. /\ pump'[c].at = "write" /\ pump'[c].msg = h /\ pump'[c].part = 1 /\ queue'[c] = Tail(q)
      /\ d # c => pump'[d] = pump[d] /\ queue'[d] = queue[d]
  BY <1>1, <1>2
<1>5. QueueOrder(d) /\ WorkerOrder(d) /\ JobsOrder(d) /\ PartsInv(d)
  BY DEF Pipe
<1> HIDE DEF q, h
<1>6. ASSUME NEW s, NEW n, AfterPump(d, s, n), d = c => (h.from = s => h.num < n)
      PROVE  AfterPump(d, s, n)'
  BY <1>1, <1>4, <1>6 DEF AfterPump
<1>7. ASSUME NEW s, NEW n, AfterQueue(d, s, n) PROVE AfterQueue(d, s, n)'
  <2>1. AfterPump(d, s, n)'
    BY <1>3, <1>6, <1>7 DEF AfterQueue, q
  <2>2. CASE d = c
    <3>1. \A i \in DOMAIN q : q[i].from = s => q[i].num < n
      BY <1>7, <2>2 DEF AfterQueue, q
    <3>2. \A i \in DOMAIN queue'[d] : queue'[d][i].from = s => queue'[d][i].num < n
      BY <1>3, <1>4, <2>2, <3>1
    <3>3. QED
      BY <2>1, <3>2 DEF AfterQueue
  <2>3. CASE d # c
    BY <1>4, <1>7, <2>1, <2>3 DEF AfterQueue
  <2>4. QED
    BY <2>2, <2>3
<1>8. \A s, n : AfterWorker(d, s, n) => AfterWorker(d, s, n)'
  BY <1>1, <1>7 DEF AfterWorker, Sending
<1>9. \A s, n : AfterJobs(d, s, n) => AfterJobs(d, s, n)'
  BY <1>1, <1>8 DEF AfterJobs
<1>10. QueueOrder(d)'
  <2>1. CASE d = c
    <3>1. ASSUME NEW j \in DOMAIN queue'[d]
          PROVE  /\ (AfterPump(d, queue[d][j].from, queue[d][j].num))'
                 /\ \A i \in 1..(j - 1) :
                      queue'[d][i].from = queue'[d][j].from => queue'[d][i].num < queue'[d][j].num
      <4>1. /\ j \in 1..(Len(q) - 1) /\ j + 1 \in DOMAIN q /\ queue'[d][j] = q[j + 1]
        BY <1>3, <1>4, <2>1
      <4>2. /\ AfterPump(d, q[j + 1].from, q[j + 1].num)
            /\ \A i \in 1..j : q[i].from = q[j + 1].from => q[i].num < q[j + 1].num
        <5>1. (j + 1) - 1 = j
          BY <4>1
        <5>2. QED
          BY <1>5, <2>1, <4>1, <5>1 DEF QueueOrder, q
      <4>3. ASSUME NEW s, NEW n, s = q[j + 1].from, n = q[j + 1].num PROVE AfterPump(d, s, n)'
        <5>1. 1 \in 1..j
          BY <4>1, <1>3
        <5>2. h.from = q[j + 1].from => h.num < q[j + 1].num
          BY <1>3, <4>2, <5>1
        <5>3. QED
          BY <1>6, <4>2, <4>3, <5>2
      <4>4. \A i \in 1..(j - 1) : i \in DOMAIN Tail(q) /\ i + 1 \in 1..j /\ queue'[d][i] = q[i + 1]
        BY <1>3, <1>4, <2>1, <4>1
      <4>5. \A i \in 1..(j - 1) :
              queue'[d][i].from = queue'[d][j].from => queue'[d][i].num < queue'[d][j].num
        BY <4>1, <4>2, <4>4
      <4>6. (AfterPump(d, queue[d][j].from, queue[d][j].num))'
        BY <4>1, <4>3 DEF AfterPump
      <4>7. QED
        BY <4>5, <4>6
    <3>2. QED
      BY <3>1 DEF QueueOrder
  <2>2. CASE d # c
    <3>1. \A s, n : AfterPump(d, s, n) => AfterPump(d, s, n)'
      BY <1>6, <2>2
    <3>2. QED
      BY <1>4, <1>5, <2>2, <3>1 DEF QueueOrder
  <2>3. QED
    BY <2>1, <2>2
<1>11. WorkerOrder(d)'
  BY <1>1, <1>5, <1>7 DEF WorkerOrder, Sending
<1>12. JobsOrder(d)'
  BY <1>1, <1>5, <1>8 DEF JobsOrder
<1>13. PartsInv(d)'
  <2>1. CASE d = c
    <3>1. (\A s \in Senders : Whole(last[c][s])) /\ last[c][h.from].msg.num < h.num
      BY <1>1, <1>3, <1>5, <2>1 DEF PartsInv, QueueOrder, AfterPump, q
    <3>2. QED
      BY <1>1, <1>4, <2>1, <3>1 DEF PartsInv
  <2>2. CASE d # c
    BY <1>1, <1>4, <1>5, <2>2 DEF PartsInv
  <2>3. QED
    BY <2>1, <2>2
<1>14. QED
  BY <1>9, <1>10, <1>11, <1>12, <1>13 DEF Pipe

(* A pump that changes while the queues stay, and keeps or lowers what the  *)
(* messages behind it must exceed.                                         *)
LEMMA PumpOnlyOrder ==
  ASSUME NEW d \in Conns, Pipe(d), UNCHANGED <<queue, worker, jobs>>,
         \A s, n : AfterPump(d, s, n) => AfterPump(d, s, n)', PartsInv(d)'
  PROVE  Pipe(d)' /\ \A s, n : AfterJobs(d, s, n) => AfterJobs(d, s, n)'
<1>1. \A s, n : AfterQueue(d, s, n) => AfterQueue(d, s, n)'
  BY DEF AfterQueue
<1>2. \A s, n : AfterWorker(d, s, n) => AfterWorker(d, s, n)'
  BY <1>1 DEF AfterWorker, Sending
<1>3. \A s, n : AfterJobs(d, s, n) => AfterJobs(d, s, n)'
  BY <1>2 DEF AfterJobs
<1>4. QueueOrder(d)'
  BY DEF Pipe, QueueOrder
<1>5. WorkerOrder(d)'
  BY <1>1 DEF Pipe, WorkerOrder, Sending
<1>6. JobsOrder(d)'
  BY <1>2 DEF Pipe, JobsOrder
<1>7. QED
  BY <1>3, <1>4, <1>5, <1>6 DEF Pipe

LEMMA PumpWritesOrder ==
  ASSUME IInv, NEW c \in Conns, PumpWrites(c), NEW d \in Conns, Pipe(d)
  PROVE  Pipe(d)' /\ \A s, n : AfterJobs(d, s, n) => AfterJobs(d, s, n)'
<1> DEFINE m == pump[c].msg
           k == pump[c].part
           next == [pump[c] EXCEPT !.part = pump[c].part + 1]
<1>1. /\ pump[c].at = "write" /\ UNCHANGED <<jobs, worker, queue>>
      /\ last' = [last EXCEPT ![c][m.from] = Frame(c)]
      /\ pump' = [pump EXCEPT ![c] = IF k = m.parts THEN PumpIdle ELSE next]
  <2>1. pump[c].at = "write" /\ UNCHANGED <<jobs, worker, queue>>
    BY DEF PumpWrites
  <2>2. last' = [last EXCEPT ![c][m.from] = Frame(c)]
    BY Zenon DEF PumpWrites
  <2>3. pump' = [pump EXCEPT ![c] = IF k = m.parts THEN PumpIdle ELSE next]
    BY DEF PumpWrites
  <2>4. QED
    BY <2>1, <2>2, <2>3
<1>2. /\ pump \in [Conns -> PumpType] /\ last \in [Conns -> [Senders -> FrameType]] /\ PumpInv
      /\ PartsInv(d)
  BY DEF IInv, PumpInv, Pipe
<1>3. /\ pump[c] \in PumpType /\ m \in Message /\ m.from \in Senders
      /\ k \in 1..m.parts /\ k \in Nat /\ m.parts \in Nat
  BY <1>1, <1>2, Writing
<1>4. /\ next.at = "write" /\ next.msg = m /\ next.part = k + 1
      /\ PumpIdle.at = "idle" /\ Frame(c) = [msg |-> m, part |-> k]
      /\ Frame(c).msg = m /\ Frame(c).part = k
  BY <1>1, <1>3, IdlePump DEF PumpType, Frame
<1>5. CASE d # c
  <2>1. pump'[d] = pump[d] /\ last'[d] = last[d]
    BY <1>1, <1>2, <1>5
  <2>2. PartsInv(d)' /\ \A s, n : AfterPump(d, s, n) => AfterPump(d, s, n)'
    BY <1>2, <2>1 DEF PartsInv, AfterPump
  <2>3. QED
    BY <1>1, <2>2, PumpOnlyOrder
<1>6. CASE d = c
  <2>1. /\ last'[c][m.from] = Frame(c) /\ \A s \in Senders \ {m.from} : last'[c][s] = last[c][s]
        /\ pump'[c] = IF k = m.parts THEN PumpIdle ELSE next
        /\ \A s : s # m.from => last'[c][s] = last[c][s]
    BY <1>1, <1>2, <1>3
  <2>2. \A s \in Senders \ {m.from} : Whole(last[c][s])
    BY <1>1, <1>2, <1>6 DEF PartsInv
  <2> HIDE DEF m, k, next
  <2>3. ASSUME NEW s, NEW n, AfterPump(c, s, n) PROVE AfterPump(c, s, n)'
    <3>1. m.from = s => m.num < n
      BY <1>1, <2>3 DEF AfterPump, m
    <3>2. last'[c][s].msg.num < n
      BY <1>4, <2>1, <2>3, <3>1 DEF AfterPump
    <3>3. pump'[c].at = "write" => pump'[c].msg = m
      BY <1>4, <2>1
    <3>4. QED
      BY <3>1, <3>2, <3>3 DEF AfterPump
  <2>4. PartsInv(c)'
    <3>1. CASE k = m.parts
      <4>1. Whole(Frame(c))
        BY <1>4, <3>1 DEF Whole
      <4>2. pump'[c].at = "idle" /\ \A s \in Senders : Whole(last'[c][s])
        BY <1>4, <2>1, <2>2, <3>1, <4>1
      <4>3. QED
        BY <4>2 DEF PartsInv, Whole
    <3>2. CASE k # m.parts
      <4>1. /\ pump'[c].at = "write" /\ pump'[c].msg = m /\ pump'[c].part = k + 1
        BY <1>4, <2>1, <3>2
      <4>2. k + 1 # 1 /\ (k + 1) - 1 = k
        BY <1>3
      <4>3. \A s \in Senders \ {m.from} : Whole(last'[c][s])
        BY <2>1, <2>2
      <4>4. last'[c][m.from] = [msg |-> m, part |-> k]
        BY <1>4, <2>1
      <4>5. QED
        BY <4>1, <4>2, <4>3, <4>4 DEF PartsInv, Whole
    <3>3. QED
      BY <3>1, <3>2
  <2>5. QED
    BY <1>1, <1>6, <2>3, <2>4, PumpOnlyOrder
<1>7. QED
  BY <1>5, <1>6

LEMMA PumpStopsOrder ==
  ASSUME IInv, NEW c \in Conns, PumpFails(c) \/ PumpEnds(c), NEW d \in Conns, Pipe(d)
  PROVE  Pipe(d)' /\ \A s, n : AfterJobs(d, s, n) => AfterJobs(d, s, n)'
<1>1. /\ UNCHANGED <<jobs, worker, queue, last>> /\ pump \in [Conns -> PumpType] /\ PumpInv
      /\ PartsInv(d)
  BY DEF PumpFails, PumpEnds, IInv, PumpInv, Pipe
<1>2. d # c => pump'[d] = pump[d]
  BY <1>1 DEF PumpFails, PumpEnds
<1>3. /\ pump'[c].at \in {"idle", "gone"}
      /\ pump'[c].at = "idle" => pump[c].at = "write" /\ pump[c].msg.parts = 1
  <2>1. CASE PumpFails(c)
    <3>1. pump[c].at = "write" /\
            IF pump[c].msg.parts = 1 THEN pump' = [pump EXCEPT ![c] = PumpIdle]
            ELSE pump' = [pump EXCEPT ![c] = [PumpIdle EXCEPT !.at = "gone"]]
      BY <2>1 DEF PumpFails
    <3>2. QED
      BY <1>1, <3>1, IdlePump
  <2>2. CASE PumpEnds(c)
    <3>1. pump' = [pump EXCEPT ![c] = [pump[c] EXCEPT !.at = "gone"]]
      BY <2>2 DEF PumpEnds
    <3>2. [pump[c] EXCEPT !.at = "gone"].at = "gone"
      BY <1>1 DEF PumpType
    <3>3. QED
      BY <1>1, <3>1, <3>2
  <2>3. QED
    BY <2>1, <2>2
<1>4. \A s, n : AfterPump(d, s, n) => AfterPump(d, s, n)'
  BY <1>1, <1>2, <1>3 DEF AfterPump
<1>5. PartsInv(d)'
  <2>1. CASE d # c
    BY <1>1, <1>2, <2>1 DEF PartsInv
  <2>2. CASE d = c
    <3>1. pump'[c].at = "idle" => pump[c].part = 1
      BY <1>1, <1>3, Writing
    <3>2. pump'[c].at = "idle" => \A s \in Senders : Whole(last[c][s])
      BY <1>1, <1>3, <2>2, <3>1 DEF PartsInv
    <3>3. QED
      BY <1>1, <1>3, <2>2, <3>2 DEF PartsInv
  <2>3. QED
    BY <2>1, <2>2
<1>6. QED
  BY <1>1, <1>4, <1>5, PumpOnlyOrder

-----------------------------------------------------------------------------
(* Workers.                                                                *)

(* A worker waits, gives up, ends, or finds the connection closed. *)
LEMMA WorkerRestsOrder ==
  ASSUME IInv, NEW w \in Workers, EnqueueFull(w) \/ GiveUp(w) \/ WorkerEnds(w),
         NEW d \in Conns, Pipe(d)
  PROVE  Pipe(d)' /\ \A s, n : AfterJobs(d, s, n) => AfterJobs(d, s, n)'
<1>1. UNCHANGED <<jobs, queue, pump, last>> /\ worker \in [Workers -> WorkerType]
  BY DEF EnqueueFull, GiveUp, WorkerEnds, IInv, WorkerInv
<1>2. \A v \in Workers : Sending(v)' => /\ Sending(v) /\ worker'[v].conn = worker[v].conn
                                       /\ worker'[v].msg = worker[v].msg
  <2>1. ASSUME NEW at \in {"idle", "gone"}, Rest(w, at), NEW v \in Workers, Sending(v)'
        PROVE  Sending(v) /\ worker'[v] = worker[v]
    BY <1>1, <2>1 DEF Rest, Sending
  <2>2. ASSUME worker' = [worker EXCEPT ![w] = [worker[w] EXCEPT !.at = "blocked"]],
               worker[w].at = "send", NEW v \in Workers, Sending(v)'
        PROVE  Sending(v) /\ worker'[v].conn = worker[v].conn /\ worker'[v].msg = worker[v].msg
    <3>1. /\ [worker[w] EXCEPT !.at = "blocked"].conn = worker[w].conn
          /\ [worker[w] EXCEPT !.at = "blocked"].msg = worker[w].msg
      BY <1>1 DEF WorkerType
    <3>2. QED
      BY <1>1, <2>2, <3>1 DEF Sending
  <2>3. \/ Rest(w, "idle") \/ Rest(w, "gone")
        \/ /\ worker' = [worker EXCEPT ![w] = [worker[w] EXCEPT !.at = "blocked"]]
           /\ worker[w].at = "send"
    BY DEF EnqueueFull, GiveUp, WorkerEnds
  <2>4. QED
    BY <2>1, <2>2, <2>3
<1>3. \A s, n : AfterQueue(d, s, n) <=> AfterQueue(d, s, n)'
  BY <1>1 DEF AfterQueue, AfterPump
<1>4. \A s, n : AfterWorker(d, s, n) => AfterWorker(d, s, n)'
  BY <1>2, <1>3 DEF AfterWorker
<1>5. \A s, n : AfterJobs(d, s, n) => AfterJobs(d, s, n)'
  BY <1>1, <1>4 DEF AfterJobs
<1>6. QueueOrder(d)' /\ PartsInv(d)'
  BY <1>1 DEF Pipe, QueueOrder, AfterPump, PartsInv
<1>7. WorkerOrder(d)'
  <2>1. ASSUME NEW v \in Workers, Sending(v)', worker'[v].conn = d
        PROVE  (AfterQueue(d, worker[v].msg.from, worker[v].msg.num))'
    <3>1. AfterQueue(d, worker[v].msg.from, worker[v].msg.num) /\ worker'[v].msg = worker[v].msg
      BY <1>2, <2>1 DEF Pipe, WorkerOrder
    <3>2. QED
      BY <1>1, <3>1 DEF AfterQueue, AfterPump
  <2>2. QED
    BY <2>1 DEF WorkerOrder
<1>8. JobsOrder(d)'
  BY <1>1, <1>4 DEF Pipe, JobsOrder
<1>9. QED
  BY <1>5, <1>6, <1>7, <1>8 DEF Pipe

LEMMA TakeJobOrder ==
  ASSUME IInv, NEW w \in Workers, TakeJob(w), NEW d \in Conns, Pipe(d)
  PROVE  Pipe(d)' /\ \A s, n : AfterJobs(d, s, n) => AfterJobs(d, s, n)'
<1> DEFINE h == Head(jobs)
<1>1. /\ worker[w].at = "idle" /\ jobs # <<>> /\ jobs' = Tail(jobs)
      /\ UNCHANGED <<queue, pump, last>>
      /\ worker' = worker \/ worker' = [worker EXCEPT ![w] =
                                           [at |-> "send", conn |-> h.conn, msg |-> h.msg]]
  BY DEF TakeJob
<1>2. worker \in [Workers -> WorkerType] /\ jobs \in Seq(Job)
  BY DEF IInv, WorkerInv, JobsInv
<1>3. /\ Len(jobs) \in Nat /\ DOMAIN jobs = 1..Len(jobs) /\ h = jobs[1] /\ 1 \in DOMAIN jobs
      /\ DOMAIN jobs' = 1..(Len(jobs) - 1)
      /\ \A i \in DOMAIN jobs' : i + 1 \in DOMAIN jobs /\ jobs'[i] = jobs[i + 1]
  BY <1>1, <1>2, HeadTailProperties, LenProperties
<1>4. QueueOrder(d) /\ WorkerOrder(d) /\ JobsOrder(d) /\ PartsInv(d)
  BY DEF Pipe
<1> HIDE DEF h
<1>5. \A v \in Workers : Sending(v)' =>
        \/ Sending(v) /\ worker'[v] = worker[v]
        \/ worker'[v].conn = h.conn /\ worker'[v].msg = h.msg
  BY <1>1, <1>2 DEF Sending
<1>6. \A s, n : AfterQueue(d, s, n) <=> AfterQueue(d, s, n)'
  BY <1>1 DEF AfterQueue, AfterPump
<1>7. ASSUME NEW s, NEW n, AfterWorker(d, s, n), h.conn = d /\ h.msg.from = s => h.msg.num < n
      PROVE  AfterWorker(d, s, n)'
  BY <1>5, <1>6, <1>7 DEF AfterWorker
<1>8. ASSUME NEW s, NEW n, AfterJobs(d, s, n) PROVE AfterJobs(d, s, n)'
  <2>1. \A i \in DOMAIN jobs : jobs[i].conn = d /\ jobs[i].msg.from = s => jobs[i].msg.num < n
    BY <1>8 DEF AfterJobs
  <2>2. AfterWorker(d, s, n)'
    BY <1>3, <1>7, <1>8, <2>1 DEF AfterJobs
  <2>3. QED
    BY <1>3, <2>1, <2>2 DEF AfterJobs
<1>9. QueueOrder(d)' /\ PartsInv(d)'
  BY <1>1, <1>4 DEF QueueOrder, AfterPump, PartsInv
<1>10. WorkerOrder(d)'
  <2>1. ASSUME NEW v \in Workers, Sending(v)', worker'[v].conn = d
        PROVE  (AfterQueue(d, worker[v].msg.from, worker[v].msg.num))'
    <3>1. AfterQueue(d, worker'[v].msg.from, worker'[v].msg.num)
      <4>1. CASE Sending(v) /\ worker'[v] = worker[v]
        BY <1>4, <2>1, <4>1 DEF WorkerOrder
      <4>2. CASE worker'[v].conn = h.conn /\ worker'[v].msg = h.msg
        BY <1>3, <1>4, <2>1, <4>2 DEF JobsOrder, AfterWorker
      <4>3. QED
        BY <1>5, <2>1, <4>1, <4>2
    <3>2. QED
      BY <1>1, <3>1 DEF AfterQueue, AfterPump
  <2>2. QED
    BY <2>1 DEF WorkerOrder
<1>11. JobsOrder(d)'
  <2>1. ASSUME NEW j \in DOMAIN jobs', jobs'[j].conn = d
        PROVE  /\ (AfterWorker(d, jobs[j].msg.from, jobs[j].msg.num))'
               /\ \A i \in 1..(j - 1) :
                    jobs'[i].conn = d /\ jobs'[i].msg.from = jobs'[j].msg.from =>
                        jobs'[i].msg.num < jobs'[j].msg.num
    <3>1. /\ j \in 1..(Len(jobs) - 1) /\ j + 1 \in DOMAIN jobs /\ jobs'[j] = jobs[j + 1]
          /\ (j + 1) - 1 = j /\ 1 \in 1..j
      BY <1>3
    <3>2. /\ AfterWorker(d, jobs[j + 1].msg.from, jobs[j + 1].msg.num)
          /\ \A i \in 1..j : jobs[i].conn = d /\ jobs[i].msg.from = jobs[j + 1].msg.from =>
                              jobs[i].msg.num < jobs[j + 1].msg.num
      BY <1>4, <2>1, <3>1 DEF JobsOrder
    <3>3. h.conn = d /\ h.msg.from = jobs[j + 1].msg.from => h.msg.num < jobs[j + 1].msg.num
      BY <1>3, <3>1, <3>2
    <3>4. ASSUME NEW s, NEW n, s = jobs[j + 1].msg.from, n = jobs[j + 1].msg.num
          PROVE  AfterWorker(d, s, n)'
      BY <1>7, <3>2, <3>3, <3>4
    <3>5. (AfterWorker(d, jobs[j].msg.from, jobs[j].msg.num))'
      BY <3>1, <3>4 DEF AfterWorker, AfterQueue, AfterPump
    <3>6. \A i \in 1..(j - 1) : i + 1 \in 1..j /\ jobs'[i] = jobs[i + 1]
      BY <1>3, <3>1
    <3>7. QED
      BY <3>1, <3>2, <3>5, <3>6
  <2>2. QED
    BY <2>1 DEF JobsOrder
<1>12. QED
  BY <1>8, <1>9, <1>10, <1>11 DEF Pipe

(* With one worker nothing overtakes the message that it puts in a queue. *)
LEMMA EnqueueOrder ==
  ASSUME IInv, NEW w \in Workers, Workers = {w}, Enqueue(w), NEW d \in Conns, Pipe(d)
  PROVE  Pipe(d)' /\ \A s, n : AfterJobs(d, s, n) => AfterJobs(d, s, n)'
<1> DEFINE c == worker[w].conn
           m == worker[w].msg
           q == queue[c]
<1>1. /\ Sending(w) /\ UNCHANGED <<jobs, pump, last>>
      /\ queue' = [queue EXCEPT ![c] = Append(q, m)] /\ Rest(w, "idle")
  BY DEF Enqueue, Sending
<1>2. /\ worker \in [Workers -> WorkerType] /\ queue \in [Conns -> Seq(Message)]
      /\ c \in Conns /\ m \in Message /\ q \in Seq(Message)
  BY <1>1 DEF IInv, WorkerInv, QueueInv
<1>3. \A v \in Workers : ~Sending(v)'
  BY <1>1, <1>2 DEF Rest, Sending
<1>4. QueueOrder(d) /\ WorkerOrder(d) /\ JobsOrder(d) /\ PartsInv(d)
  BY DEF Pipe
<1>5. /\ d # c => queue'[d] = queue[d]
      /\ queue'[c] = Append(q, m)
  BY <1>1, <1>2
<1>6. /\ Len(q) \in Nat /\ DOMAIN q = 1..Len(q) /\ DOMAIN Append(q, m) = 1..(Len(q) + 1)
      /\ Append(q, m)[Len(q) + 1] = m /\ \A i \in 1..Len(q) : Append(q, m)[i] = q[i]
  BY <1>2, AppendProperties, LenProperties
<1>7. d = c => AfterQueue(c, m.from, m.num)
  BY <1>1, <1>4 DEF WorkerOrder
<1>8. \A s, n : AfterWorker(d, s, n) /\ d = c /\ m.from = s => m.num < n
  BY <1>1 DEF AfterWorker
<1>9. \A s, n : AfterPump(d, s, n) <=> AfterPump(d, s, n)'
  BY <1>1 DEF AfterPump
<1> HIDE DEF m, c
<1>10. ASSUME NEW s, NEW n, AfterWorker(d, s, n) PROVE AfterQueue(d, s, n)'
  <2>1. AfterPump(d, s, n)' /\ \A i \in DOMAIN queue[d] : queue[d][i].from = s => queue[d][i].num < n
    BY <1>9, <1>10 DEF AfterWorker, AfterQueue
  <2>2. CASE d # c
    BY <1>5, <2>1, <2>2 DEF AfterQueue
  <2>3. CASE d = c
    <3>1. m.from = s => m.num < n
      BY <1>8, <1>10, <2>3
    <3>2. \A i \in DOMAIN queue'[d] : queue'[d][i] = m \/ (i \in DOMAIN queue[d] /\ queue'[d][i] = queue[d][i])
      BY <1>5, <1>6, <2>3
    <3>3. QED
      BY <2>1, <3>1, <3>2 DEF AfterQueue
  <2>4. QED
    BY <2>2, <2>3
<1>11. \A s, n : AfterWorker(d, s, n) => AfterWorker(d, s, n)'
  BY <1>3, <1>10 DEF AfterWorker
<1>12. \A s, n : AfterJobs(d, s, n) => AfterJobs(d, s, n)'
  BY <1>1, <1>11 DEF AfterJobs
<1>13. QueueOrder(d)'
  <2>1. CASE d # c
    BY <1>1, <1>4, <1>5, <2>1 DEF QueueOrder, AfterPump
  <2>2. CASE d = c
    <3>1. ASSUME NEW j \in DOMAIN queue'[d]
          PROVE  /\ (AfterPump(d, queue[d][j].from, queue[d][j].num))'
                 /\ \A i \in 1..(j - 1) :
                      queue'[d][i].from = queue'[d][j].from => queue'[d][i].num < queue'[d][j].num
      <4>1. j \in 1..(Len(q) + 1) /\ \A i \in 1..(j - 1) : i \in 1..Len(q) /\ queue'[d][i] = q[i]
        BY <1>5, <1>6, <2>2
      <4>2. CASE j = Len(q) + 1
        <5>1. queue'[d][j] = m
          BY <1>5, <1>6, <2>2, <4>2
        <5>2. AfterPump(d, m.from, m.num) /\ \A i \in 1..Len(q) : q[i].from = m.from => q[i].num < m.num
          BY <1>6, <1>7, <2>2 DEF AfterQueue
        <5>3. (AfterPump(d, queue[d][j].from, queue[d][j].num))'
          BY <1>1, <5>1, <5>2 DEF AfterPump
        <5>4. QED
          BY <4>1, <5>1, <5>2, <5>3
      <4>3. CASE j # Len(q) + 1
        <5>1. j \in DOMAIN queue[d] /\ queue'[d][j] = q[j] /\ q[j] = queue[d][j]
          BY <1>5, <1>6, <2>2, <4>1, <4>3
        <5>2. /\ AfterPump(d, q[j].from, q[j].num)
              /\ \A i \in 1..(j - 1) : q[i].from = q[j].from => q[i].num < q[j].num
          BY <1>4, <2>2, <5>1 DEF QueueOrder
        <5>3. (AfterPump(d, queue[d][j].from, queue[d][j].num))'
          BY <1>1, <5>1, <5>2 DEF AfterPump
        <5>4. QED
          BY <4>1, <5>1, <5>2, <5>3
      <4>4. QED
        BY <4>2, <4>3
    <3>2. QED
      BY <3>1 DEF QueueOrder
  <2>3. QED
    BY <2>1, <2>2
<1>14. WorkerOrder(d)'
  BY <1>3 DEF WorkerOrder
<1>15. JobsOrder(d)' /\ PartsInv(d)'
  BY <1>1, <1>4, <1>11 DEF JobsOrder, PartsInv
<1>16. QED
  BY <1>12, <1>13, <1>14, <1>15 DEF Pipe

-----------------------------------------------------------------------------
(* The senders.                                                            *)

(* A connection's turn comes: what is sent to it is put behind the rest, or *)
(* dropped.                                                                *)
LEMMA SpreadOrder ==
  ASSUME IInv, NEW s \in Senders, NEW c \in Conns, Spread(s, c),
         NEW d \in Conns, Pipe(d), SenderOrder(d)
  PROVE  Pipe(d)' /\ SenderOrder(d)'
<1> DEFINE m == sender[s].msg
           j == [conn |-> c, msg |-> m]
           x == [sender[s] EXCEPT !.todo = sender[s].todo \ {c}]
<1>1. /\ sender[s].at = "spread" /\ c \in sender[s].todo /\ sender' = [sender EXCEPT ![s] = x]
      /\ jobs' = jobs \/ jobs' = Append(jobs, j)
      /\ UNCHANGED <<queue, pump, last, worker, count>>
  BY DEF Spread
<1>2. /\ m \in Message /\ m.from = s /\ m.num <= count /\ j \in Job
      /\ j.conn = c /\ j.msg = m /\ count \in Nat /\ m.num \in Nat
  <2>1. m \in Message /\ m.from = s /\ m.num <= count /\ count \in 0..MaxMessages
    BY <1>1 DEF IInv, SenderInv, Busy
  <2> HIDE DEF m
  <2>2. m.num \in Nat /\ count \in Nat
    BY <2>1, Messages, Sizes
  <2>3. j \in Job /\ j.conn = c /\ j.msg = m
    BY <2>1 DEF Job
  <2>4. QED
    BY <2>1, <2>2, <2>3
<1>3. sender \in [Senders -> SenderType]
  BY DEF IInv, SenderInv
<1>4. x.at = "spread" /\ x.msg = m /\ x.todo = sender[s].todo \ {c}
  BY <1>1, <1>3 DEF SenderType
<1>5. QueueOrder(d) /\ WorkerOrder(d) /\ JobsOrder(d) /\ PartsInv(d)
  BY DEF Pipe
<1> HIDE DEF x, j, m
<1>6. /\ sender'[s] = x /\ \A u \in Senders \ {s} : sender'[u] = sender[u]
  BY <1>1, <1>3
<1>7. ASSUME NEW u \in Senders, ToCome(d, u)'
      PROVE  ToCome(d, u) /\ sender'[u].msg = sender[u].msg /\ ~(u = s /\ d = c)
  BY <1>1, <1>4, <1>6, <1>7 DEF ToCome, m
<1>8. \A u, n : AfterWorker(d, u, n) <=> AfterWorker(d, u, n)'
  BY <1>1 DEF AfterWorker, AfterQueue, AfterPump, Sending
<1>9. QueueOrder(d)' /\ WorkerOrder(d)' /\ PartsInv(d)'
  BY <1>1, <1>5 DEF QueueOrder, WorkerOrder, PartsInv, AfterQueue, AfterPump, Sending
<1>10. CASE jobs' = jobs
  <2>1. \A u, n : AfterJobs(d, u, n) => AfterJobs(d, u, n)'
    BY <1>8, <1>10 DEF AfterJobs
  <2>2. JobsOrder(d)'
    BY <1>5, <1>8, <1>10 DEF JobsOrder
  <2>3. SenderOrder(d)'
    BY <1>1, <1>7, <2>1 DEF SenderOrder
  <2>4. QED
    BY <1>9, <2>2, <2>3 DEF Pipe
<1>11. CASE jobs' = Append(jobs, j)
  <2>1. /\ jobs \in Seq(Job) /\ Len(jobs) \in Nat /\ DOMAIN jobs = 1..Len(jobs)
        /\ DOMAIN jobs' = 1..(Len(jobs) + 1) /\ jobs'[Len(jobs) + 1] = j
        /\ \A i \in 1..Len(jobs) : jobs'[i] = jobs[i]
    BY <1>2, <1>11, AppendProperties, LenProperties DEF IInv, JobsInv
  <2>2. \A i \in DOMAIN jobs' : jobs'[i] = j \/ (i \in DOMAIN jobs /\ jobs'[i] = jobs[i])
    BY <2>1
  <2>3. ASSUME NEW u, NEW n, AfterJobs(d, u, n), d = c /\ u = s => m.num < n
        PROVE  AfterJobs(d, u, n)'
    <3>1. AfterWorker(d, u, n)'
      BY <1>8, <2>3 DEF AfterJobs
    <3>2. \A i \in DOMAIN jobs' :
            jobs'[i].conn = d /\ jobs'[i].msg.from = u => jobs'[i].msg.num < n
      BY <1>2, <2>2, <2>3 DEF AfterJobs
    <3>3. QED
      BY <3>1, <3>2 DEF AfterJobs
  <2>4. JobsOrder(d)'
    <3>1. ASSUME NEW k \in DOMAIN jobs', jobs'[k].conn = d
          PROVE  /\ (AfterWorker(d, jobs[k].msg.from, jobs[k].msg.num))'
                 /\ \A i \in 1..(k - 1) :
                      jobs'[i].conn = d /\ jobs'[i].msg.from = jobs'[k].msg.from =>
                          jobs'[i].msg.num < jobs'[k].msg.num
      <4>1. k \in 1..(Len(jobs) + 1) /\ \A i \in 1..(k - 1) : i \in DOMAIN jobs /\ jobs'[i] = jobs[i]
        BY <2>1
      <4>2. CASE k = Len(jobs) + 1
        <5>1. jobs'[k] = j /\ d = c /\ ToCome(d, s)
          BY <1>1, <1>2, <2>1, <3>1, <4>2 DEF ToCome
        <5>2. AfterJobs(d, s, m.num)
          BY <5>1 DEF SenderOrder, m
        <5>3. AfterWorker(d, m.from, m.num)
          BY <1>2, <5>2 DEF AfterJobs
        <5>4. (AfterWorker(d, jobs[k].msg.from, jobs[k].msg.num))'
          BY <1>1, <1>2, <5>1, <5>3 DEF AfterWorker, AfterQueue, AfterPump, Sending
        <5>5. \A i \in DOMAIN jobs : jobs[i].conn = d /\ jobs[i].msg.from = s => jobs[i].msg.num < m.num
          BY <5>2 DEF AfterJobs
        <5>6. QED
          BY <1>2, <4>1, <5>1, <5>4, <5>5
      <4>3. CASE k # Len(jobs) + 1
        <5>1. k \in DOMAIN jobs /\ jobs'[k] = jobs[k]
          BY <2>1, <4>1, <4>3
        <5>2. /\ AfterWorker(d, jobs[k].msg.from, jobs[k].msg.num)
              /\ \A i \in 1..(k - 1) :
                   jobs[i].conn = d /\ jobs[i].msg.from = jobs[k].msg.from =>
                       jobs[i].msg.num < jobs[k].msg.num
          BY <1>5, <3>1, <5>1 DEF JobsOrder
        <5>3. (AfterWorker(d, jobs[k].msg.from, jobs[k].msg.num))'
          BY <1>1, <5>1, <5>2 DEF AfterWorker, AfterQueue, AfterPump, Sending
        <5>4. QED
          BY <4>1, <5>1, <5>2, <5>3
      <4>4. QED
        BY <4>2, <4>3
    <3>2. QED
      BY <3>1 DEF JobsOrder
  <2>5. SenderOrder(d)'
    <3>1. ASSUME NEW u \in Senders
          PROVE  /\ AfterJobs(d, u, count + 1)'
                 /\ ToCome(d, u)' => AfterJobs(d, u, sender[u].msg.num)
                 /\ ToCome(d, u)' => ~(u = s /\ d = c) /\ sender'[u].msg = sender[u].msg
      <4>1. AfterJobs(d, u, count + 1) /\ m.num < count + 1
        BY <1>2 DEF SenderOrder
      <4>2. ASSUME NEW n, n = count + 1 PROVE AfterJobs(d, u, n)'
        BY <2>3, <4>1, <4>2
      <4>3. AfterJobs(d, u, count + 1)'
        BY <1>1, <4>2 DEF AfterJobs, AfterWorker, AfterQueue, AfterPump
      <4>4. QED
        BY <1>7, <4>3 DEF SenderOrder
    <3>2. ASSUME NEW u \in Senders, ToCome(d, u)' PROVE (AfterJobs(d, u, sender[u].msg.num))'
      <4>1. ASSUME NEW n, n = sender[u].msg.num PROVE AfterJobs(d, u, n)'
        BY <2>3, <3>1, <3>2, <4>1
      <4>2. sender'[u].msg = sender[u].msg
        BY <3>1, <3>2
      <4>3. QED
        BY <4>1, <4>2 DEF AfterJobs, AfterWorker, AfterQueue, AfterPump
    <3>3. QED
      BY <3>1, <3>2 DEF SenderOrder
  <2>6. QED
    BY <1>9, <2>4, <2>5 DEF Pipe
<1>12. QED
  BY <1>1, <1>10, <1>11

(* Steps of the senders that send nothing yet: what is to come was to come, *)
(* or is new, or goes to a connection that nothing was sent to.            *)
LEMMA SenderMoves ==
  ASSUME IInv, ServedInv, IInv', count <= count',
         NEW c \in Conns, SenderOrder(c), Pipe(c),
         UNCHANGED <<queue, pump, last, worker, jobs>>,
         \A s \in Senders : ToCome(c, s)' =>
             \/ ToCome(c, s) /\ sender'[s].msg.num = sender[s].msg.num
             \/ sender'[s].msg.num = count + 1
             \/ c \notin Served
  PROVE  Pipe(c)' /\ SenderOrder(c)'
<1>1. Pipe(c)' /\ \A s, n : AfterJobs(c, s, n) <=> AfterJobs(c, s, n)'
  BY PipeSame
<1>2. count + 1 \in Nat /\ count' + 1 \in Nat /\ count + 1 <= count' + 1
  <2>1. count \in 0..MaxMessages /\ count' \in 0..MaxMessages /\ MaxMessages \in Nat
    BY Zenon, Sizes DEF IInv, SenderInv
  <2>2. SUFFICES ASSUME NEW a \in 0..MaxMessages, NEW b \in 0..MaxMessages, a <= b
                 PROVE  a + 1 \in Nat /\ b + 1 \in Nat /\ a + 1 <= b + 1
    BY <2>1
  <2>3. QED
    BY <2>1, <2>2
<1>3. ASSUME NEW s \in Senders PROVE AfterJobs(c, s, count + 1) /\ AfterJobs(c, s, count' + 1)
  <2>1. AfterJobs(c, s, count + 1)
    BY DEF SenderOrder
  <2>2. QED
    BY <1>2, <2>1, Monotone
<1>4. ASSUME NEW s \in Senders, ToCome(c, s)' PROVE AfterJobs(c, s, sender'[s].msg.num)
  <2>1. CASE ToCome(c, s) /\ sender'[s].msg.num = sender[s].msg.num
    BY <2>1 DEF SenderOrder
  <2>2. CASE sender'[s].msg.num = count + 1
    BY <1>3, <2>2
  <2>3. CASE c \notin Served
    <3>1. sender'[s].msg \in Message
      BY <1>4 DEF IInv, SenderInv, Busy, ToCome
    <3>2. sender'[s].msg.num \in Nat \ {0}
      BY <3>1, Sizes DEF Message
    <3>3. QED
      BY <2>3, <3>2, NothingAhead
  <2>4. QED
    BY <1>4, <2>1, <2>2, <2>3
<1>5. ASSUME NEW s \in Senders PROVE (AfterJobs(c, s, count + 1))'
  <2>1. ASSUME NEW n, n = count' + 1 PROVE AfterJobs(c, s, n)'
    BY <1>1, <1>3, <2>1
  <2>2. QED
    BY <2>1 DEF AfterJobs, AfterWorker, AfterQueue, AfterPump
<1>6. ASSUME NEW s \in Senders, ToCome(c, s)' PROVE (AfterJobs(c, s, sender[s].msg.num))'
  <2>1. ASSUME NEW n, n = sender'[s].msg.num PROVE AfterJobs(c, s, n)'
    BY <1>1, <1>4, <1>6, <2>1
  <2>2. QED
    BY <2>1 DEF AfterJobs, AfterWorker, AfterQueue, AfterPump
<1>7. QED
  BY <1>1, <1>5, <1>6 DEF SenderOrder

LEMMA ToComeNext ==
  ASSUME IInv, [Next]_vars, ~\E s \in Senders, c \in Conns : Spread(s, c),
         NEW d \in Conns, NEW u \in Senders, ToCome(d, u)', ServedInv
  PROVE  \/ ToCome(d, u) /\ sender'[u].msg.num = sender[u].msg.num
         \/ sender'[u].msg.num = count + 1
         \/ d \notin Served
<1> DEFINE Goal == \/ ToCome(d, u) /\ sender'[u].msg.num = sender[u].msg.num
                   \/ sender'[u].msg.num = count + 1
                   \/ d \notin Served
<1>1. /\ sender = [s \in Senders |-> sender[s]] /\ \A s \in Senders : sender[s] \in SenderType
      /\ Conns \subseteq Senders /\ Admin \in Senders
  BY SenderParts, Sizes DEF IInv, SenderOk
<1>2. CASE sender'[u] = sender[u]
  BY <1>2 DEF ToCome
<1>3. ASSUME NEW s \in Senders, NEW x, sender' = [sender EXCEPT ![s] = x],
             u = s => x.at \in {"idle", "read", "gone"} \/ Goal
      PROVE  Goal
  <2>1. CASE u = s
    BY <1>1, <1>3, <2>1 DEF ToCome
  <2>2. CASE u # s
    BY <1>1, <1>2, <1>3, <2>2
  <2>3. QED
    BY <2>1, <2>2
<1>4. \A at : AtRest(at).at = at
  BY DEF AtRest
<1>5. ASSUME NEW c \in Conns, Join(c) PROVE Goal
  <2>1. PICK R \in SUBSET Ranging :
          sender' = [s \in Senders |->
                      IF s \in R THEN [sender[s] EXCEPT !.todo = @ \cup {c}]
                      ELSE IF s = c THEN AtRest("read") ELSE sender[s]]
    BY <1>5 DEF Join
  <2>2. c \notin Served
    BY <1>5 DEF Join, Served
  <2>3. CASE u \in R
    <3>1. sender'[u] = [sender[u] EXCEPT !.todo = sender[u].todo \cup {c}]
      BY <2>1, <2>3
    <3>2. /\ sender'[u].at = sender[u].at /\ sender'[u].msg = sender[u].msg
          /\ sender'[u].todo = sender[u].todo \cup {c}
      BY <1>1, <3>1 DEF SenderType
    <3>3. QED
      BY <2>2, <3>2 DEF ToCome
  <2>4. CASE u \notin R /\ u = c
    BY <1>4, <2>1, <2>4 DEF ToCome
  <2>5. CASE u \notin R /\ u # c
    BY <1>2, <2>1, <2>5
  <2>6. QED
    BY <2>3, <2>4, <2>5
<1>6. ASSUME NEW c \in Conns, Cleanup(c) PROVE Goal
  <2>1. sender' = [s \in Senders |->
                    IF s \in Ranging THEN [sender[s] EXCEPT !.todo = @ \ {c}] ELSE sender[s]]
    BY <1>6 DEF Cleanup
  <2>2. CASE u \in Ranging
    <3>1. sender'[u] = [sender[u] EXCEPT !.todo = sender[u].todo \ {c}]
      BY <2>1, <2>2
    <3>2. /\ sender'[u].at = sender[u].at /\ sender'[u].msg = sender[u].msg
          /\ sender'[u].todo = sender[u].todo \ {c}
      BY <1>1, <3>1 DEF SenderType
    <3>3. QED
      BY <3>2 DEF ToCome
  <2>3. QED
    BY <1>2, <2>1, <2>2
<1>7. ASSUME NEW s \in Senders, NEW x, sender' = [sender EXCEPT ![s] = x],
             x.msg.num = count + 1 \/ (sender[s].at = "in message" /\ x.msg.num = sender[s].msg.num)
      PROVE  Goal
  <2>1. CASE u = s
    BY <1>1, <1>7, <2>1 DEF ToCome
  <2>2. CASE u # s
    BY <1>1, <1>2, <1>7, <2>2
  <2>3. QED
    BY <2>1, <2>2
<1>8. ASSUME NEW s \in Senders, NEW m, BeginSpread(s, m),
             m.num = count + 1 \/ (sender[s].at = "in message" /\ m.num = sender[s].msg.num)
      PROVE  Goal
  <2> DEFINE x == [at |-> "spread", msg |-> m, todo |-> members]
  <2>1. sender' = [sender EXCEPT ![s] = x] /\ x.msg = m
    BY <1>8 DEF BeginSpread
  <2> HIDE DEF x
  <2>2. QED
    BY <1>7, <1>8, <2>1
<1>9. ASSUME NEW c \in Conns, ReadFirst(c) PROVE Goal
  <2> DEFINE m == [from |-> c, num |-> count + 1, parts |-> 1]
             x == [at |-> "in message", msg |-> m, todo |-> {}]
  <2>1. m.num = count + 1 /\ x.msg = m /\ c \in Senders
    BY <1>1
  <2>2. sender' = [sender EXCEPT ![c] = x] \/ BeginSpread(c, m)
    BY <1>9 DEF ReadFirst
  <2> HIDE DEF m, x
  <2>3. QED
    BY <1>7, <1>8, <2>1, <2>2
<1>10. ASSUME NEW c \in Conns, ReadNext(c) \/ ReadCut(c) PROVE Goal
  <2> DEFINE m == [sender[c].msg EXCEPT !.parts = @ + 1]
             x == [sender[c] EXCEPT !.msg = m]
  <2>1. /\ sender[c].at = "in message" /\ c \in Senders
        /\ sender' = [sender EXCEPT ![c] = x] \/ BeginSpread(c, m) \/ BeginSpread(c, sender[c].msg)
    BY <1>1, <1>10 DEF ReadNext, ReadCut
  <2>2. x.msg = m
    BY <1>1, <2>1 DEF SenderType
  <2>3. m.num = sender[c].msg.num
    <3>1. sender[c].msg \in Message
      BY <2>1 DEF IInv, SenderInv, Busy
    <3>2. QED
      BY <3>1 DEF Message
  <2> HIDE DEF m, x
  <2>4. QED
    BY <1>7, <1>8, <2>1, <2>2, <2>3
<1>11. ASSUME NEW c \in Conns, ReadEnds(c) PROVE Goal
  <2>1. c \in Senders /\ sender' = [sender EXCEPT ![c] = [sender[c] EXCEPT !.at = "gone"]]
    BY <1>1, <1>11 DEF ReadEnds
  <2>2. [sender[c] EXCEPT !.at = "gone"].at = "gone"
    BY <1>1, <2>1 DEF SenderType
  <2>3. QED
    BY <1>3, <2>1, <2>2
<1>12. ASSUME NEW s \in Senders, SpreadEnds(s) PROVE Goal
  <2>1. PICK at \in {"idle", "read"} : sender' = [sender EXCEPT ![s] = AtRest(at)]
    BY <1>12 DEF SpreadEnds
  <2> DEFINE x == AtRest(at)
  <2>2. x.at \in {"idle", "read", "gone"} /\ sender' = [sender EXCEPT ![s] = x]
    BY <1>4, <2>1
  <2> HIDE DEF x
  <2>3. QED
    BY <1>3, <2>2
<1>13. CASE BroadcastAll
  <2> DEFINE m == [from |-> Admin, num |-> count + 1, parts |-> 1]
  <2>1. BeginSpread(Admin, m) /\ m.num = count + 1
    BY <1>13 DEF BroadcastAll
  <2> HIDE DEF m
  <2>2. QED
    BY <1>1, <1>8, <2>1
<1>14. QED
  BY <1>2, <1>5, <1>6, <1>9, <1>10, <1>11, <1>12, <1>13, WritersOfSender DEF SenderNext

LEMMA OrderStep ==
  ASSUME IInv, ServedInv, NEW v \in Workers, Workers = {v}, [Next]_vars,
         NEW d \in Conns, OrderInv(d)
  PROVE  OrderInv(d)'
<1>1. Pipe(d) /\ SenderOrder(d)
  BY DEF OrderInv, Pipe
<1>2. SUFFICES Pipe(d)' /\ SenderOrder(d)'
  BY DEF OrderInv, Pipe
<1>3. IInv' /\ count <= count'
  BY Inductive, SenderStep DEF IInv
<1>4. ASSUME NEW s \in Senders, NEW c \in Conns, Spread(s, c) PROVE Pipe(d)' /\ SenderOrder(d)'
  BY <1>1, <1>4, SpreadOrder
<1>5. ASSUME UNCHANGED <<queue, pump, last, worker, jobs>>,
             ~\E s \in Senders, c \in Conns : Spread(s, c)
      PROVE  Pipe(d)' /\ SenderOrder(d)'
  BY <1>1, <1>3, <1>5, ToComeNext, SenderMoves
<1>6. ASSUME UNCHANGED <<sender, count>>, Pipe(d)',
             \A s, n : AfterJobs(d, s, n) => AfterJobs(d, s, n)'
      PROVE  Pipe(d)' /\ SenderOrder(d)'
  BY <1>1, <1>6, SenderKept
<1>7. ASSUME NEW c \in Conns, PumpTakes(c) \/ PumpWrites(c) \/ PumpFails(c) \/ PumpEnds(c)
      PROVE  Pipe(d)' /\ SenderOrder(d)'
  <2>1. UNCHANGED <<sender, count>>
    BY <1>7 DEF PumpTakes, PumpWrites, PumpFails, PumpEnds
  <2>2. Pipe(d)' /\ \A s, n : AfterJobs(d, s, n) => AfterJobs(d, s, n)'
    BY <1>1, <1>7, PumpTakesOrder, PumpWritesOrder, PumpStopsOrder
  <2>3. QED
    BY <1>6, <2>1, <2>2
<1>8. ASSUME NEW w \in Workers, WorkerNext(w) PROVE Pipe(d)' /\ SenderOrder(d)'
  <2>1. UNCHANGED <<sender, count>>
    BY <1>8 DEF WorkerNext, TakeJob, Enqueue, EnqueueFull, GiveUp, WorkerEnds
  <2>2. Pipe(d)' /\ \A s, n : AfterJobs(d, s, n) => AfterJobs(d, s, n)'
    <3>1. CASE TakeJob(w)
      BY <1>1, <3>1, TakeJobOrder
    <3>2. CASE Enqueue(w)
      BY <1>1, <3>2, EnqueueOrder
    <3>3. CASE EnqueueFull(w) \/ GiveUp(w) \/ WorkerEnds(w)
      BY <1>1, <3>3, WorkerRestsOrder
    <3>4. QED
      BY <1>8, <3>1, <3>2, <3>3 DEF WorkerNext
  <2>3. QED
    BY <1>6, <2>1, <2>2
<1>9. \/ UNCHANGED <<queue, pump, last, worker, jobs>>
      \/ \E s \in Senders, c \in Conns : Spread(s, c)
      \/ \E c \in Conns : PumpTakes(c) \/ PumpWrites(c) \/ PumpFails(c) \/ PumpEnds(c)
      \/ \E w \in Workers : WorkerNext(w)
  BY WritersOfJobs, WritersOfWorker, WritersOfQueue, WritersOfPump DEF WorkerNext
<1>10. QED
  BY <1>4, <1>5, <1>7, <1>8, <1>9

LEMMA OrderInitially == Init => ServedInv /\ \A c \in Conns : OrderInv(c)
<1> SUFFICES ASSUME Init PROVE ServedInv /\ \A c \in Conns : OrderInv(c)
  OBVIOUS
<1>1. /\ stage = [c \in Conns |-> "none"] /\ members = {} /\ jobs = <<>> /\ count = 0
      /\ sender = [s \in Senders |-> AtRest("idle")]
      /\ worker = [w \in Workers |-> [at |-> "idle", conn |-> Admin, msg |-> NoMessage]]
      /\ queue = [c \in Conns |-> <<>>] /\ pump = [c \in Conns |-> PumpIdle]
      /\ last = [c \in Conns |-> [s \in Senders |-> NoFrame]]
  BY DEF Init
<1>2. /\ Served = {} /\ \A w \in Workers : ~Sending(w)
      /\ \A c \in Conns : queue[c] = <<>> /\ pump[c].at = "idle"
      /\ \A c \in Conns, s \in Senders : last[c][s].msg.num = 0 /\ Whole(last[c][s])
      /\ \A s \in Senders : sender[s].todo = {} /\ sender[s].at = "idle"
  BY <1>1 DEF Served, Sending, PumpIdle, NoFrame, NoMessage, Whole, AtRest
<1>3. IInv
  BY Initially
<1>4. DOMAIN jobs = {} /\ \A c \in Conns : DOMAIN queue[c] = {}
  BY <1>1, <1>2
<1>5. ServedInv
  BY <1>1, <1>2, <1>4 DEF ServedInv
<1>6. ASSUME NEW c \in Conns PROVE OrderInv(c)
  <2>1. QueueOrder(c) /\ WorkerOrder(c) /\ JobsOrder(c) /\ PartsInv(c)
    BY <1>2, <1>4 DEF QueueOrder, WorkerOrder, JobsOrder, PartsInv
  <2>2. \A s \in Senders : AfterJobs(c, s, count + 1) /\ ~ToCome(c, s)
    <3>1. count + 1 \in Nat \ {0} /\ c \in Conns \ Served
      BY <1>1, <1>2
    <3>2. QED
      BY <1>2, <1>3, <1>5, <3>1, NothingAhead DEF ToCome
  <2>3. QED
    BY <2>1, <2>2 DEF OrderInv, SenderOrder
<1>7. QED
  BY <1>5, <1>6

(* What a pump writes follows what its peer has. *)
LEMMA WritesNext ==
  ASSUME IInv, NEW c \in Conns, OrderInv(c), PumpWrites(c)
  PROVE  LET g == Frame(c)
             f == last[c][g.msg.from]
         IN IF Whole(f)
            THEN g.part = 1 /\ g.msg.num > f.msg.num /\ \A s \in Senders : Whole(last[c][s])
            ELSE g = [f EXCEPT !.part = @ + 1]
<1> DEFINE m == pump[c].msg
           k == pump[c].part
           f == last[c][m.from]
<1>1. /\ pump[c].at = "write" /\ m \in Message /\ k \in 1..m.parts /\ f \in FrameType
      /\ last \in [Conns -> [Senders -> FrameType]]
  BY Messages DEF PumpWrites, IInv, PumpInv
<1>2. m.parts \in Nat /\ k \in Nat /\ m.num \in Nat /\ m.from \in Senders /\ f.msg.num \in Nat
  BY <1>1, Messages, OnTheWay DEF Numbered
<1>3. Frame(c).msg = m /\ Frame(c).part = k /\ Frame(c) = [msg |-> m, part |-> k]
  BY DEF Frame
<1>4. CASE k = 1
  <2>1. /\ \A s \in Senders : Whole(last[c][s])
        /\ f.msg.num < m.num
    BY <1>1, <1>4 DEF OrderInv, PartsInv
  <2>2. Whole(f) /\ m.num > f.msg.num
    BY <1>2, <2>1
  <2> HIDE DEF m, k, f
  <2>3. QED
    BY <1>3, <1>4, <2>1, <2>2 DEF f
<1>5. CASE k # 1
  <2>1. f = [msg |-> m, part |-> k - 1]
    BY <1>1, <1>5 DEF OrderInv, PartsInv
  <2> HIDE DEF m, k, f
  <2>2. ~Whole(f) /\ f.part + 1 = k /\ f.msg = m
    BY <1>1, <1>2, <2>1 DEF Whole
  <2>3. [f EXCEPT !.part = f.part + 1] = [msg |-> m, part |-> k]
    BY <2>1, <2>2
  <2>4. QED
    BY <1>3, <2>2, <2>3 DEF f
<1>6. QED
  BY <1>4, <1>5

(* With one worker, a peer gets whole messages, part after part, none of    *)
(* them twice and those of one sender in order: Hub, WriteMessage and       *)
(* writerPump, whatever connections come and go and queues fill up.         *)
THEOREM OrderKept == Spec => ReceivedInOrder
<1> DEFINE One == Cardinality(Workers) = 1
           Ordered == One => ServedInv /\ \A c \in Conns : OrderInv(c)
<1>1. One => \E w : Workers = {w}
  BY FS_Singleton, WebSocketAssumption
<1>2. IInv /\ Ordered /\ [Next]_vars => Ordered'
  BY <1>1, ServedStep, OrderStep
<1>3. IInv /\ Ordered /\ [Next]_vars =>
        [\A c \in Conns : PumpWrites(c) /\ Cardinality(Workers) = 1 =>
            LET g == Frame(c)
                f == last[c][g.msg.from]
            IN IF Whole(f)
               THEN g.part = 1 /\ g.msg.num > f.msg.num /\ \A s \in Senders : Whole(last[c][s])
               ELSE g = [f EXCEPT !.part = @ + 1]]_vars
  BY WritesNext
<1>4. Init => Ordered
  BY OrderInitially
<1> HIDE DEF Ordered
<1>5. QED
  BY <1>2, <1>3, <1>4, Invariant, PTL DEF Spec, ReceivedInOrder
=============================================================================
