---------------------------- MODULE PubSubProofs ----------------------------
(***************************************************************************)
(* Proofs about PubSub, for all sets of topics, subscriptions, publishers  *)
(* and policies and every buffer size.                                     *)
(***************************************************************************)
EXTENDS PubSub, FoldProofs, SequenceTheorems, TLAPS

(* The map holds each subscription under its topic, until its Cancel or    *)
(* Close takes it out.                                                     *)
MapInv ==
    /\ \A s \in Subs : stage[s] # "none" => topic[s] \in Topics
    /\ \A t \in Topics : \A s \in topics[t] : topic[s] = t /\ stage[s] \in {"open", "removing"}
    /\ \A t \in Topics : IsFiniteSet(topics[t])

(* What the program counters say of the local variables.                   *)
CallInv ==
    \A p \in Publishers :
        /\ ppc[p] \in {"send", "cancel", "evict", "resend", "panicked"} <=> psub[p] # NoSub
        /\ ppc[p] # "idle" => ptopic[p] \in Topics /\ pnum[p] > 0
        /\ ppc[p] \in {"idle", "snapshot"} => ptodo[p] = {}
        /\ psub[p] \notin ptodo[p]

CloserInv ==
    /\ closer = "idle" <=> ~closed
    /\ closer \in {"cancel", "done"} => \A t \in Topics : topics[t] = {}
    /\ closer = "done" => closing = {}

(* The order of a channel's messages: each publisher's ascend, and go on   *)
(* from the last one that was read.                                        *)
Ascending(q) ==
    \A i, j \in 1..Len(q) : j < i /\ q[j].from = q[i].from => q[j].num < q[i].num

Above(q, l) == \A i \in 1..Len(q) : q[i].num > l[q[i].from]

(* All of the channel's messages of p have a number below n.               *)
Below(q, p, n) == \A i \in 1..Len(q) : q[i].from = p => q[i].num < n

(* The current message of p is new to the channel of s: p may still put it *)
(* there, or s was cancelled before.                                       *)
New(p, s) ==
    \/ ppc[p] = "snapshot"
    \/ s \in ptodo[p]
    \/ psub[p] = s /\ ppc[p] \in {"send", "evict", "resend"}
    \/ s \in late[p]

OrderInv ==
    /\ \A s \in Subs : Ascending(buf[s]) /\ Above(buf[s], last[s])
    /\ \A s \in Subs, p \in Publishers :
          /\ last[s][p] <= pnum[p] /\ Below(buf[s], p, pnum[p] + 1)
          /\ New(p, s) => last[s][p] < pnum[p] /\ Below(buf[s], p, pnum[p])

(* A subscriber cancelled before a Publish began is never its receiver.    *)
LateInv ==
    \A p \in Publishers :
        /\ \A s \in late[p] : Ended(s)
        /\ psub[p] \notin late[p]

(* The inductive invariant.                                                *)
IInv ==
    /\ TypeOK
    /\ MapInv
    /\ CallInv
    /\ CloserInv
    /\ NoOrphan
    /\ GaugeIsRegistered
    /\ OrderInv
    /\ LateInv

-----------------------------------------------------------------------------
(* The initial states satisfy the invariant.                               *)
LEMMA InitIInv == Init => IInv
<1> SUFFICES ASSUME Init PROVE IInv
  OBVIOUS
<1> USE BusAssumption DEF Init
<1>1. TypeOK
  <2>1. SubscriptionTypes
    <3>1. <<>> \in Seq(Message) /\ Len(<<>>) = 0
      OBVIOUS
    <3>2. QED
      BY <3>1 DEF SubscriptionTypes
  <2>2. BusTypes
    BY DEF BusTypes
  <2>3. PublisherTypes
    BY DEF PublisherTypes
  <2>4. CountTypes
    BY DEF CountTypes
  <2>5. QED
    BY <2>1, <2>2, <2>3, <2>4 DEF TypeOK
<1>2. MapInv /\ CallInv /\ CloserInv /\ NoOrphan
  BY FS_EmptySet DEF MapInv, CallInv, CloserInv, NoOrphan, Open
<1>3. GaugeIsRegistered
  BY FS_EmptySet DEF GaugeIsRegistered
<1>4. OrderInv
  BY DEF OrderInv, Ascending, Above, Below, New
<1>5. LateInv
  BY DEF LateInv
<1>6. QED
  BY <1>1, <1>2, <1>3, <1>4, <1>5 DEF IInv

-----------------------------------------------------------------------------
(* A channel is a sequence of messages: what taking one out and putting    *)
(* one in do to their order.                                               *)
LEMMA PopChannel ==
  ASSUME NEW q \in Seq(Message), q # <<>>
  PROVE  /\ Tail(q) \in Seq(Message) /\ Head(q) \in Message
         /\ Len(Tail(q)) \in Nat /\ Len(Tail(q)) + 1 = Len(q)
         /\ Head(q) = q[1] /\ 1 \in 1..Len(q)
         /\ \A i \in 1..Len(Tail(q)) : Tail(q)[i] = q[i + 1] /\ i + 1 \in 1..Len(q) /\ 1 < i + 1
         /\ \A i \in 1..Len(q) : q[i] \in Message
  BY HeadTailProperties, LenProperties

LEMMA PushChannel ==
  ASSUME NEW q \in Seq(Message), NEW m \in Message
  PROVE  /\ Append(q, m) \in Seq(Message)
         /\ Len(q) \in Nat /\ Len(Append(q, m)) = Len(q) + 1
         /\ \A i \in 1..Len(q) : Append(q, m)[i] = q[i]
         /\ Append(q, m)[Len(q) + 1] = m
         /\ \A i \in 1..Len(q) : q[i] \in Message
  BY AppendProperties, LenProperties

LEMMA PopOrdered ==
  ASSUME NEW q \in Seq(Message), q # <<>>, NEW l \in [Publishers -> 0..PublishCap],
         Ascending(q), Above(q, l)
  PROVE  /\ Ascending(Tail(q)) /\ Above(Tail(q), l)
         /\ Above(Tail(q), [l EXCEPT ![Head(q).from] = Head(q).num])
         /\ \A p, n : Below(q, p, n) => Below(Tail(q), p, n)
<1> USE PopChannel
<1>1. Ascending(Tail(q))
  BY DEF Ascending
<1>2. Above(Tail(q), l) /\ \A p, n : Below(q, p, n) => Below(Tail(q), p, n)
  BY DEF Above, Below
<1>3. ASSUME NEW i \in 1..Len(Tail(q))
      PROVE  Tail(q)[i].num > [l EXCEPT ![Head(q).from] = Head(q).num][Tail(q)[i].from]
  <2>1. Tail(q)[i] \in Message /\ Head(q) \in Message
    OBVIOUS
  <2>2. CASE Tail(q)[i].from = Head(q).from
    <3>1. q[1].num < q[i + 1].num
      BY <2>2 DEF Ascending
    <3>2. QED
      BY <2>1, <2>2, <3>1 DEF Message
  <2>3. CASE Tail(q)[i].from # Head(q).from
    BY <1>2, <2>1, <2>3 DEF Above, Message
  <2>4. QED
    BY <2>2, <2>3
<1>4. QED
  BY <1>1, <1>2, <1>3 DEF Above

LEMMA PushOrdered ==
  ASSUME NEW q \in Seq(Message), NEW m \in Message, NEW l \in [Publishers -> 0..PublishCap],
         Ascending(q), Above(q, l), l[m.from] < m.num, Below(q, m.from, m.num)
  PROVE  /\ Ascending(Append(q, m)) /\ Above(Append(q, m), l)
         /\ Below(Append(q, m), m.from, m.num + 1)
         /\ \A p, n : p # m.from /\ Below(q, p, n) => Below(Append(q, m), p, n)
<1> USE PushChannel
<1>1. Ascending(Append(q, m))
  BY DEF Ascending, Below
<1>2. Above(Append(q, m), l)
  BY DEF Above
<1>3. Below(Append(q, m), m.from, m.num + 1)
  <2>1. ASSUME NEW i \in 1..Len(Append(q, m)), Append(q, m)[i].from = m.from
        PROVE  Append(q, m)[i].num < m.num + 1
    <3>1. m.num \in Int
      BY DEF Message
    <3>2. CASE i = Len(q) + 1
      BY <3>1, <3>2
    <3>3. CASE i \in 1..Len(q)
      <4>1. Append(q, m)[i] = q[i] /\ q[i] \in Message
        BY <3>3
      <4>2. q[i].num < m.num
        BY <2>1, <3>3, <4>1 DEF Below
      <4>3. q[i].num \in Int
        BY <4>1 DEF Message
      <4>4. QED
        BY <3>1, <4>1, <4>2, <4>3
    <3>4. QED
      BY <3>2, <3>3
  <2>2. QED
    BY <2>1 DEF Below
<1>4. ASSUME NEW p, NEW n, p # m.from, Below(q, p, n) PROVE Below(Append(q, m), p, n)
  BY <1>4 DEF Below
<1>5. QED
  BY <1>1, <1>2, <1>3, <1>4

-----------------------------------------------------------------------------
(* The receiver of a publisher that is delivering, and its message.        *)
LEMMA Delivering ==
  ASSUME IInv, NEW p \in Publishers, ppc[p] \notin {"idle", "snapshot", "deliver"}
  PROVE  /\ psub[p] \in Subs /\ ptopic[p] \in Topics
         /\ pnum[p] \in 1..PublishCap /\ Current(p) \in Message
         /\ buf[psub[p]] \in Seq(Message)
<1>1. psub[p] # NoSub /\ ptopic[p] \in Topics /\ pnum[p] > 0
  BY DEF IInv, TypeOK, PublisherTypes, CallInv
<1>2. psub[p] \in Subs /\ pnum[p] \in 1..PublishCap
  BY <1>1, BusAssumption DEF IInv, TypeOK, PublisherTypes
<1>3. buf[psub[p]] \in Seq(Message)
  BY <1>2 DEF IInv, TypeOK, SubscriptionTypes
<1>4. Current(p) \in Message
  BY <1>2 DEF Current, Message
<1>5. QED
  BY <1>1, <1>2, <1>3, <1>4

(* Counting up. *)
LEMMA Bump ==
  ASSUME NEW S, NEW f \in [S -> Nat], NEW x \in S, NEW n \in Nat
  PROVE  [f EXCEPT ![x] = @ + n] \in [S -> Nat]
  OBVIOUS

-----------------------------------------------------------------------------
(* Each step keeps the types.                                              *)
LEMMA TypeStep == IInv /\ [Next]_vars => TypeOK'
<1> SUFFICES ASSUME IInv, [Next]_vars PROVE TypeOK'
  OBVIOUS
<1> USE BusAssumption
<1>1. ASSUME NEW s \in Subs, NEW t \in Topics, NEW pol \in Policies, Subscribe(s, t, pol)
      PROVE  TypeOK'
  <2>0. TypeOK
    BY DEF IInv
  <2>1. SubscriptionTypes'
    BY <1>1, <2>0
    DEF Subscribe, TypeOK, SubscriptionTypes, bus, subscription, publisher, closure, metrics,
       history
  <2>2. BusTypes'
    BY <1>1, <2>0
    DEF Subscribe, TypeOK, BusTypes, bus, subscription, publisher, closure, metrics, history
  <2>3. PublisherTypes'
    BY <1>1, <2>0
    DEF Subscribe, TypeOK, PublisherTypes, bus, subscription, publisher, closure, metrics, history
  <2>4. CountTypes'
    BY <1>1, <2>0
    DEF Subscribe, TypeOK, CountTypes, bus, subscription, publisher, closure, metrics, history
  <2>5. QED
    BY <2>1, <2>2, <2>3, <2>4 DEF TypeOK
<1>2. ASSUME NEW s \in Subs, Receive(s) PROVE TypeOK'
  <2>0. TypeOK
    BY DEF IInv
  <2>1. SubscriptionTypes'
    BY <1>2, PopChannel, <2>0
    DEF Receive, TypeOK, SubscriptionTypes, bus, subscription, publisher, closure, metrics, history
  <2>2. BusTypes'
    BY <1>2, PopChannel, <2>0
    DEF Receive, TypeOK, BusTypes, bus, subscription, publisher, closure, metrics, history
  <2>3. PublisherTypes'
    BY <1>2, PopChannel, <2>0
    DEF Receive, TypeOK, PublisherTypes, bus, subscription, publisher, closure, metrics, history
  <2>4. CountTypes'
    <3>1. Head(buf[s]) \in Message
      BY <1>2, <2>0, PopChannel DEF Receive, TypeOK, SubscriptionTypes
    <3>2. Head(buf[s]).from \in Publishers /\ Head(buf[s]).num \in 0..PublishCap
      BY <3>1 DEF Message
    <3>3. last' \in [Subs -> [Publishers -> 0..PublishCap]]
      BY <1>2, <2>0, <3>2 DEF Receive, TypeOK, CountTypes
    <3>4. gone' \in [Subs -> Nat]
      BY <1>2, <2>0 DEF Receive, TypeOK, CountTypes
    <3>5. QED
      BY <1>2, <2>0, <3>1, <3>2, <3>3, <3>4 DEF Receive, TypeOK, CountTypes, bus, subscription,
         publisher, closure, metrics, history
  <2>5. QED
    BY <2>1, <2>2, <2>3, <2>4 DEF TypeOK
<1>3. ASSUME NEW s \in Subs, Cancel(s) PROVE TypeOK'
  BY <1>3
  DEF Cancel, IInv, TypeOK, SubscriptionTypes, BusTypes, PublisherTypes, CountTypes, bus,
     subscription,
      publisher, closure, metrics, history, BeginCancel, Open, Continue
<1>4. ASSUME NEW s \in Subs, RemoveSubscriber(s) PROVE TypeOK'
  <2>0. TypeOK
    BY DEF IInv
  <2>1. SubscriptionTypes'
    BY <1>4, <2>0
    DEF RemoveSubscriber, TypeOK, SubscriptionTypes, bus, subscription, publisher, closure,
       metrics, history
  <2>2. BusTypes'
    BY <1>4, <2>0
    DEF RemoveSubscriber, TypeOK, BusTypes, bus, subscription, publisher, closure, metrics, history
  <2>3. PublisherTypes'
    BY <1>4, <2>0
    DEF RemoveSubscriber, TypeOK, PublisherTypes, bus, subscription, publisher, closure, metrics,
       history
  <2>4. CountTypes'
    <3>1. gauge \in [Topics -> Int]
      BY <2>0 DEF TypeOK, CountTypes
    <3>2. gauge' \in [Topics -> Int]
      <4>1. \A t \in Topics : gauge[t] - 1 \in Int
        BY <3>1
      <4>2. [gauge EXCEPT ![topic[s]] = @ - 1] \in [Topics -> Int]
        BY <3>1, <4>1, Zenon
      <4>3. QED
        BY <1>4, <3>1, <4>2 DEF RemoveSubscriber
    <3>3. QED
      BY <1>4, <2>0, <3>2 DEF RemoveSubscriber, TypeOK, CountTypes, bus, subscription, publisher,
         closure, metrics, history
  <2>5. QED
    BY <2>1, <2>2, <2>3, <2>4 DEF TypeOK
<1>5. ASSUME NEW s \in Subs, CloseChannel(s) PROVE TypeOK'
  BY <1>5
  DEF CloseChannel, IInv, TypeOK, SubscriptionTypes, BusTypes, PublisherTypes, CountTypes, bus,
     subscription,
      publisher, closure, metrics, history, BeginCancel, Open, Continue
<1>6. ASSUME NEW p \in Publishers, NEW t \in Topics, Publish(p, t) PROVE TypeOK'
  <2>0. TypeOK
    BY DEF IInv
  <2>1. SubscriptionTypes'
    BY <1>6, <2>0
    DEF Publish, TypeOK, SubscriptionTypes, bus, subscription, publisher, closure, metrics, history
  <2>2. BusTypes'
    BY <1>6, <2>0
    DEF Publish, TypeOK, BusTypes, bus, subscription, publisher, closure, metrics, history
  <2>3. PublisherTypes'
    BY <1>6, <2>0
    DEF Publish, TypeOK, PublisherTypes, bus, subscription, publisher, closure, metrics, history
  <2>4. CountTypes'
    BY <1>6, <2>0
    DEF Publish, TypeOK, CountTypes, bus, subscription, publisher, closure, metrics, history
  <2>5. QED
    BY <2>1, <2>2, <2>3, <2>4 DEF TypeOK
<1>7. ASSUME NEW p \in Publishers, Snapshot(p) PROVE TypeOK'
  <2>0. TypeOK
    BY DEF IInv
  <2>1. SubscriptionTypes'
    BY <1>7, <2>0
    DEF Snapshot, TypeOK, SubscriptionTypes, bus, subscription, publisher, closure, metrics, history
  <2>2. BusTypes'
    BY <1>7, <2>0
    DEF Snapshot, TypeOK, BusTypes, bus, subscription, publisher, closure, metrics, history
  <2>3. PublisherTypes'
    <3>1. ptopic[p] \in Topics /\ topics[ptopic[p]] \subseteq Subs
      BY <1>7, <2>0 DEF Snapshot, IInv, CallInv, TypeOK, BusTypes
    <3>2. QED
      BY <1>7, <2>0, <3>1 DEF Snapshot, TypeOK, PublisherTypes, bus, subscription, closure,
         metrics, history
  <2>4. CountTypes'
    BY <1>7, <2>0
    DEF Snapshot, TypeOK, CountTypes, bus, subscription, publisher, closure, metrics, history
  <2>5. QED
    BY <2>1, <2>2, <2>3, <2>4 DEF TypeOK
<1>8. ASSUME NEW p \in Publishers, NEW s \in Subs, NextSubscriber(p, s) PROVE TypeOK'
  BY <1>8
  DEF NextSubscriber, IInv, TypeOK, SubscriptionTypes, BusTypes, PublisherTypes, CountTypes, bus,
     subscription,
      publisher, closure, metrics, history, BeginCancel, Open, Continue
<1>9. ASSUME NEW p \in Publishers, PublishReturns(p) PROVE TypeOK'
  BY <1>9
  DEF PublishReturns, IInv, TypeOK, SubscriptionTypes, BusTypes, PublisherTypes, CountTypes, bus,
     subscription,
      publisher, closure, metrics, history, BeginCancel, Open, Continue
<1>10. ASSUME NEW p \in Publishers, Send(p) PROVE TypeOK'
  <2>0. TypeOK
    BY DEF IInv
  <2>0a. psub[p] \in Subs /\ ptopic[p] \in Topics
    BY <1>10, Delivering DEF Send
  <2>0b. delivered \in [Topics -> Nat]
    BY <2>0 DEF TypeOK, CountTypes
  <2>1. SubscriptionTypes'
    <3> DEFINE q == buf[psub[p]]
    <3>1. psub[p] \in Subs /\ q \in Seq(Message) /\ Current(p) \in Message
      BY <1>10, Delivering DEF Send
    <3>2. Append(q, Current(p)) \in Seq(Message) /\ Len(Append(q, Current(p))) = Len(q) + 1
      BY <3>1, PushChannel
    <3>3. Len(q) \in Nat
      BY <3>1, PushChannel
    <3>4. HasRoom(psub[p]) => Len(Append(q, Current(p))) <= BufferSize
      BY <3>2, <3>3 DEF HasRoom
    <3>5. QED
      BY <1>10, <2>0, <3>1, <3>2, <3>4 DEF Send, Append1, TypeOK, SubscriptionTypes
  <2>2. BusTypes'
    BY <1>10, Delivering, PushChannel, <2>0
    DEF Send, TypeOK, BusTypes, bus, subscription, publisher, closure, metrics, history
  <2>3. PublisherTypes'
    BY <1>10, Delivering, PushChannel, <2>0
    DEF Send, TypeOK, PublisherTypes, bus, subscription, publisher, closure, metrics, history,
       Continue
  <2>4. CountTypes'
    <3>1. delivered' \in [Topics -> Nat]
      BY <1>10, <2>0a, <2>0b, Bump DEF Send
    <3>2. QED
      BY <1>10, <2>0, <3>1 DEF Send, TypeOK, CountTypes, bus, subscription, publisher, closure,
         metrics, history
  <2>5. QED
    BY <2>1, <2>2, <2>3, <2>4 DEF TypeOK
<1>11. ASSUME NEW p \in Publishers, Panic(p) PROVE TypeOK'
  BY <1>11, Delivering
  DEF Panic, IInv, TypeOK, SubscriptionTypes, BusTypes, PublisherTypes, CountTypes, bus,
     subscription,
      publisher, closure, metrics, history, BeginCancel, Open, Continue
<1>12. ASSUME NEW p \in Publishers, DropNewest(p) PROVE TypeOK'
  <2>0. TypeOK
    BY DEF IInv
  <2>0a. psub[p] \in Subs /\ ptopic[p] \in Topics
    BY <1>12, Delivering DEF DropNewest
  <2>0b. dropped \in [Topics -> Nat] /\ refused \in [Subs -> Nat]
    BY <2>0 DEF TypeOK, CountTypes
  <2>1. SubscriptionTypes'
    BY <1>12, Delivering, <2>0
    DEF DropNewest, TypeOK, SubscriptionTypes, bus, subscription, publisher, closure, metrics,
       history
  <2>2. BusTypes'
    BY <1>12, Delivering, <2>0
    DEF DropNewest, TypeOK, BusTypes, bus, subscription, publisher, closure, metrics, history
  <2>3. PublisherTypes'
    BY <1>12, Delivering, <2>0
    DEF DropNewest, TypeOK, PublisherTypes, bus, subscription, publisher, closure, metrics,
       history, Continue
  <2>4. CountTypes'
    <3>1. dropped' \in [Topics -> Nat]
      BY <1>12, <2>0a, <2>0b, Bump DEF DropNewest, Refuse
    <3>2. refused' \in [Subs -> Nat]
      BY <1>12, <2>0a, <2>0b, Bump DEF DropNewest, Refuse
    <3>3. QED
      BY <1>12, <2>0, <3>1, <3>2 DEF DropNewest, TypeOK, CountTypes, bus, subscription, publisher,
         closure, metrics, history
  <2>5. QED
    BY <2>1, <2>2, <2>3, <2>4 DEF TypeOK
<1>13. ASSUME NEW p \in Publishers, TimeOut(p) PROVE TypeOK'
  <2>0. TypeOK
    BY DEF IInv
  <2>0a. psub[p] \in Subs /\ ptopic[p] \in Topics
    BY <1>13, Delivering DEF TimeOut
  <2>0b. dropped \in [Topics -> Nat] /\ refused \in [Subs -> Nat]
    BY <2>0 DEF TypeOK, CountTypes
  <2>1. SubscriptionTypes'
    BY <1>13, Delivering, <2>0
    DEF TimeOut, TypeOK, SubscriptionTypes, bus, subscription, publisher, closure, metrics, history
  <2>2. BusTypes'
    BY <1>13, Delivering, <2>0
    DEF TimeOut, TypeOK, BusTypes, bus, subscription, publisher, closure, metrics, history
  <2>3. PublisherTypes'
    BY <1>13, Delivering, <2>0
    DEF TimeOut, TypeOK, PublisherTypes, bus, subscription, publisher, closure, metrics, history,
       Continue
  <2>4. CountTypes'
    <3>1. dropped' \in [Topics -> Nat]
      BY <1>13, <2>0a, <2>0b, Bump DEF TimeOut, Refuse
    <3>2. refused' \in [Subs -> Nat]
      BY <1>13, <2>0a, <2>0b, Bump DEF TimeOut, Refuse
    <3>3. QED
      BY <1>13, <2>0, <3>1, <3>2 DEF TimeOut, TypeOK, CountTypes, bus, subscription, publisher,
         closure, metrics, history
  <2>5. QED
    BY <2>1, <2>2, <2>3, <2>4 DEF TypeOK
<1>14. ASSUME NEW p \in Publishers, DropSlow(p) PROVE TypeOK'
  <2>0. TypeOK
    BY DEF IInv
  <2>0a. psub[p] \in Subs /\ ptopic[p] \in Topics
    BY <1>14, Delivering DEF DropSlow
  <2>0b. dropped \in [Topics -> Nat] /\ refused \in [Subs -> Nat]
    BY <2>0 DEF TypeOK, CountTypes
  <2>1. SubscriptionTypes'
    BY <1>14, Delivering, <2>0
    DEF DropSlow, TypeOK, SubscriptionTypes, bus, subscription, publisher, closure, metrics, history
  <2>2. BusTypes'
    BY <1>14, Delivering, <2>0
    DEF DropSlow, TypeOK, BusTypes, bus, subscription, publisher, closure, metrics, history
  <2>3. PublisherTypes'
    BY <1>14, Delivering, <2>0
    DEF DropSlow, TypeOK, PublisherTypes, bus, subscription, publisher, closure, metrics, history
  <2>4. CountTypes'
    <3>1. dropped' \in [Topics -> Nat]
      BY <1>14, <2>0a, <2>0b, Bump DEF DropSlow, Refuse
    <3>2. refused' \in [Subs -> Nat]
      BY <1>14, <2>0a, <2>0b, Bump DEF DropSlow, Refuse
    <3>3. QED
      BY <1>14, <2>0, <3>1, <3>2 DEF DropSlow, TypeOK, CountTypes, bus, subscription, publisher,
         closure, metrics, history
  <2>5. QED
    BY <2>1, <2>2, <2>3, <2>4 DEF TypeOK
<1>15. ASSUME NEW p \in Publishers, CancelSlow(p) PROVE TypeOK'
  BY <1>15, Delivering
  DEF CancelSlow, IInv, TypeOK, SubscriptionTypes, BusTypes, PublisherTypes, CountTypes, bus,
     subscription,
      publisher, closure, metrics, history, BeginCancel, Open, Continue
<1>16. ASSUME NEW p \in Publishers, SlowCancelled(p) PROVE TypeOK'
  BY <1>16, Delivering
  DEF SlowCancelled, IInv, TypeOK, SubscriptionTypes, BusTypes, PublisherTypes, CountTypes, bus,
     subscription,
      publisher, closure, metrics, history, BeginCancel, Open, Continue
<1>17. ASSUME NEW p \in Publishers, FoundFull(p) PROVE TypeOK'
  BY <1>17, Delivering
  DEF FoundFull, IInv, TypeOK, SubscriptionTypes, BusTypes, PublisherTypes, CountTypes, bus,
     subscription,
      publisher, closure, metrics, history, BeginCancel, Open, Continue
<1>18. ASSUME NEW p \in Publishers, Evict(p) PROVE TypeOK'
  <2>0. TypeOK
    BY DEF IInv
  <2>0a. psub[p] \in Subs /\ ptopic[p] \in Topics
    BY <1>18, Delivering DEF Evict
  <2>0b. evicted \in [Subs -> Nat]
    BY <2>0 DEF TypeOK, CountTypes
  <2>1. SubscriptionTypes'
    <3> DEFINE q == buf[psub[p]]
    <3>1. psub[p] \in Subs /\ q \in Seq(Message)
      BY <1>18, Delivering DEF Evict
    <3>2. q # <<>> => Tail(q) \in Seq(Message) /\ Len(Tail(q)) \in Nat /\ Len(Tail(q)) + 1 = Len(q)
      BY <3>1, PopChannel
    <3>3. Len(q) \in Nat /\ Len(q) <= BufferSize
      BY <2>0, <3>1, LenProperties DEF TypeOK, SubscriptionTypes
    <3>4. q # <<>> => Len(Tail(q)) <= BufferSize
      BY <3>2, <3>3
    <3>5. buf \in [Subs -> Seq(Message)] /\ \A s \in Subs : Len(buf[s]) <= BufferSize
      BY <2>0 DEF TypeOK, SubscriptionTypes
    <3>6. q # <<>> => buf' = [buf EXCEPT ![psub[p]] = Tail(q)]
      BY <1>18 DEF Evict
    <3>7. q = <<>> => buf' = buf
      BY <1>18 DEF Evict
    <3>8. buf' \in [Subs -> Seq(Message)] /\ \A s \in Subs : Len(buf'[s]) <= BufferSize
      BY <3>1, <3>2, <3>4, <3>5, <3>6, <3>7
    <3>9. QED
      BY <1>18, <2>0, <3>8 DEF Evict, TypeOK, SubscriptionTypes
  <2>2. BusTypes'
    BY <1>18, Delivering, PopChannel, <2>0
    DEF Evict, TypeOK, BusTypes, bus, subscription, publisher, closure, metrics, history
  <2>3. PublisherTypes'
    BY <1>18, Delivering, PopChannel, <2>0
    DEF Evict, TypeOK, PublisherTypes, bus, subscription, publisher, closure, metrics, history
  <2>4. CountTypes'
    <3>1. evicted' \in [Subs -> Nat]
      <4>1. [evicted EXCEPT ![psub[p]] = @ + 1] \in [Subs -> Nat]
        BY <2>0a, <2>0b, Bump
      <4>2. evicted' = evicted \/ evicted' = [evicted EXCEPT ![psub[p]] = @ + 1]
        BY <1>18 DEF Evict
      <4>3. QED
        BY <2>0b, <4>1, <4>2
    <3>2. QED
      BY <1>18, <2>0, <3>1 DEF Evict, TypeOK, CountTypes, bus, subscription, publisher, closure,
         metrics, history
  <2>5. QED
    BY <2>1, <2>2, <2>3, <2>4 DEF TypeOK
<1>19. ASSUME NEW p \in Publishers, Resend(p) PROVE TypeOK'
  <2>0. TypeOK
    BY DEF IInv
  <2>0a. psub[p] \in Subs /\ ptopic[p] \in Topics
    BY <1>19, Delivering DEF Resend
  <2>0b. dropped \in [Topics -> Nat] /\ delivered \in [Topics -> Nat] /\ refused \in [Subs -> Nat]
    BY <2>0 DEF TypeOK, CountTypes
  <2>1. SubscriptionTypes'
    <3> DEFINE q == buf[psub[p]]
    <3>1. psub[p] \in Subs /\ q \in Seq(Message) /\ Current(p) \in Message
      BY <1>19, Delivering DEF Resend
    <3>2. Append(q, Current(p)) \in Seq(Message) /\ Len(Append(q, Current(p))) = Len(q) + 1
      BY <3>1, PushChannel
    <3>3. Len(q) \in Nat
      BY <3>1, PushChannel
    <3>4. HasRoom(psub[p]) => Len(Append(q, Current(p))) <= BufferSize
      BY <3>2, <3>3 DEF HasRoom
    <3>5. buf \in [Subs -> Seq(Message)] /\ \A s \in Subs : Len(buf[s]) <= BufferSize
      BY <2>0 DEF TypeOK, SubscriptionTypes
    <3>6. HasRoom(psub[p]) => buf' = [buf EXCEPT ![psub[p]] = Append(q, Current(p))]
      BY <1>19 DEF Resend, Append1
    <3>7. ~HasRoom(psub[p]) => buf' = buf
      BY <1>19 DEF Resend
    <3>8. buf' \in [Subs -> Seq(Message)] /\ \A s \in Subs : Len(buf'[s]) <= BufferSize
      BY <3>1, <3>2, <3>4, <3>5, <3>6, <3>7
    <3>9. QED
      BY <1>19, <2>0, <3>8 DEF Resend, TypeOK, SubscriptionTypes
  <2>2. BusTypes'
    BY <1>19, Delivering, PushChannel, <2>0
    DEF Resend, TypeOK, BusTypes, bus, subscription, publisher, closure, metrics, history
  <2>3. PublisherTypes'
    BY <1>19, Delivering, PushChannel, <2>0
    DEF Resend, TypeOK, PublisherTypes, bus, subscription, publisher, closure, metrics, history,
       Continue
  <2>4. CountTypes'
    <3>1. dropped' \in [Topics -> Nat]
      BY <1>19, <2>0a, <2>0b, Bump DEF Resend
    <3>2. delivered' \in [Topics -> Nat]
      BY <1>19, <2>0a, <2>0b, Bump DEF Resend
    <3>3. refused' \in [Subs -> Nat]
      BY <1>19, <2>0a, <2>0b, Bump DEF Resend
    <3>4. QED
      BY <1>19, <2>0, <3>1, <3>2, <3>3 DEF Resend, TypeOK, CountTypes, bus, subscription,
         publisher, closure, metrics, history
  <2>5. QED
    BY <2>1, <2>2, <2>3, <2>4 DEF TypeOK
<1>20. ASSUME Close PROVE TypeOK'
  BY <1>20
  DEF Close, IInv, TypeOK, SubscriptionTypes, BusTypes, PublisherTypes, CountTypes, bus,
     subscription,
      publisher, closure, metrics, history, BeginCancel, Open, Continue
<1>21. ASSUME CopyAndClear PROVE TypeOK'
  <2>0. TypeOK
    BY DEF IInv
  <2>1. SubscriptionTypes'
    BY <1>21, <2>0
    DEF CopyAndClear, TypeOK, SubscriptionTypes, bus, subscription, publisher, closure, metrics,
       history
  <2>2. BusTypes'
    BY <1>21, <2>0
    DEF CopyAndClear, TypeOK, BusTypes, bus, subscription, publisher, closure, metrics, history
  <2>3. PublisherTypes'
    BY <1>21, <2>0
    DEF CopyAndClear, TypeOK, PublisherTypes, bus, subscription, publisher, closure, metrics,
       history
  <2>4. CountTypes'
    BY <1>21, <2>0
    DEF CopyAndClear, TypeOK, CountTypes, bus, subscription, publisher, closure, metrics, history
  <2>5. QED
    BY <2>1, <2>2, <2>3, <2>4 DEF TypeOK
<1>22. ASSUME NEW s \in Subs, CancelNext(s) PROVE TypeOK'
  BY <1>22
  DEF CancelNext, IInv, TypeOK, SubscriptionTypes, BusTypes, PublisherTypes, CountTypes, bus,
     subscription,
      publisher, closure, metrics, history, BeginCancel, Open, Continue
<1>23. ASSUME NextCancelled PROVE TypeOK'
  BY <1>23
  DEF NextCancelled, IInv, TypeOK, SubscriptionTypes, BusTypes, PublisherTypes, CountTypes, bus,
     subscription,
      publisher, closure, metrics, history, BeginCancel, Open, Continue
<1>24. ASSUME CloseReturns PROVE TypeOK'
  BY <1>24
  DEF CloseReturns, IInv, TypeOK, SubscriptionTypes, BusTypes, PublisherTypes, CountTypes, bus,
     subscription,
      publisher, closure, metrics, history, BeginCancel, Open, Continue
<1>25. CASE UNCHANGED vars
  BY <1>25
  DEF IInv, TypeOK, SubscriptionTypes, BusTypes, PublisherTypes, CountTypes, vars, bus,
     subscription,
      publisher, closure, metrics, history
<1>26. QED
  BY <1>1, <1>2, <1>3, <1>4, <1>5, <1>6, <1>7, <1>8, <1>9, <1>10, <1>11, <1>12, <1>13, <1>14,
     <1>15, <1>16, <1>17, <1>18, <1>19, <1>20, <1>21, <1>22, <1>23, <1>24, <1>25 DEF Next,
     DeliverStep, CloserStep

-----------------------------------------------------------------------------
(* Each step keeps the map, the calls under way and Close in agreement,    *)
(* and orphans nobody.                                                     *)
LEMMA ControlStep == IInv /\ [Next]_vars => MapInv' /\ CallInv' /\ CloserInv' /\ NoOrphan'
<1> SUFFICES ASSUME IInv, [Next]_vars PROVE MapInv' /\ CallInv' /\ CloserInv' /\ NoOrphan'
  OBVIOUS
<1> DEFINE Control == MapInv /\ CallInv /\ CloserInv /\ NoOrphan
<1> USE BusAssumption
<1>0. TypeOK /\ Control
  BY DEF IInv
<1>1. ASSUME NEW s \in Subs, NEW t \in Topics, NEW pol \in Policies, Subscribe(s, t, pol)
      PROVE  Control'
  <2>1. MapInv'
    <3>1. (\A r \in Subs : stage[r] # "none" => topic[r] \in Topics)'
      BY <1>0, <1>1 DEF Subscribe, TypeOK, SubscriptionTypes, MapInv
    <3>2. (\A u \in Topics : \A r \in topics[u] : topic[r] = u /\ stage[r] \in {"open", "removing"})'
      BY <1>0, <1>1 DEF Subscribe, TypeOK, SubscriptionTypes, BusTypes, MapInv
    <3>3. ASSUME NEW u \in Topics PROVE IsFiniteSet(topics[u])'
      <4>1. IsFiniteSet(topics[u])
        BY <1>0 DEF MapInv
      <4>2. IsFiniteSet(topics[u] \cup {s})
        BY <4>1, FS_AddElement
      <4>3. topics'[u] \in {topics[u], topics[u] \cup {s}}
        BY <1>0, <1>1 DEF Subscribe, TypeOK, BusTypes
      <4>4. QED
        BY <4>1, <4>2, <4>3
    <3>4. QED
      BY <3>1, <3>2, <3>3 DEF MapInv
  <2>2. CloserInv'
    BY <1>0, <1>1
    DEF Subscribe, TypeOK, BusTypes, CloserInv, bus, subscription, publisher, closure, metrics,
       history
  <2>3. NoOrphan'
    BY <1>0, <1>1
    DEF Subscribe, TypeOK, SubscriptionTypes, BusTypes, NoOrphan, MapInv, CloserInv, Open, bus,
       subscription, publisher, closure, metrics, history
  <2>4. CallInv'
    BY <1>0, <1>1
    DEF Subscribe, CallInv, bus, subscription, publisher, closure, metrics, history
  <2>5. QED
    BY <2>1, <2>2, <2>3, <2>4
<1>2. ASSUME NEW s \in Subs, Receive(s) PROVE Control'
  <2>1. MapInv' /\ CallInv' /\ CloserInv' /\ NoOrphan'
    BY <1>0, <1>2
    DEF Receive, MapInv, CallInv, CloserInv, NoOrphan, bus, subscription, publisher, closure,
       metrics, history, Open
  <2>2. QED
    BY <2>1
<1>3. ASSUME NEW s \in Subs, Cancel(s) PROVE Control'
  <2>1. MapInv'
    BY <1>0, <1>3
    DEF Cancel, TypeOK, SubscriptionTypes, BusTypes, MapInv, BeginCancel, Open, bus, subscription,
       publisher, closure, metrics, history
  <2>2. NoOrphan'
    BY <1>0, <1>3
    DEF Cancel, TypeOK, SubscriptionTypes, BusTypes, NoOrphan, MapInv, CloserInv, Open,
       BeginCancel, bus, subscription, publisher, closure, metrics, history
  <2>3. CallInv' /\ CloserInv'
    BY <1>0, <1>3
    DEF Cancel, CallInv, CloserInv, bus, subscription, publisher, closure, metrics, history
  <2>4. QED
    BY <2>1, <2>2, <2>3
<1>4. ASSUME NEW s \in Subs, RemoveSubscriber(s) PROVE Control'
  <2>1. MapInv'
    <3>1. (\A r \in Subs : stage[r] # "none" => topic[r] \in Topics)'
      BY <1>0, <1>4 DEF RemoveSubscriber, TypeOK, SubscriptionTypes, MapInv
    <3>2. (\A u \in Topics : \A r \in topics[u] : topic[r] = u /\ stage[r] \in {"open", "removing"})'
      BY <1>0, <1>4 DEF RemoveSubscriber, TypeOK, SubscriptionTypes, BusTypes, MapInv
    <3>3. ASSUME NEW u \in Topics PROVE IsFiniteSet(topics[u])'
      <4>1. IsFiniteSet(topics[u])
        BY <1>0 DEF MapInv
      <4>2. IsFiniteSet(topics[u] \ {s})
        BY <4>1, FS_RemoveElement
      <4>3. topics'[u] \in {topics[u], topics[u] \ {s}}
        BY <1>0, <1>4 DEF RemoveSubscriber, TypeOK, BusTypes
      <4>4. QED
        BY <4>1, <4>2, <4>3
    <3>4. QED
      BY <3>1, <3>2, <3>3 DEF MapInv
  <2>2. CloserInv'
    BY <1>0, <1>4
    DEF RemoveSubscriber, TypeOK, BusTypes, CloserInv, bus, subscription, publisher, closure,
       metrics, history
  <2>3. NoOrphan'
    BY <1>0, <1>4
    DEF RemoveSubscriber, TypeOK, SubscriptionTypes, BusTypes, NoOrphan, MapInv, CloserInv, Open,
       bus, subscription, publisher, closure, metrics, history
  <2>4. CallInv'
    BY <1>0, <1>4
    DEF RemoveSubscriber, CallInv, bus, subscription, publisher, closure, metrics, history
  <2>5. QED
    BY <2>1, <2>2, <2>3, <2>4
<1>5. ASSUME NEW s \in Subs, CloseChannel(s) PROVE Control'
  <2>1. MapInv'
    BY <1>0, <1>5
    DEF CloseChannel, TypeOK, SubscriptionTypes, BusTypes, MapInv, bus, subscription, publisher,
       closure, metrics, history
  <2>2. NoOrphan'
    BY <1>0, <1>5
    DEF CloseChannel, TypeOK, SubscriptionTypes, BusTypes, NoOrphan, MapInv, CloserInv, Open, bus,
       subscription, publisher, closure, metrics, history
  <2>3. CallInv' /\ CloserInv'
    BY <1>0, <1>5
    DEF CloseChannel, CallInv, CloserInv, bus, subscription, publisher, closure, metrics, history
  <2>4. QED
    BY <2>1, <2>2, <2>3
<1>6. ASSUME NEW p \in Publishers, NEW t \in Topics, Publish(p, t) PROVE Control'
  <2>1. CallInv'
    BY <1>0, <1>6
    DEF Publish, TypeOK, PublisherTypes, BusTypes, CallInv, bus, subscription, publisher, closure,
       metrics, history
  <2>2. MapInv' /\ CloserInv' /\ NoOrphan'
    BY <1>0, <1>6
    DEF Publish, MapInv, CloserInv, NoOrphan, bus, subscription, publisher, closure, metrics,
       history, Open
  <2>3. QED
    BY <2>1, <2>2
<1>7. ASSUME NEW p \in Publishers, Snapshot(p) PROVE Control'
  <2>1. CallInv'
    BY <1>0, <1>7
    DEF Snapshot, TypeOK, PublisherTypes, BusTypes, CallInv, bus, subscription, publisher,
       closure, metrics, history
  <2>2. MapInv' /\ CloserInv' /\ NoOrphan'
    BY <1>0, <1>7
    DEF Snapshot, MapInv, CloserInv, NoOrphan, bus, subscription, publisher, closure, metrics,
       history, Open
  <2>3. QED
    BY <2>1, <2>2
<1>8. ASSUME NEW p \in Publishers, NEW s \in Subs, NextSubscriber(p, s) PROVE Control'
  <2>1. CallInv'
    BY <1>0, <1>8
    DEF NextSubscriber, TypeOK, PublisherTypes, BusTypes, CallInv, bus, subscription, publisher,
       closure, metrics, history
  <2>2. MapInv' /\ CloserInv' /\ NoOrphan'
    BY <1>0, <1>8
    DEF NextSubscriber, MapInv, CloserInv, NoOrphan, bus, subscription, publisher, closure,
       metrics, history, Open
  <2>3. QED
    BY <2>1, <2>2
<1>9. ASSUME NEW p \in Publishers, PublishReturns(p) PROVE Control'
  <2>1. CallInv'
    BY <1>0, <1>9
    DEF PublishReturns, TypeOK, PublisherTypes, BusTypes, CallInv, bus, subscription, publisher,
       closure, metrics, history
  <2>2. MapInv' /\ CloserInv' /\ NoOrphan'
    BY <1>0, <1>9
    DEF PublishReturns, MapInv, CloserInv, NoOrphan, bus, subscription, publisher, closure,
       metrics, history, Open
  <2>3. QED
    BY <2>1, <2>2
<1>10. ASSUME NEW p \in Publishers, Send(p) PROVE Control'
  <2>1. CallInv'
    BY <1>0, <1>10
    DEF Send, TypeOK, PublisherTypes, BusTypes, CallInv, Continue, bus, subscription, publisher,
       closure, metrics, history
  <2>2. MapInv' /\ CloserInv' /\ NoOrphan'
    BY <1>0, <1>10
    DEF Send, MapInv, CloserInv, NoOrphan, bus, subscription, publisher, closure, metrics,
       history, Open
  <2>3. QED
    BY <2>1, <2>2
<1>11. ASSUME NEW p \in Publishers, Panic(p) PROVE Control'
  <2>1. CallInv'
    BY <1>0, <1>11
    DEF Panic, TypeOK, PublisherTypes, BusTypes, CallInv, bus, subscription, publisher, closure,
       metrics, history
  <2>2. MapInv' /\ CloserInv' /\ NoOrphan'
    BY <1>0, <1>11
    DEF Panic, MapInv, CloserInv, NoOrphan, bus, subscription, publisher, closure, metrics,
       history, Open
  <2>3. QED
    BY <2>1, <2>2
<1>12. ASSUME NEW p \in Publishers, DropNewest(p) PROVE Control'
  <2>1. CallInv'
    BY <1>0, <1>12
    DEF DropNewest, TypeOK, PublisherTypes, BusTypes, CallInv, Continue, bus, subscription,
       publisher, closure, metrics, history
  <2>2. MapInv' /\ CloserInv' /\ NoOrphan'
    BY <1>0, <1>12
    DEF DropNewest, MapInv, CloserInv, NoOrphan, bus, subscription, publisher, closure, metrics,
       history, Open
  <2>3. QED
    BY <2>1, <2>2
<1>13. ASSUME NEW p \in Publishers, TimeOut(p) PROVE Control'
  <2>1. CallInv'
    BY <1>0, <1>13
    DEF TimeOut, TypeOK, PublisherTypes, BusTypes, CallInv, Continue, bus, subscription,
       publisher, closure, metrics, history
  <2>2. MapInv' /\ CloserInv' /\ NoOrphan'
    BY <1>0, <1>13
    DEF TimeOut, MapInv, CloserInv, NoOrphan, bus, subscription, publisher, closure, metrics,
       history, Open
  <2>3. QED
    BY <2>1, <2>2
<1>14. ASSUME NEW p \in Publishers, DropSlow(p) PROVE Control'
  <2>1. CallInv'
    BY <1>0, <1>14
    DEF DropSlow, TypeOK, PublisherTypes, BusTypes, CallInv, bus, subscription, publisher,
       closure, metrics, history
  <2>2. MapInv' /\ CloserInv' /\ NoOrphan'
    BY <1>0, <1>14
    DEF DropSlow, MapInv, CloserInv, NoOrphan, bus, subscription, publisher, closure, metrics,
       history, Open
  <2>3. QED
    BY <2>1, <2>2
<1>15. ASSUME NEW p \in Publishers, CancelSlow(p) PROVE Control'
  <2>1. MapInv'
    BY <1>0, <1>15
    DEF CancelSlow, TypeOK, SubscriptionTypes, BusTypes, MapInv, BeginCancel, Open, bus,
       subscription, publisher, closure, metrics, history
  <2>2. NoOrphan'
    BY <1>0, <1>15
    DEF CancelSlow, TypeOK, SubscriptionTypes, BusTypes, NoOrphan, MapInv, CloserInv, Open,
       BeginCancel, bus, subscription, publisher, closure, metrics, history
  <2>3. CallInv' /\ CloserInv'
    BY <1>0, <1>15
    DEF CancelSlow, CallInv, CloserInv, bus, subscription, publisher, closure, metrics, history
  <2>4. QED
    BY <2>1, <2>2, <2>3
<1>16. ASSUME NEW p \in Publishers, SlowCancelled(p) PROVE Control'
  <2>1. CallInv'
    BY <1>0, <1>16
    DEF SlowCancelled, TypeOK, PublisherTypes, BusTypes, CallInv, Continue, bus, subscription,
       publisher, closure, metrics, history
  <2>2. MapInv' /\ CloserInv' /\ NoOrphan'
    BY <1>0, <1>16
    DEF SlowCancelled, MapInv, CloserInv, NoOrphan, bus, subscription, publisher, closure,
       metrics, history, Open
  <2>3. QED
    BY <2>1, <2>2
<1>17. ASSUME NEW p \in Publishers, FoundFull(p) PROVE Control'
  <2>1. CallInv'
    BY <1>0, <1>17
    DEF FoundFull, TypeOK, PublisherTypes, BusTypes, CallInv, bus, subscription, publisher,
       closure, metrics, history
  <2>2. MapInv' /\ CloserInv' /\ NoOrphan'
    BY <1>0, <1>17
    DEF FoundFull, MapInv, CloserInv, NoOrphan, bus, subscription, publisher, closure, metrics,
       history, Open
  <2>3. QED
    BY <2>1, <2>2
<1>18. ASSUME NEW p \in Publishers, Evict(p) PROVE Control'
  <2>1. CallInv'
    BY <1>0, <1>18
    DEF Evict, TypeOK, PublisherTypes, BusTypes, CallInv, bus, subscription, publisher, closure,
       metrics, history
  <2>2. MapInv' /\ CloserInv' /\ NoOrphan'
    BY <1>0, <1>18
    DEF Evict, MapInv, CloserInv, NoOrphan, bus, subscription, publisher, closure, metrics,
       history, Open
  <2>3. QED
    BY <2>1, <2>2
<1>19. ASSUME NEW p \in Publishers, Resend(p) PROVE Control'
  <2>1. CallInv'
    BY <1>0, <1>19
    DEF Resend, TypeOK, PublisherTypes, BusTypes, CallInv, Continue, bus, subscription, publisher,
       closure, metrics, history
  <2>2. MapInv' /\ CloserInv' /\ NoOrphan'
    BY <1>0, <1>19
    DEF Resend, MapInv, CloserInv, NoOrphan, bus, subscription, publisher, closure, metrics,
       history, Open
  <2>3. QED
    BY <2>1, <2>2
<1>20. ASSUME Close PROVE Control'
  <2>1. CloserInv'
    BY <1>0, <1>20
    DEF Close, TypeOK, BusTypes, CloserInv, bus, subscription, publisher, closure, metrics, history
  <2>2. NoOrphan'
    BY <1>0, <1>20
    DEF Close, TypeOK, SubscriptionTypes, BusTypes, NoOrphan, MapInv, CloserInv, Open, bus,
       subscription, publisher, closure, metrics, history
  <2>3. MapInv' /\ CallInv'
    BY <1>0, <1>20
    DEF Close, MapInv, CallInv, bus, subscription, publisher, closure, metrics, history
  <2>4. QED
    BY <2>1, <2>2, <2>3
<1>21. ASSUME CopyAndClear PROVE Control'
  <2>1. MapInv'
    BY <1>0, <1>21, FS_EmptySet
    DEF CopyAndClear, TypeOK, SubscriptionTypes, BusTypes, MapInv, bus, subscription, publisher,
       closure, metrics, history
  <2>2. CloserInv'
    BY <1>0, <1>21
    DEF CopyAndClear, TypeOK, BusTypes, CloserInv, bus, subscription, publisher, closure, metrics,
       history
  <2>3. NoOrphan'
    BY <1>0, <1>21
    DEF CopyAndClear, TypeOK, SubscriptionTypes, BusTypes, NoOrphan, MapInv, CloserInv, Open, bus,
       subscription, publisher, closure, metrics, history
  <2>4. CallInv'
    BY <1>0, <1>21
    DEF CopyAndClear, CallInv, bus, subscription, publisher, closure, metrics, history
  <2>5. QED
    BY <2>1, <2>2, <2>3, <2>4
<1>22. ASSUME NEW s \in Subs, CancelNext(s) PROVE Control'
  <2>1. MapInv'
    BY <1>0, <1>22
    DEF CancelNext, TypeOK, SubscriptionTypes, BusTypes, MapInv, BeginCancel, Open, bus,
       subscription, publisher, closure, metrics, history
  <2>2. CloserInv'
    BY <1>0, <1>22
    DEF CancelNext, TypeOK, BusTypes, CloserInv, BeginCancel, Open, bus, subscription, publisher,
       closure, metrics, history
  <2>3. NoOrphan'
    BY <1>0, <1>22
    DEF CancelNext, TypeOK, SubscriptionTypes, BusTypes, NoOrphan, MapInv, CloserInv, Open,
       BeginCancel, bus, subscription, publisher, closure, metrics, history
  <2>4. CallInv'
    BY <1>0, <1>22
    DEF CancelNext, CallInv, bus, subscription, publisher, closure, metrics, history
  <2>5. QED
    BY <2>1, <2>2, <2>3, <2>4
<1>23. ASSUME NextCancelled PROVE Control'
  <2>1. MapInv' /\ CallInv' /\ CloserInv' /\ NoOrphan'
    BY <1>0, <1>23
    DEF NextCancelled, MapInv, CallInv, CloserInv, NoOrphan, bus, subscription, publisher,
       closure, metrics, history, Open
  <2>2. QED
    BY <2>1
<1>24. ASSUME CloseReturns PROVE Control'
  <2>1. CloserInv'
    BY <1>0, <1>24
    DEF CloseReturns, TypeOK, BusTypes, CloserInv, bus, subscription, publisher, closure, metrics,
       history
  <2>2. NoOrphan'
    BY <1>0, <1>24
    DEF CloseReturns, TypeOK, SubscriptionTypes, BusTypes, NoOrphan, MapInv, CloserInv, Open, bus,
       subscription, publisher, closure, metrics, history
  <2>3. MapInv' /\ CallInv'
    BY <1>0, <1>24
    DEF CloseReturns, MapInv, CallInv, bus, subscription, publisher, closure, metrics, history
  <2>4. QED
    BY <2>1, <2>2, <2>3
<1>25. CASE UNCHANGED vars
  BY <1>0, <1>25 DEF MapInv, CallInv, CloserInv, NoOrphan, Open, vars, bus, subscription,
     publisher, closure, metrics, history
<1>26. QED
  BY <1>1, <1>2, <1>3, <1>4, <1>5, <1>6, <1>7, <1>8, <1>9, <1>10, <1>11, <1>12, <1>13, <1>14,
     <1>15, <1>16, <1>17, <1>18, <1>19, <1>20, <1>21, <1>22, <1>23, <1>24, <1>25 DEF Next,
     DeliverStep, CloserStep

-----------------------------------------------------------------------------
(* Each step keeps the gauge equal to the size of the map's entry.         *)
LEMMA GaugeStep == IInv /\ [Next]_vars => GaugeIsRegistered'
<1> SUFFICES ASSUME IInv, [Next]_vars PROVE GaugeIsRegistered'
  OBVIOUS
<1>0. /\ topics \in [Topics -> SUBSET Subs] /\ gauge \in [Topics -> Int]
      /\ MapInv /\ CloserInv /\ GaugeIsRegistered
  BY DEF IInv, TypeOK, BusTypes, CountTypes
<1>1. ASSUME NEW s \in Subs, NEW t \in Topics, NEW pol \in Policies, Subscribe(s, t, pol)
      PROVE  GaugeIsRegistered'
  <2>1. s \notin topics[t]
    BY <1>0, <1>1 DEF Subscribe, MapInv
  <2>2. Cardinality(topics[t] \cup {s}) = Cardinality(topics[t]) + 1
    BY <1>0, <2>1, FS_AddElement DEF MapInv
  <2>3. ASSUME NEW u \in Topics, gauge[u] = Cardinality(topics[u])
        PROVE  gauge'[u] = Cardinality(topics'[u])
    <3>1. CASE u = t
      BY <1>0, <1>1, <2>2, <2>3, <3>1 DEF Subscribe
    <3>2. CASE u # t
      BY <1>0, <1>1, <2>3, <3>2 DEF Subscribe
    <3>3. QED
      BY <3>1, <3>2
  <2>4. QED
    BY <1>0, <1>1, <2>3 DEF Subscribe, GaugeIsRegistered, closure
<1>2. ASSUME NEW s \in Subs, Receive(s) PROVE GaugeIsRegistered'
  BY <1>0, <1>2 DEF Receive, GaugeIsRegistered, CloserInv, bus, closure, metrics
<1>3. ASSUME NEW s \in Subs, Cancel(s) PROVE GaugeIsRegistered'
  BY <1>0, <1>3 DEF Cancel, GaugeIsRegistered, CloserInv, bus, closure, metrics
<1>4. ASSUME NEW s \in Subs, RemoveSubscriber(s) PROVE GaugeIsRegistered'
  <2>1. topic[s] \in Topics
    BY <1>0, <1>4 DEF RemoveSubscriber, MapInv
  <2>2. Cardinality(topics[topic[s]] \ {s}) =
          IF s \in topics[topic[s]] THEN Cardinality(topics[topic[s]]) - 1
          ELSE Cardinality(topics[topic[s]])
    BY <1>0, <2>1, FS_RemoveElement DEF MapInv
  <2>3. ASSUME NEW u \in Topics, gauge[u] = Cardinality(topics[u])
        PROVE  gauge'[u] = Cardinality(topics'[u])
    <3>1. CASE u = topic[s]
      BY <1>0, <1>4, <2>2, <2>3, <3>1 DEF RemoveSubscriber
    <3>2. CASE u # topic[s]
      BY <1>0, <1>4, <2>3, <3>2 DEF RemoveSubscriber
    <3>3. QED
      BY <3>1, <3>2
  <2>4. QED
    BY <1>0, <1>4, <2>3 DEF RemoveSubscriber, GaugeIsRegistered, closure
<1>5. ASSUME NEW s \in Subs, CloseChannel(s) PROVE GaugeIsRegistered'
  BY <1>0, <1>5 DEF CloseChannel, GaugeIsRegistered, CloserInv, bus, closure, metrics
<1>6. ASSUME NEW p \in Publishers, NEW t \in Topics, Publish(p, t) PROVE GaugeIsRegistered'
  BY <1>0, <1>6 DEF Publish, GaugeIsRegistered, CloserInv, bus, closure, metrics
<1>7. ASSUME NEW p \in Publishers, Snapshot(p) PROVE GaugeIsRegistered'
  BY <1>0, <1>7 DEF Snapshot, GaugeIsRegistered, CloserInv, bus, closure, metrics
<1>8. ASSUME NEW p \in Publishers, NEW s \in Subs, NextSubscriber(p, s) PROVE GaugeIsRegistered'
  BY <1>0, <1>8 DEF NextSubscriber, GaugeIsRegistered, CloserInv, bus, closure, metrics
<1>9. ASSUME NEW p \in Publishers, PublishReturns(p) PROVE GaugeIsRegistered'
  BY <1>0, <1>9 DEF PublishReturns, GaugeIsRegistered, CloserInv, bus, closure, metrics
<1>10. ASSUME NEW p \in Publishers, Send(p) PROVE GaugeIsRegistered'
  BY <1>0, <1>10 DEF Send, GaugeIsRegistered, CloserInv, bus, closure, metrics
<1>11. ASSUME NEW p \in Publishers, Panic(p) PROVE GaugeIsRegistered'
  BY <1>0, <1>11 DEF Panic, GaugeIsRegistered, CloserInv, bus, closure, metrics
<1>12. ASSUME NEW p \in Publishers, DropNewest(p) PROVE GaugeIsRegistered'
  BY <1>0, <1>12 DEF DropNewest, GaugeIsRegistered, CloserInv, bus, closure, metrics
<1>13. ASSUME NEW p \in Publishers, TimeOut(p) PROVE GaugeIsRegistered'
  BY <1>0, <1>13 DEF TimeOut, GaugeIsRegistered, CloserInv, bus, closure, metrics
<1>14. ASSUME NEW p \in Publishers, DropSlow(p) PROVE GaugeIsRegistered'
  BY <1>0, <1>14 DEF DropSlow, GaugeIsRegistered, CloserInv, bus, closure, metrics
<1>15. ASSUME NEW p \in Publishers, CancelSlow(p) PROVE GaugeIsRegistered'
  BY <1>0, <1>15 DEF CancelSlow, GaugeIsRegistered, CloserInv, bus, closure, metrics
<1>16. ASSUME NEW p \in Publishers, SlowCancelled(p) PROVE GaugeIsRegistered'
  BY <1>0, <1>16 DEF SlowCancelled, GaugeIsRegistered, CloserInv, bus, closure, metrics
<1>17. ASSUME NEW p \in Publishers, FoundFull(p) PROVE GaugeIsRegistered'
  BY <1>0, <1>17 DEF FoundFull, GaugeIsRegistered, CloserInv, bus, closure, metrics
<1>18. ASSUME NEW p \in Publishers, Evict(p) PROVE GaugeIsRegistered'
  BY <1>0, <1>18 DEF Evict, GaugeIsRegistered, CloserInv, bus, closure, metrics
<1>19. ASSUME NEW p \in Publishers, Resend(p) PROVE GaugeIsRegistered'
  BY <1>0, <1>19 DEF Resend, GaugeIsRegistered, CloserInv, bus, closure, metrics
<1>20. ASSUME Close PROVE GaugeIsRegistered'
  BY <1>0, <1>20 DEF Close, GaugeIsRegistered, CloserInv, bus, closure, metrics
<1>21. ASSUME CopyAndClear PROVE GaugeIsRegistered'
  BY <1>0, <1>21 DEF CopyAndClear, GaugeIsRegistered, CloserInv, bus, closure, metrics
<1>22. ASSUME NEW s \in Subs, CancelNext(s) PROVE GaugeIsRegistered'
  BY <1>0, <1>22 DEF CancelNext, GaugeIsRegistered, CloserInv, bus, closure, metrics
<1>23. ASSUME NextCancelled PROVE GaugeIsRegistered'
  BY <1>0, <1>23 DEF NextCancelled, GaugeIsRegistered, CloserInv, bus, closure, metrics
<1>24. ASSUME CloseReturns PROVE GaugeIsRegistered'
  BY <1>0, <1>24 DEF CloseReturns, GaugeIsRegistered, CloserInv, bus, closure, metrics
<1>25. CASE UNCHANGED vars
  BY <1>0, <1>25 DEF GaugeIsRegistered, vars, bus, closure, metrics
<1>26. QED
  BY <1>1, <1>2, <1>3, <1>4, <1>5, <1>6, <1>7, <1>8, <1>9, <1>10, <1>11, <1>12, <1>13, <1>14,
     <1>15, <1>16, <1>17, <1>18, <1>19, <1>20, <1>21, <1>22, <1>23, <1>24, <1>25 DEF Next,
     DeliverStep, CloserStep

-----------------------------------------------------------------------------
(* Each step keeps the order: first what a channel operation does to it.   *)
LEMMA OrderTypes ==
  ASSUME IInv
  PROVE  /\ buf \in [Subs -> Seq(Message)] /\ last \in [Subs -> [Publishers -> 0..PublishCap]]
         /\ pnum \in [Publishers -> 0..PublishCap] /\ OrderInv
  BY DEF IInv, TypeOK, SubscriptionTypes, PublisherTypes, CountTypes

LEMMA OrderKept ==
  ASSUME IInv, UNCHANGED <<buf, last, pnum>>,
         \A p \in Publishers, s \in Subs : New(p, s)' => New(p, s)
  PROVE  OrderInv'
  BY OrderTypes DEF OrderInv

LEMMA OrderPopped ==
  ASSUME IInv, NEW s \in Subs, buf[s] # <<>>, buf' = [buf EXCEPT ![s] = Tail(@)],
         \/ last' = last
         \/ last' = [last EXCEPT ![s][Head(buf[s]).from] = Head(buf[s]).num],
         UNCHANGED pnum,
         \A p \in Publishers, r \in Subs : New(p, r)' => New(p, r)
  PROVE  OrderInv'
<1> USE OrderTypes, BusAssumption
<1> DEFINE q == buf[s]
           m == Head(q)
           l == [last[s] EXCEPT ![m.from] = m.num]
<1>1. /\ q \in Seq(Message) /\ q # <<>> /\ Ascending(q) /\ Above(q, last[s])
      /\ last[s] \in [Publishers -> 0..PublishCap]
  BY DEF OrderInv
<1>0. /\ Ascending(Tail(q)) /\ Above(Tail(q), last[s]) /\ Above(Tail(q), l)
      /\ \A p, n : Below(q, p, n) => Below(Tail(q), p, n)
  <2> HIDE DEF q
  <2>1. QED
    BY <1>1, PopOrdered
<1>2. m \in Message /\ m = q[1] /\ 1 \in 1..Len(q)
  BY <1>1, PopChannel
<1>3. m.from \in Publishers /\ m.num \in 1..PublishCap
  BY <1>2 DEF Message
<1>4. /\ \A r \in Subs : r # s => buf'[r] = buf[r] /\ last'[r] = last[r]
      /\ buf'[s] = Tail(q)
      /\ last'[s] = last[s] \/ last'[s] = [last[s] EXCEPT ![m.from] = m.num]
  BY <1>3
<1>5. ASSUME NEW r \in Subs PROVE Ascending(buf[r])' /\ Above(buf[r], last[r])'
  <2>1. CASE r = s
    <3>1. buf'[r] = Tail(q) /\ (last'[r] = last[s] \/ last'[r] = l)
      BY <1>4, <2>1
    <3> HIDE DEF q, l
    <3>2. QED
      BY <1>0, <3>1
  <2>2. CASE r # s
    BY <1>4, <2>2 DEF OrderInv
  <2>3. QED
    BY <2>1, <2>2
<1>6. ASSUME NEW r \in Subs, NEW p \in Publishers
      PROVE  /\ last'[r][p] <= pnum[p] /\ Below(buf'[r], p, pnum[p] + 1)
             /\ New(p, r) => last'[r][p] < pnum[p] /\ Below(buf'[r], p, pnum[p])
  <2>1. /\ last[r][p] <= pnum[p] /\ Below(buf[r], p, pnum[p] + 1)
        /\ New(p, r) => last[r][p] < pnum[p] /\ Below(buf[r], p, pnum[p])
    BY DEF OrderInv
  <2>2. CASE r # s
    BY <1>4, <2>1, <2>2
  <2>3. CASE r = s
    <3>1. /\ Below(buf'[r], p, pnum[p] + 1)
          /\ New(p, r) => Below(buf'[r], p, pnum[p])
      <4>1. buf'[r] = Tail(q) /\ buf[r] = q
        BY <1>4, <2>3
      <4>2. Below(q, p, pnum[p] + 1) /\ (New(p, r) => Below(q, p, pnum[p]))
        BY <2>1, <4>1
      <4> HIDE DEF q
      <4>3. QED
        BY <1>0, <4>1, <4>2
    <3>2. m.from = p => m.num < pnum[p] + 1 /\ (New(p, r) => m.num < pnum[p])
      BY <1>2, <2>1, <2>3 DEF Below
    <3>3. last'[r][p] = last[r][p] \/ (m.from = p /\ last'[r][p] = m.num)
      BY <1>3, <1>4, <2>3
    <3>4. pnum[p] \in Nat /\ m.num \in Nat
      BY <1>3
    <3> HIDE OrderTypes, BusAssumption DEF q, m, l
    <3>5. last'[r][p] <= pnum[p] /\ (New(p, r) => last'[r][p] < pnum[p])
      <4>1. CASE last'[r][p] = last[r][p]
        BY <2>1, <4>1
      <4>2. CASE m.from = p /\ last'[r][p] = m.num
        BY <3>2, <3>4, <4>2
      <4>3. QED
        BY <3>3, <4>1, <4>2
    <3>6. QED
      BY <3>1, <3>5
  <2>4. QED
    BY <2>2, <2>3
<1>7. QED
  BY <1>5, <1>6 DEF OrderInv

LEMMA OrderPushed ==
  ASSUME IInv, NEW p \in Publishers, ppc[p] \in {"send", "resend"},
         buf' = [buf EXCEPT ![psub[p]] = Append(@, Current(p))],
         UNCHANGED <<last, pnum>>,
         \A o \in Publishers, r \in Subs : New(o, r)' => New(o, r),
         \A r \in Subs : r = psub[p] => ~New(p, r)'
  PROVE  OrderInv'
<1> USE OrderTypes, BusAssumption
<1> DEFINE s == psub[p]
           q == buf[s]
           m == Current(p)
<1>1. s \in Subs /\ q \in Seq(Message) /\ m \in Message
  BY Delivering
<1>2. m.from = p /\ m.num = pnum[p]
  BY DEF Current
<1>3. New(p, s)
  BY DEF New
<1>4. Ascending(q) /\ Above(q, last[s]) /\ last[s][m.from] < m.num /\ Below(q, m.from, m.num)
  BY <1>1, <1>2, <1>3 DEF OrderInv
<1>5. (\A r \in Subs : r # s => buf'[r] = buf[r]) /\ buf'[s] = Append(q, m)
  BY <1>1
<1>6. last[s] \in [Publishers -> 0..PublishCap]
  BY <1>1
<1>7. /\ Ascending(buf'[s]) /\ Above(buf'[s], last[s]) /\ Below(buf'[s], p, pnum[p] + 1)
      /\ \A o, n : o # p /\ Below(q, o, n) => Below(buf'[s], o, n)
  BY <1>1, <1>2, <1>4, <1>5, <1>6, PushOrdered
<1>8. ASSUME NEW r \in Subs PROVE Ascending(buf[r])' /\ Above(buf[r], last[r])'
  BY <1>5, <1>7 DEF OrderInv
<1>9. ASSUME NEW r \in Subs, NEW o \in Publishers
      PROVE  /\ last[r][o] <= pnum[o] /\ Below(buf'[r], o, pnum[o] + 1)
             /\ New(o, r)' => last[r][o] < pnum[o] /\ Below(buf'[r], o, pnum[o])
  <2>1. /\ last[r][o] <= pnum[o] /\ Below(buf[r], o, pnum[o] + 1)
        /\ New(o, r) => last[r][o] < pnum[o] /\ Below(buf[r], o, pnum[o])
    BY DEF OrderInv
  <2>2. CASE r # s
    BY <1>5, <2>1, <2>2
  <2>3. CASE r = s /\ o # p
    BY <1>7, <2>1, <2>3
  <2>4. CASE r = s /\ o = p
    BY <1>7, <2>1, <2>4
  <2>5. QED
    BY <2>2, <2>3, <2>4
<1>10. QED
  BY <1>8, <1>9 DEF OrderInv

LEMMA OrderStep == IInv /\ [Next]_vars => OrderInv'
<1> SUFFICES ASSUME IInv, [Next]_vars PROVE OrderInv'
  OBVIOUS
<1>0. /\ PublisherTypes /\ late \in [Publishers -> SUBSET Subs]
      /\ CallInv /\ LateInv /\ NoSub \notin Subs
  BY BusAssumption DEF IInv, TypeOK, CountTypes
<1>1. ASSUME NEW s \in Subs, NEW t \in Topics, NEW pol \in Policies, Subscribe(s, t, pol)
      PROVE  OrderInv'
  BY <1>1, OrderKept DEF Subscribe, New, subscription, publisher, history
<1>2. ASSUME NEW s \in Subs, Receive(s) PROVE OrderInv'
  BY <1>0, <1>2, OrderPopped DEF Receive, New, publisher
<1>3. ASSUME NEW s \in Subs, Cancel(s) PROVE OrderInv'
  BY <1>3, OrderKept DEF Cancel, New, subscription, publisher, history
<1>4. ASSUME NEW s \in Subs, RemoveSubscriber(s) PROVE OrderInv'
  BY <1>4, OrderKept DEF RemoveSubscriber, New, subscription, publisher, history
<1>5. ASSUME NEW s \in Subs, CloseChannel(s) PROVE OrderInv'
  BY <1>5, OrderKept DEF CloseChannel, New, subscription, publisher, history
<1>6. ASSUME NEW p \in Publishers, NEW t \in Topics, Publish(p, t) PROVE OrderInv'
  <2>1. pnum' = [pnum EXCEPT ![p] = @ + 1] /\ UNCHANGED <<buf, last>>
    BY <1>6 DEF Publish, subscription
  <2>2. \A o \in Publishers, r \in Subs : o # p => (New(o, r)' => New(o, r))
    BY <1>0, <1>6 DEF Publish, PublisherTypes, New
  <2>3. ASSUME NEW r \in Subs, NEW o \in Publishers
        PROVE  /\ last[r][o] <= pnum'[o] /\ Below(buf[r], o, pnum'[o] + 1)
               /\ New(o, r)' => last[r][o] < pnum'[o] /\ Below(buf[r], o, pnum'[o])
    <3>1. /\ last[r][o] <= pnum[o] /\ Below(buf[r], o, pnum[o] + 1)
          /\ New(o, r) => last[r][o] < pnum[o] /\ Below(buf[r], o, pnum[o])
      BY OrderTypes DEF OrderInv
    <3>2. last[r][o] \in Int /\ pnum[o] \in Int /\ buf[r] \in Seq(Message)
      BY OrderTypes, BusAssumption
    <3>3. CASE o # p
      BY <2>1, <2>2, <3>1, <3>3, OrderTypes
    <3>4. CASE o = p
      <4>1. pnum'[o] = pnum[o] + 1
        BY <2>1, <3>4, OrderTypes
      <4>2. \A i \in 1..Len(buf[r]) : buf[r][i].num \in Int
        <5>1. \A i \in 1..Len(buf[r]) : buf[r][i] \in Message
          BY <3>2
        <5>2. QED
          BY <5>1, BusAssumption DEF Message
      <4>3. Below(buf[r], o, pnum[o] + 1 + 1)
        BY <3>1, <3>2, <4>2 DEF Below
      <4>4. QED
        BY <3>1, <3>2, <4>1, <4>3
    <3>5. QED
      BY <3>3, <3>4
  <2>4. QED
    BY <2>1, <2>3, OrderTypes DEF OrderInv
<1>7. ASSUME NEW p \in Publishers, Snapshot(p) PROVE OrderInv'
  <2>1. \A o \in Publishers, r \in Subs : New(o, r)' => New(o, r)
    BY <1>0, <1>7 DEF Snapshot, PublisherTypes, New, history
  <2>2. QED
    BY <1>7, <2>1, OrderKept DEF Snapshot, subscription, history
<1>8. ASSUME NEW p \in Publishers, NEW s \in Subs, NextSubscriber(p, s) PROVE OrderInv'
  <2>1. \A o \in Publishers, r \in Subs : New(o, r)' => New(o, r)
    BY <1>0, <1>8 DEF NextSubscriber, PublisherTypes, New, history
  <2>2. QED
    BY <1>8, <2>1, OrderKept DEF NextSubscriber, subscription, history
<1>9. ASSUME NEW p \in Publishers, PublishReturns(p) PROVE OrderInv'
  <2>1. \A o \in Publishers, r \in Subs : New(o, r)' => New(o, r)
    BY <1>0, <1>9 DEF PublishReturns, PublisherTypes, New, history
  <2>2. QED
    BY <1>9, <2>1, OrderKept DEF PublishReturns, subscription, history
<1>10. ASSUME NEW p \in Publishers, Send(p) PROVE OrderInv'
  <2>1. \A o \in Publishers, r \in Subs : New(o, r)' => New(o, r)
    BY <1>0, <1>10 DEF Send, Continue, history, PublisherTypes, New
  <2>2. \A r \in Subs : r = psub[p] => ~New(p, r)'
    BY <1>0, <1>10 DEF Send, Continue, history, PublisherTypes, CallInv, LateInv, New
  <2>3. QED
    BY <1>10, <2>1, <2>2, OrderPushed DEF Send, Append1, history
<1>11. ASSUME NEW p \in Publishers, Panic(p) PROVE OrderInv'
  <2>1. \A o \in Publishers, r \in Subs : New(o, r)' => New(o, r)
    BY <1>0, <1>11 DEF Panic, PublisherTypes, New, history
  <2>2. QED
    BY <1>11, <2>1, OrderKept DEF Panic, subscription, history
<1>12. ASSUME NEW p \in Publishers, DropNewest(p) PROVE OrderInv'
  <2>1. \A o \in Publishers, r \in Subs : New(o, r)' => New(o, r)
    BY <1>0, <1>12 DEF DropNewest, Continue, PublisherTypes, New
  <2>2. QED
    BY <1>12, <2>1, OrderKept DEF DropNewest, Refuse, subscription, history
<1>13. ASSUME NEW p \in Publishers, TimeOut(p) PROVE OrderInv'
  <2>1. \A o \in Publishers, r \in Subs : New(o, r)' => New(o, r)
    BY <1>0, <1>13 DEF TimeOut, Continue, PublisherTypes, New
  <2>2. QED
    BY <1>13, <2>1, OrderKept DEF TimeOut, Refuse, subscription, history
<1>14. ASSUME NEW p \in Publishers, DropSlow(p) PROVE OrderInv'
  <2>1. \A o \in Publishers, r \in Subs : New(o, r)' => New(o, r)
    BY <1>0, <1>14 DEF DropSlow, PublisherTypes, New
  <2>2. QED
    BY <1>14, <2>1, OrderKept DEF DropSlow, Refuse, subscription, history
<1>15. ASSUME NEW p \in Publishers, CancelSlow(p) PROVE OrderInv'
  BY <1>15, OrderKept DEF CancelSlow, New, subscription, publisher, history
<1>16. ASSUME NEW p \in Publishers, SlowCancelled(p) PROVE OrderInv'
  <2>1. \A o \in Publishers, r \in Subs : New(o, r)' => New(o, r)
    BY <1>0, <1>16 DEF SlowCancelled, Continue, PublisherTypes, New, history
  <2>2. QED
    BY <1>16, <2>1, OrderKept DEF SlowCancelled, subscription, history
<1>17. ASSUME NEW p \in Publishers, FoundFull(p) PROVE OrderInv'
  <2>1. \A o \in Publishers, r \in Subs : New(o, r)' => New(o, r)
    BY <1>0, <1>17 DEF FoundFull, PublisherTypes, New, history
  <2>2. QED
    BY <1>17, <2>1, OrderKept DEF FoundFull, subscription, history
<1>18. ASSUME NEW p \in Publishers, Evict(p) PROVE OrderInv'
  <2>1. \A o \in Publishers, r \in Subs : New(o, r)' => New(o, r)
    BY <1>0, <1>18 DEF Evict, PublisherTypes, New
  <2>2. psub[p] \in Subs
    BY <1>18, Delivering DEF Evict
  <2>3. CASE buf[psub[p]] = <<>>
    BY <1>18, <2>1, <2>3, OrderKept DEF Evict
  <2>4. CASE buf[psub[p]] # <<>>
    BY <1>18, <2>1, <2>2, <2>4, OrderPopped DEF Evict
  <2>5. QED
    BY <2>3, <2>4
<1>19. ASSUME NEW p \in Publishers, Resend(p) PROVE OrderInv'
  <2>1. \A o \in Publishers, r \in Subs : New(o, r)' => New(o, r)
    BY <1>0, <1>19 DEF Resend, Continue, history, PublisherTypes, New
  <2>2. \A r \in Subs : r = psub[p] => ~New(p, r)'
    BY <1>0, <1>19 DEF Resend, Continue, history, PublisherTypes, CallInv, LateInv, New
  <2>3. CASE HasRoom(psub[p])
    BY <1>19, <2>1, <2>2, <2>3, OrderPushed DEF Resend, Append1
  <2>4. CASE ~HasRoom(psub[p])
    BY <1>19, <2>1, <2>4, OrderKept DEF Resend
  <2>5. QED
    BY <2>3, <2>4
<1>20. ASSUME Close PROVE OrderInv'
  BY <1>20, OrderKept DEF Close, New, subscription, publisher, history
<1>21. ASSUME CopyAndClear PROVE OrderInv'
  BY <1>21, OrderKept DEF CopyAndClear, New, subscription, publisher, history
<1>22. ASSUME NEW s \in Subs, CancelNext(s) PROVE OrderInv'
  BY <1>22, OrderKept DEF CancelNext, New, subscription, publisher, history
<1>23. ASSUME NextCancelled PROVE OrderInv'
  BY <1>23, OrderKept DEF NextCancelled, New, subscription, publisher, history
<1>24. ASSUME CloseReturns PROVE OrderInv'
  BY <1>24, OrderKept DEF CloseReturns, New, subscription, publisher, history
<1>25. CASE UNCHANGED vars
  BY <1>25, OrderKept DEF New, vars, subscription, publisher, history
<1>26. QED
  BY <1>1, <1>2, <1>3, <1>4, <1>5, <1>6, <1>7, <1>8, <1>9, <1>10, <1>11, <1>12, <1>13, <1>14,
     <1>15, <1>16, <1>17, <1>18, <1>19, <1>20, <1>21, <1>22, <1>23, <1>24, <1>25 DEF Next,
     DeliverStep, CloserStep

-----------------------------------------------------------------------------
(* Each step leaves a publisher away from those that were cancelled before *)
(* its call.                                                               *)
LEMMA LateStep == IInv /\ [Next]_vars => LateInv'
<1> SUFFICES ASSUME IInv, [Next]_vars PROVE LateInv'
  OBVIOUS
<1>0. /\ stage \in [Subs -> {"none", "open", "removing", "closing", "closed"}]
      /\ late \in [Publishers -> SUBSET Subs] /\ psub \in [Publishers -> Subs \cup {NoSub}]
      /\ CallInv /\ LateInv /\ NoSub \notin Subs
  BY BusAssumption DEF IInv, TypeOK, SubscriptionTypes, PublisherTypes, CountTypes
<1>1. ASSUME NEW s \in Subs, NEW t \in Topics, NEW pol \in Policies, Subscribe(s, t, pol)
      PROVE  LateInv'
  BY <1>0, <1>1 DEF Subscribe, LateInv, Ended, subscription, publisher, history
<1>2. ASSUME NEW s \in Subs, Receive(s) PROVE LateInv'
  BY <1>0, <1>2 DEF Receive, LateInv, Ended, subscription, publisher, history
<1>3. ASSUME NEW s \in Subs, Cancel(s) PROVE LateInv'
  BY <1>0, <1>3 DEF Cancel, BeginCancel, Open, LateInv, Ended, subscription, publisher, history
<1>4. ASSUME NEW s \in Subs, RemoveSubscriber(s) PROVE LateInv'
  BY <1>0, <1>4 DEF RemoveSubscriber, LateInv, Ended, subscription, publisher, history
<1>5. ASSUME NEW s \in Subs, CloseChannel(s) PROVE LateInv'
  BY <1>0, <1>5 DEF CloseChannel, LateInv, Ended, subscription, publisher, history
<1>6. ASSUME NEW p \in Publishers, NEW t \in Topics, Publish(p, t) PROVE LateInv'
  BY <1>0, <1>6 DEF Publish, CallInv, LateInv, Ended, subscription, publisher, history
<1>7. ASSUME NEW p \in Publishers, Snapshot(p) PROVE LateInv'
  BY <1>0, <1>7 DEF Snapshot, LateInv, Ended, subscription, publisher, history
<1>8. ASSUME NEW p \in Publishers, NEW s \in Subs, NextSubscriber(p, s) PROVE LateInv'
  BY <1>0, <1>8 DEF NextSubscriber, Open, LateInv, Ended, subscription, publisher, history
<1>9. ASSUME NEW p \in Publishers, PublishReturns(p) PROVE LateInv'
  BY <1>0, <1>9 DEF PublishReturns, LateInv, Ended, subscription, publisher, history
<1>10. ASSUME NEW p \in Publishers, Send(p) PROVE LateInv'
  BY <1>0, <1>10 DEF Send, Continue, LateInv, Ended, subscription, publisher, history
<1>11. ASSUME NEW p \in Publishers, Panic(p) PROVE LateInv'
  BY <1>0, <1>11 DEF Panic, LateInv, Ended, subscription, publisher, history
<1>12. ASSUME NEW p \in Publishers, DropNewest(p) PROVE LateInv'
  BY <1>0, <1>12 DEF DropNewest, Continue, LateInv, Ended, subscription, publisher, history
<1>13. ASSUME NEW p \in Publishers, TimeOut(p) PROVE LateInv'
  BY <1>0, <1>13 DEF TimeOut, Continue, LateInv, Ended, subscription, publisher, history
<1>14. ASSUME NEW p \in Publishers, DropSlow(p) PROVE LateInv'
  BY <1>0, <1>14 DEF DropSlow, LateInv, Ended, subscription, publisher, history
<1>15. ASSUME NEW p \in Publishers, CancelSlow(p) PROVE LateInv'
  BY <1>0, <1>15 DEF CancelSlow, BeginCancel, Open, LateInv, Ended, subscription, publisher, history
<1>16. ASSUME NEW p \in Publishers, SlowCancelled(p) PROVE LateInv'
  BY <1>0, <1>16 DEF SlowCancelled, Continue, LateInv, Ended, subscription, publisher, history
<1>17. ASSUME NEW p \in Publishers, FoundFull(p) PROVE LateInv'
  BY <1>0, <1>17 DEF FoundFull, LateInv, Ended, subscription, publisher, history
<1>18. ASSUME NEW p \in Publishers, Evict(p) PROVE LateInv'
  BY <1>0, <1>18 DEF Evict, LateInv, Ended, subscription, publisher, history
<1>19. ASSUME NEW p \in Publishers, Resend(p) PROVE LateInv'
  BY <1>0, <1>19 DEF Resend, Continue, LateInv, Ended, subscription, publisher, history
<1>20. ASSUME Close PROVE LateInv'
  BY <1>0, <1>20 DEF Close, LateInv, Ended, subscription, publisher, history
<1>21. ASSUME CopyAndClear PROVE LateInv'
  BY <1>0, <1>21 DEF CopyAndClear, LateInv, Ended, subscription, publisher, history
<1>22. ASSUME NEW s \in Subs, CancelNext(s) PROVE LateInv'
  BY <1>0, <1>22 DEF CancelNext, BeginCancel, Open, LateInv, Ended, subscription, publisher, history
<1>23. ASSUME NextCancelled PROVE LateInv'
  BY <1>0, <1>23 DEF NextCancelled, LateInv, Ended, subscription, publisher, history
<1>24. ASSUME CloseReturns PROVE LateInv'
  BY <1>0, <1>24 DEF CloseReturns, LateInv, Ended, subscription, publisher, history
<1>25. CASE UNCHANGED vars
  BY <1>0, <1>25 DEF LateInv, Ended, vars, subscription, publisher, history
<1>26. QED
  BY <1>1, <1>2, <1>3, <1>4, <1>5, <1>6, <1>7, <1>8, <1>9, <1>10, <1>11, <1>12, <1>13, <1>14,
     <1>15, <1>16, <1>17, <1>18, <1>19, <1>20, <1>21, <1>22, <1>23, <1>24, <1>25 DEF Next,
     DeliverStep, CloserStep

-----------------------------------------------------------------------------
(* The invariant is inductive, so it always holds. *)
LEMMA IInvInductive == IInv /\ [Next]_vars => IInv'
  BY TypeStep, ControlStep, GaugeStep, OrderStep, LateStep DEF IInv

LEMMA SpecIInv == Spec => []IInv
<1>1. Init => IInv
  BY InitIInv
<1>2. IInv /\ [Next]_vars => IInv'
  BY IInvInductive
<1>3. QED
  BY <1>1, <1>2, PTL DEF Spec

(* The state always has its types, and no channel ever holds more than the *)
(* buffer it was made with, whatever the policies do.                      *)
THEOREM TypeCorrect == Spec => []TypeOK
<1>1. IInv => TypeOK
  BY DEF IInv
<1>2. QED
  BY <1>1, SpecIInv, PTL

(* Subscribe checks the bus's closed flag under the lock under which Close *)
(* clears the map, so that however they race an open subscription is in    *)
(* the map or among those Close has still to cancel.                       *)
THEOREM NobodyOrphaned == Spec => []NoOrphan
<1>1. IInv => NoOrphan
  BY DEF IInv
<1>2. QED
  BY <1>1, SpecIInv, PTL

(* Whatever policies evict, refuse and try again and however many          *)
(* publishers and readers share a channel, a subscriber gets the messages  *)
(* of one publisher in order and none twice.                               *)
THEOREM AlwaysInOrder == Spec => []InOrder
<1>1. IInv => InOrder
  <2> SUFFICES ASSUME IInv, NEW s \in Subs, NEW i \in 1..BufferSize, i <= Len(buf[s])
               PROVE  /\ buf[s][i].num > last[s][buf[s][i].from]
                      /\ \A j \in 1..(i - 1) :
                            buf[s][j].from = buf[s][i].from => buf[s][j].num < buf[s][i].num
    BY DEF InOrder
  <2>1. buf[s] \in Seq(Message) /\ Ascending(buf[s]) /\ Above(buf[s], last[s])
    BY OrderTypes DEF OrderInv
  <2>2. Len(buf[s]) \in Nat /\ i \in 1..Len(buf[s])
    BY <2>1, LenProperties
  <2>3. \A j \in 1..(i - 1) : j \in 1..Len(buf[s]) /\ j < i
    BY <2>2
  <2>4. QED
    BY <2>1, <2>2, <2>3 DEF Ascending, Above
<1>2. QED
  BY <1>1, SpecIInv, PTL

(* A publisher that still finds a cancelled subscriber in its snapshot     *)
(* never gives it a message published after the Cancel.                    *)
THEOREM NeverLate == Spec => []NoLateDelivery
<1>1. IInv => NoLateDelivery
  <2> SUFFICES ASSUME IInv, NEW p \in Publishers, NEW s \in late[p]
               PROVE  /\ last[s][p] # pnum[p]
                      /\ \A i \in 1..BufferSize : i <= Len(buf[s]) => buf[s][i] # Current(p)
    BY DEF NoLateDelivery
  <2>1. s \in Subs
    BY DEF IInv, TypeOK, CountTypes
  <2>2. last[s][p] < pnum[p] /\ Below(buf[s], p, pnum[p])
    BY <2>1, OrderTypes DEF OrderInv, New
  <2>3. buf[s] \in Seq(Message) /\ last[s][p] \in Int /\ pnum[p] \in Int
    BY <2>1, OrderTypes, BusAssumption
  <2>4. ASSUME NEW i \in 1..BufferSize, i <= Len(buf[s]) PROVE buf[s][i] # Current(p)
    <3>1. i \in 1..Len(buf[s])
      BY <2>3, <2>4, LenProperties
    <3>2. Current(p).from = p /\ Current(p).num = pnum[p]
      BY DEF Current
    <3>3. QED
      BY <2>2, <2>3, <3>1, <3>2 DEF Below
  <2>5. QED
    BY <2>2, <2>3, <2>4
<1>2. QED
  BY <1>1, SpecIInv, PTL

(* Until Close clears the map, the gauge the metrics show for a topic is   *)
(* the number of its subscribers, although a Cancel may race with others   *)
(* and with Close.                                                         *)
THEOREM GaugeCorrect == Spec => []GaugeIsRegistered
<1>1. IInv => GaugeIsRegistered
  BY DEF IInv
<1>2. QED
  BY <1>1, SpecIInv, PTL
-----------------------------------------------------------------------------
(* The metrics.  What is counted for the topic of a publisher was done to  *)
(* a subscriber of that topic, and only what happened is finitely much.    *)
ReceiverInv ==
    /\ \A s \in Subs : stage[s] = "none" =>
          /\ topic[s] = NoTopic /\ buf[s] = <<>>
          /\ gone[s] = 0 /\ evicted[s] = 0 /\ refused[s] = 0
    /\ \A p \in Publishers : \A s \in ptodo[p] : topic[s] = ptopic[p]
    /\ \A p \in Publishers : psub[p] # NoSub => topic[psub[p]] = ptopic[p]

FiniteInv == \A t \in Topics : IsFiniteSet(SubsOf(t)) /\ IsFiniteSet(Resending(t))

LEMMA BookTypes ==
  ASSUME IInv
  PROVE  /\ stage \in [Subs -> {"none", "open", "removing", "closing", "closed"}]
         /\ topic \in [Subs -> Topics \cup {NoTopic}] /\ topics \in [Topics -> SUBSET Subs]
         /\ ppc \in [Publishers -> {"idle", "snapshot", "deliver", "send", "cancel", "evict", "resend",
                                    "panicked"}]
         /\ ptopic \in [Publishers -> Topics \cup {NoTopic}]
         /\ ptodo \in [Publishers -> SUBSET Subs] /\ psub \in [Publishers -> Subs \cup {NoSub}]
         /\ delivered \in [Topics -> Nat] /\ dropped \in [Topics -> Nat]
         /\ gone \in [Subs -> Nat] /\ evicted \in [Subs -> Nat] /\ refused \in [Subs -> Nat]
         /\ buf \in [Subs -> Seq(Message)] /\ \A s \in Subs : Len(buf[s]) \in Nat
         /\ \A s \in Subs : Passed[s] \in Nat /\ Losses[s] \in Nat
         /\ NoTopic \notin Topics /\ NoSub \notin Subs
<1>1. /\ buf \in [Subs -> Seq(Message)]
      /\ gone \in [Subs -> Nat] /\ evicted \in [Subs -> Nat] /\ refused \in [Subs -> Nat]
  BY DEF IInv, TypeOK, SubscriptionTypes, CountTypes
<1>2. \A s \in Subs : Len(buf[s]) \in Nat
  BY <1>1, LenProperties
<1>3. \A s \in Subs : Passed[s] \in Nat /\ Losses[s] \in Nat
  BY <1>1, <1>2 DEF Passed, Losses
<1>4. QED
  BY <1>1, <1>2, <1>3, BusAssumption
  DEF IInv, TypeOK, SubscriptionTypes, BusTypes, PublisherTypes, CountTypes

(* The receiver of a publisher that is delivering has the publisher's      *)
(* topic, and so has subscribed.                                           *)
LEMMA ReceiverTopic ==
  ASSUME IInv, ReceiverInv, NEW p \in Publishers, ppc[p] \notin {"idle", "snapshot", "deliver"}
  PROVE  /\ psub[p] \in Subs /\ ptopic[p] \in Topics
         /\ topic[psub[p]] = ptopic[p] /\ stage[psub[p]] # "none"
<1>1. psub[p] \in Subs /\ ptopic[p] \in Topics
  BY Delivering
<1>2. topic[psub[p]] = ptopic[p]
  BY <1>1, BookTypes DEF ReceiverInv
<1>3. QED
  BY <1>1, <1>2, BookTypes DEF ReceiverInv

LEMMA ReceiverStep == IInv /\ ReceiverInv /\ [Next]_vars => ReceiverInv'
<1> SUFFICES ASSUME IInv, ReceiverInv, [Next]_vars PROVE ReceiverInv'
  OBVIOUS
<1> USE DEF bus, subscription, publisher, closure, metrics, history
<1>0. /\ stage \in [Subs -> {"none", "open", "removing", "closing", "closed"}]
      /\ topic \in [Subs -> Topics \cup {NoTopic}]
      /\ ptodo \in [Publishers -> SUBSET Subs] /\ psub \in [Publishers -> Subs \cup {NoSub}]
      /\ ppc \in [Publishers -> {"idle", "snapshot", "deliver", "send", "cancel", "evict", "resend",
                                 "panicked"}]
      /\ ptopic \in [Publishers -> Topics \cup {NoTopic}]
      /\ gone \in [Subs -> Nat] /\ evicted \in [Subs -> Nat] /\ refused \in [Subs -> Nat]
      /\ buf \in [Subs -> Seq(Message)]
      /\ NoTopic \notin Topics /\ NoSub \notin Subs
      /\ CallInv /\ MapInv /\ ReceiverInv
  BY BookTypes DEF IInv
<1>1. ASSUME NEW s \in Subs, NEW t \in Topics, NEW pol \in Policies, Subscribe(s, t, pol)
      PROVE  ReceiverInv'
  <2>1. \A p \in Publishers : ptopic[p] = ptopic'[p] /\ ptodo'[p] = ptodo[p] /\ psub'[p] = psub[p]
    BY <1>1 DEF Subscribe
  <2>2. \A r \in Subs : r # s => topic'[r] = topic[r] /\ stage'[r] = stage[r]
    BY <1>0, <1>1 DEF Subscribe
  <2>3. \A p \in Publishers : s \notin ptodo[p] /\ psub[p] # s
    <3>1. topic[s] = NoTopic
      BY <1>1 DEF Subscribe, ReceiverInv
    <3>2. \A p \in Publishers : ptodo[p] # {} \/ psub[p] # NoSub => ptopic[p] \in Topics
      BY <1>0 DEF CallInv
    <3>3. QED
      BY <1>0, <3>1, <3>2 DEF ReceiverInv
  <2>4. stage'[s] # "none" /\ UNCHANGED <<buf, gone, evicted, refused>>
    BY <1>0, <1>1 DEF Subscribe
  <2>5. QED
    BY <1>0, <2>1, <2>2, <2>3, <2>4 DEF ReceiverInv
<1>2. ASSUME NEW s \in Subs, Receive(s) PROVE ReceiverInv'
  <2>1. stage[s] # "none"
    BY <1>2 DEF Receive, ReceiverInv
  <2>2. QED
    BY <1>0, <1>2, <2>1 DEF Receive, ReceiverInv
<1>3. ASSUME NEW s \in Subs, Cancel(s) PROVE ReceiverInv'
  BY <1>0, <1>3 DEF Cancel, BeginCancel, Open, ReceiverInv
<1>4. ASSUME NEW s \in Subs, RemoveSubscriber(s) PROVE ReceiverInv'
  BY <1>0, <1>4 DEF RemoveSubscriber, ReceiverInv
<1>5. ASSUME NEW s \in Subs, CloseChannel(s) PROVE ReceiverInv'
  BY <1>0, <1>5 DEF CloseChannel, ReceiverInv
<1>6. ASSUME NEW p \in Publishers, NEW t \in Topics, Publish(p, t) PROVE ReceiverInv'
  <2>1. ptodo[p] = {} /\ psub[p] = NoSub
    BY <1>0, <1>6 DEF Publish, CallInv
  <2>2. QED
    BY <1>0, <1>6, <2>1 DEF Publish, ReceiverInv
<1>7. ASSUME NEW p \in Publishers, Snapshot(p) PROVE ReceiverInv'
  <2>1. ptopic[p] \in Topics /\ \A s \in topics[ptopic[p]] : topic[s] = ptopic[p]
    BY <1>0, <1>7 DEF Snapshot, CallInv, MapInv
  <2>2. QED
    BY <1>0, <1>7, <2>1 DEF Snapshot, ReceiverInv
<1>8. ASSUME NEW p \in Publishers, NEW s \in Subs, NextSubscriber(p, s) PROVE ReceiverInv'
  BY <1>0, <1>8 DEF NextSubscriber, Open, ReceiverInv
<1>9. ASSUME NEW p \in Publishers, PublishReturns(p) PROVE ReceiverInv'
  <2>1. ptodo[p] = {} /\ psub[p] = NoSub
    BY <1>0, <1>9 DEF PublishReturns, CallInv
  <2>2. QED
    BY <1>0, <1>9, <2>1 DEF PublishReturns, ReceiverInv
<1>10. ASSUME NEW p \in Publishers, Send(p) PROVE ReceiverInv'
  <2>1. psub[p] \in Subs /\ stage[psub[p]] # "none"
    BY <1>10, ReceiverTopic DEF Send, Continue, Append1
  <2>2. QED
    BY <1>0, <1>10, <2>1 DEF Send, Continue, Append1, ReceiverInv
<1>11. ASSUME NEW p \in Publishers, Panic(p) PROVE ReceiverInv'
  BY <1>0, <1>11 DEF Panic, ReceiverInv
<1>12. ASSUME NEW p \in Publishers, DropNewest(p) PROVE ReceiverInv'
  <2>1. psub[p] \in Subs /\ stage[psub[p]] # "none"
    BY <1>12, ReceiverTopic DEF DropNewest, Continue, Refuse
  <2>2. QED
    BY <1>0, <1>12, <2>1 DEF DropNewest, Continue, Refuse, ReceiverInv
<1>13. ASSUME NEW p \in Publishers, TimeOut(p) PROVE ReceiverInv'
  <2>1. psub[p] \in Subs /\ stage[psub[p]] # "none"
    BY <1>13, ReceiverTopic DEF TimeOut, Continue, Refuse
  <2>2. QED
    BY <1>0, <1>13, <2>1 DEF TimeOut, Continue, Refuse, ReceiverInv
<1>14. ASSUME NEW p \in Publishers, DropSlow(p) PROVE ReceiverInv'
  <2>1. psub[p] \in Subs /\ stage[psub[p]] # "none"
    BY <1>14, ReceiverTopic DEF DropSlow, Refuse
  <2>2. QED
    BY <1>0, <1>14, <2>1 DEF DropSlow, Refuse, ReceiverInv
<1>15. ASSUME NEW p \in Publishers, CancelSlow(p) PROVE ReceiverInv'
  BY <1>0, <1>15 DEF CancelSlow, BeginCancel, Open, ReceiverInv
<1>16. ASSUME NEW p \in Publishers, SlowCancelled(p) PROVE ReceiverInv'
  BY <1>0, <1>16 DEF SlowCancelled, Continue, ReceiverInv
<1>17. ASSUME NEW p \in Publishers, FoundFull(p) PROVE ReceiverInv'
  BY <1>0, <1>17 DEF FoundFull, ReceiverInv
<1>18. ASSUME NEW p \in Publishers, Evict(p) PROVE ReceiverInv'
  <2>1. psub[p] \in Subs /\ stage[psub[p]] # "none"
    BY <1>18, ReceiverTopic DEF Evict
  <2>2. QED
    BY <1>0, <1>18, <2>1 DEF Evict, ReceiverInv
<1>19. ASSUME NEW p \in Publishers, Resend(p) PROVE ReceiverInv'
  <2>1. psub[p] \in Subs /\ stage[psub[p]] # "none"
    BY <1>19, ReceiverTopic DEF Resend, Continue, Append1
  <2>2. QED
    BY <1>0, <1>19, <2>1 DEF Resend, Continue, Append1, ReceiverInv
<1>20. ASSUME Close PROVE ReceiverInv'
  BY <1>0, <1>20 DEF Close, ReceiverInv
<1>21. ASSUME CopyAndClear PROVE ReceiverInv'
  BY <1>0, <1>21 DEF CopyAndClear, ReceiverInv
<1>22. ASSUME NEW s \in Subs, CancelNext(s) PROVE ReceiverInv'
  BY <1>0, <1>22 DEF CancelNext, BeginCancel, Open, ReceiverInv
<1>23. ASSUME NextCancelled PROVE ReceiverInv'
  BY <1>0, <1>23 DEF NextCancelled, ReceiverInv
<1>24. ASSUME CloseReturns PROVE ReceiverInv'
  BY <1>0, <1>24 DEF CloseReturns, ReceiverInv
<1>25. CASE UNCHANGED vars
  BY <1>0, <1>25 DEF vars, ReceiverInv
<1>26. QED
  BY <1>1, <1>2, <1>3, <1>4, <1>5, <1>6, <1>7, <1>8, <1>9, <1>10, <1>11, <1>12, <1>13, <1>14,
     <1>15, <1>16, <1>17, <1>18, <1>19, <1>20, <1>21, <1>22, <1>23, <1>24, <1>25 DEF Next,
     DeliverStep, CloserStep

(* The sums of a topic when the counts of one subscriber change.           *)
LEMMA OneCounts ==
  ASSUME NEW t, IsFiniteSet(SubsOf(t)), NEW f, NEW g, NEW y \in Subs,
         \A s \in Subs : f[s] \in Nat, g[y] \in Nat, \A s \in Subs : s # y => g[s] = f[s]
  PROVE  /\ Sum(f, SubsOf(t)) \in Nat
         /\ Sum(g, SubsOf(t)) = Sum(f, SubsOf(t)) + (IF topic[y] = t THEN g[y] - f[y] ELSE 0)
<1> DEFINE S == SubsOf(t)
<1>1. /\ \A s \in S : f[s] \in Nat /\ f[s] \in Int /\ (s # y => g[s] = f[s])
      /\ y \in S <=> topic[y] = t
  BY DEF SubsOf
<1>2. S \in SUBSET S /\ g[y] \in Int /\ f[y] \in Nat
  OBVIOUS
<1> HIDE DEF S
<1>3. Sum(f, S) \in Nat
  BY <1>1, <1>2, SumType DEF S
<1>4. CASE y \in S
  BY <1>1, <1>2, <1>3, <1>4, SumChange DEF S
<1>5. CASE y \notin S
  <2>1. Sum(g, S) = Sum(f, S)
    BY <1>1, <1>5, SumSame DEF S
  <2>2. QED
    BY <1>1, <1>3, <1>5, <2>1 DEF S
<1>6. QED
  BY <1>4, <1>5 DEF S

(* A new subscriber has counted nothing.                                   *)
LEMMA NewCounts ==
  ASSUME NEW T, IsFiniteSet(T), NEW s, s \notin T, NEW f, \A r \in T \cup {s} : f[r] \in Nat, f[s] = 0
  PROVE  Sum(f, T \cup {s}) = Sum(f, T)
<1>1. \A r \in T \cup {s} : f[r] \in Int
  OBVIOUS
<1>2. Sum(f, T \cup {s}) = f[s] + Sum(f, T) /\ Sum(f, T) \in Int
  BY <1>1, SumJoin
<1>3. QED
  BY <1>2

LEMMA SumOf == \A f, S : SumFunctionOnSet(f, S) = Sum(f, S)
  BY DEF Sum

(* A step of p adds i to what its receiver passed on or holds and to what  *)
(* is delivered, j to what it lost, m to what is dropped and r to those    *)
(* that are about to count.                                                *)
Counts(p, i, j, m, r) ==
    LET y == psub[p]
        u == ptopic[p]
    IN  /\ y \in Subs /\ u \in Topics /\ topic[y] = u
        /\ topic' = topic
        /\ \A t \in Topics : IsFiniteSet(Resending(t)') /\ (t # u => Resending(t)' = Resending(t))
        /\ \A s \in Subs : s # y => Passed'[s] = Passed[s] /\ Losses'[s] = Losses[s]
        /\ \A t \in Topics : t # u => delivered'[t] = delivered[t] /\ dropped'[t] = dropped[t]
        /\ Passed'[y] = Passed[y] + i /\ Losses'[y] = Losses[y] + j
        /\ delivered'[u] = delivered[u] + i /\ dropped'[u] = dropped[u] + m
        /\ \A t \in Topics : t = u => Cardinality(Resending(t)') = Cardinality(Resending(t)) + r

(* The publishers of a topic that are about to count what they evicted.    *)
LEMMA ResendingMoves ==
  ASSUME FiniteInv, NEW p \in Publishers, NEW u \in Topics, ptopic[p] = u, ptopic' = ptopic,
         \A q \in Publishers : q # p => ppc'[q] = ppc[q]
  PROVE  /\ \A t \in Topics : IsFiniteSet(Resending(t)') /\ (t # u => Resending(t)' = Resending(t))
         /\ Cardinality(Resending(u)) \in Nat
         /\ (ppc[p] \in {"resend", "panicked"} <=> ppc'[p] \in {"resend", "panicked"}) =>
              Cardinality(Resending(u)') = Cardinality(Resending(u))
         /\ ppc[p] \notin {"resend", "panicked"} /\ ppc'[p] \in {"resend", "panicked"} =>
              Cardinality(Resending(u)') = Cardinality(Resending(u)) + 1
         /\ ppc[p] \in {"resend", "panicked"} /\ ppc'[p] \notin {"resend", "panicked"} =>
              Cardinality(Resending(u)') = Cardinality(Resending(u)) - 1
<1>1. \A t \in Topics : t # u => Resending(t)' = Resending(t)
  BY DEF Resending
<1>2. \A t \in Topics : IsFiniteSet(Resending(t))
  BY DEF FiniteInv
<1>3. /\ IsFiniteSet(Resending(u) \cup {p}) /\ IsFiniteSet(Resending(u) \ {p})
      /\ Cardinality(Resending(u)) \in Nat
      /\ p \notin Resending(u) => Cardinality(Resending(u) \cup {p}) = Cardinality(Resending(u)) + 1
      /\ p \in Resending(u) => Cardinality(Resending(u) \ {p}) = Cardinality(Resending(u)) - 1
  BY <1>2, FS_AddElement, FS_RemoveElement, FS_CardinalityType
<1>4. CASE ppc[p] \in {"resend", "panicked"} <=> ppc'[p] \in {"resend", "panicked"}
  <2>1. Resending(u)' = Resending(u)
    BY <1>4 DEF Resending
  <2>2. QED
    BY <1>1, <1>2, <1>3, <1>4, <2>1
<1>5. CASE ppc[p] \notin {"resend", "panicked"} /\ ppc'[p] \in {"resend", "panicked"}
  <2>1. Resending(u)' = Resending(u) \cup {p} /\ p \notin Resending(u)
    BY <1>5 DEF Resending
  <2>2. QED
    BY <1>1, <1>2, <1>3, <1>5, <2>1
<1>6. CASE ppc[p] \in {"resend", "panicked"} /\ ppc'[p] \notin {"resend", "panicked"}
  <2>1. Resending(u)' = Resending(u) \ {p} /\ p \in Resending(u)
    BY <1>6 DEF Resending
  <2>2. QED
    BY <1>1, <1>2, <1>3, <1>6, <2>1
<1>7. QED
  BY <1>4, <1>5, <1>6

LEMMA BooksStep ==
  IInv /\ ReceiverInv /\ FiniteInv /\ DeliveredBalance /\ DropsCoverLosses /\ [Next]_vars =>
    FiniteInv' /\ DeliveredBalance' /\ DropsCoverLosses'
<1> DEFINE Goal == FiniteInv' /\ DeliveredBalance' /\ DropsCoverLosses'
<1> SUFFICES ASSUME IInv, ReceiverInv, FiniteInv, DeliveredBalance, DropsCoverLosses, [Next]_vars
             PROVE  Goal
  OBVIOUS
<1> USE DEF bus, subscription, publisher, closure, metrics, history
<1>types. /\ stage \in [Subs -> {"none", "open", "removing", "closing", "closed"}]
          /\ topic \in [Subs -> Topics \cup {NoTopic}]
          /\ ppc \in [Publishers -> {"idle", "snapshot", "deliver", "send", "cancel", "evict",
                                     "resend", "panicked"}]
          /\ ptopic \in [Publishers -> Topics \cup {NoTopic}]
          /\ psub \in [Publishers -> Subs \cup {NoSub}]
          /\ delivered \in [Topics -> Nat] /\ dropped \in [Topics -> Nat]
          /\ gone \in [Subs -> Nat] /\ evicted \in [Subs -> Nat] /\ refused \in [Subs -> Nat]
          /\ buf \in [Subs -> Seq(Message)] /\ \A s \in Subs : Len(buf[s]) \in Nat
          /\ \A s \in Subs : Passed[s] \in Nat /\ Losses[s] \in Nat
          /\ NoTopic \notin Topics
  BY BookTypes
<1>fin. \A t \in Topics : IsFiniteSet(SubsOf(t)) /\ IsFiniteSet(Resending(t))
  BY DEF FiniteInv
<1>before. \A t \in Topics : /\ delivered[t] = Sum(Passed, SubsOf(t))
                             /\ Sum(Losses, SubsOf(t)) <= dropped[t] + Cardinality(Resending(t))
                             /\ Cardinality(Resending(t)) \in Nat
  BY <1>fin, SumOf, FS_CardinalityType DEF DeliveredBalance, DropsCoverLosses
<1>after. ASSUME \A t \in Topics : IsFiniteSet(SubsOf(t)') /\ IsFiniteSet(Resending(t)'),
                 \A t \in Topics : /\ delivered'[t] = Sum(Passed', SubsOf(t)')
                                   /\ Sum(Losses', SubsOf(t)') <= dropped'[t] + Cardinality(Resending(t)')
          PROVE  Goal
  BY <1>after, SumOf DEF FiniteInv, DeliveredBalance, DropsCoverLosses
(* No counter changes. *)
<1>same. ASSUME UNCHANGED <<topic, delivered, dropped>>,
                \A s \in Subs : Passed'[s] = Passed[s] /\ Losses'[s] = Losses[s],
                \A t \in Topics : Resending(t)' = Resending(t)
         PROVE  Goal
  <2>1. \A t : SubsOf(t)' = SubsOf(t) /\ SubsOf(t) \subseteq Subs
    BY <1>same DEF SubsOf
  <2>2. \A t \in Topics : /\ Sum(Passed', SubsOf(t)) = Sum(Passed, SubsOf(t))
                          /\ Sum(Losses', SubsOf(t)) = Sum(Losses, SubsOf(t))
    BY <1>same, <1>fin, <2>1, SumSame
  <2>3. QED
    BY <1>same, <1>fin, <1>before, <1>after, <2>1, <2>2
(* A publisher counts for its topic what it did to its receiver.           *)
<1>one. ASSUME NEW p \in Publishers, NEW i, NEW j, NEW m, NEW r, Counts(p, i, j, m, r),
               i \in Nat, j \in Nat, m \in Nat, r \in Int, j <= m + r
        PROVE  Goal
  <2> DEFINE y == psub[p]
             u == ptopic[p]
  <2>1. /\ y \in Subs /\ u \in Topics /\ topic[y] = u
        /\ topic' = topic
        /\ \A t \in Topics : t # u => Resending(t)' = Resending(t)
        /\ \A t \in Topics : IsFiniteSet(Resending(t)')
        /\ \A s \in Subs : s # y => Passed'[s] = Passed[s] /\ Losses'[s] = Losses[s]
        /\ \A t \in Topics : t # u => delivered'[t] = delivered[t] /\ dropped'[t] = dropped[t]
        /\ Passed'[y] = Passed[y] + i /\ Losses'[y] = Losses[y] + j
        /\ delivered'[u] = delivered[u] + i /\ dropped'[u] = dropped[u] + m
        /\ \A t \in Topics : t = u => Cardinality(Resending(t)') = Cardinality(Resending(t)) + r
    BY <1>one DEF Counts
  <2> HIDE DEF y, u
  <2>2. \A t : SubsOf(t)' = SubsOf(t)
    BY <2>1 DEF SubsOf
  <2>3. ASSUME NEW f, NEW g, NEW k \in Nat, \A s \in Subs : f[s] \in Nat,
               \A s \in Subs : s # y => g[s] = f[s], g[y] = f[y] + k, NEW t \in Topics
        PROVE  /\ Sum(f, SubsOf(t)) \in Nat
               /\ t = u => Sum(g, SubsOf(t)) = Sum(f, SubsOf(t)) + k
               /\ t # u => Sum(g, SubsOf(t)) = Sum(f, SubsOf(t))
    <3>1. y \in Subs /\ topic[y] = u
      BY <2>1
    <3>2. g[y] \in Nat /\ g[y] - f[y] = k /\ IsFiniteSet(SubsOf(t))
      BY <2>3, <3>1, <1>fin
    <3>3. /\ Sum(f, SubsOf(t)) \in Nat
          /\ Sum(g, SubsOf(t)) = Sum(f, SubsOf(t)) + (IF topic[y] = t THEN g[y] - f[y] ELSE 0)
      BY <2>3, <3>1, <3>2, OneCounts
    <3>4. QED
      BY <3>1, <3>2, <3>3
  <2>4. ASSUME NEW t \in Topics
        PROVE  /\ Sum(Passed, SubsOf(t)) \in Nat
               /\ t = u => Sum(Passed', SubsOf(t)) = Sum(Passed, SubsOf(t)) + i
               /\ t # u => Sum(Passed', SubsOf(t)) = Sum(Passed, SubsOf(t))
    <3>1. /\ \A s \in Subs : Passed[s] \in Nat
          /\ \A s \in Subs : s # y => Passed'[s] = Passed[s]
          /\ Passed'[y] = Passed[y] + i /\ i \in Nat
      BY <1>one, <1>types, <2>1
    <3>2. QED
      BY <2>3, <3>1
  <2>5. ASSUME NEW t \in Topics
        PROVE  /\ Sum(Losses, SubsOf(t)) \in Nat
               /\ t = u => Sum(Losses', SubsOf(t)) = Sum(Losses, SubsOf(t)) + j
               /\ t # u => Sum(Losses', SubsOf(t)) = Sum(Losses, SubsOf(t))
    <3>1. /\ \A s \in Subs : Losses[s] \in Nat
          /\ \A s \in Subs : s # y => Losses'[s] = Losses[s]
          /\ Losses'[y] = Losses[y] + j /\ j \in Nat
      BY <1>one, <1>types, <2>1
    <3>2. QED
      BY <2>3, <3>1
  <2>6. ASSUME NEW t \in Topics PROVE delivered'[t] = Sum(Passed', SubsOf(t))
    BY <1>before, <2>1, <2>4
  <2>7. ASSUME NEW t \in Topics
        PROVE  Sum(Losses', SubsOf(t)) <= dropped'[t] + Cardinality(Resending(t)')
    <3>1. /\ dropped[t] \in Nat /\ Cardinality(Resending(t)) \in Nat
          /\ Sum(Losses, SubsOf(t)) <= dropped[t] + Cardinality(Resending(t))
      BY <1>types, <1>before
    <3>2. CASE t = u
      <4>1. Sum(Losses', SubsOf(t)) = Sum(Losses, SubsOf(t)) + j /\ Sum(Losses, SubsOf(t)) \in Nat
        BY <2>5, <3>2
      <4>2. dropped'[t] = dropped[t] + m
        BY <2>1, <3>2
      <4>3. Cardinality(Resending(t)') = Cardinality(Resending(t)) + r
        BY <2>1, <3>2
      <4>4. j \in Nat /\ m \in Nat /\ r \in Int /\ j <= m + r
        BY <1>one
      <4>5. QED
        BY <3>1, <4>1, <4>2, <4>3, <4>4
    <3>3. CASE t # u
      BY <2>1, <2>5, <3>1, <3>3
    <3>4. QED
      BY <3>2, <3>3
  <2>8. QED
    BY <1>fin, <1>after, <2>1, <2>2, <2>6, <2>7
<1>values. \A s \in Subs : /\ Passed[s] = gone[s] + evicted[s] + Len(buf[s])
                           /\ Passed'[s] = gone'[s] + evicted'[s] + Len(buf'[s])
                           /\ Losses[s] = evicted[s] + refused[s]
                           /\ Losses'[s] = evicted'[s] + refused'[s]
  BY DEF Passed, Losses
<1>keep. ASSUME UNCHANGED <<topic, delivered, dropped, gone, evicted, refused, buf>>,
                \A q \in Publishers :
                   \/ ppc'[q] = ppc[q] /\ ptopic'[q] = ptopic[q]
                   \/ ppc[q] \notin {"resend", "panicked"} /\ ppc'[q] \notin {"resend", "panicked"}
         PROVE  Goal
  <2>1. \A t \in Topics : Resending(t)' = Resending(t)
    BY <1>keep DEF Resending
  <2>2. QED
    BY <1>keep, <1>same, <1>values, <2>1
<1>1. ASSUME NEW s \in Subs, NEW t \in Topics, NEW pol \in Policies, Subscribe(s, t, pol)
      PROVE  Goal
  <2>1. /\ topic[s] = NoTopic /\ topic' = [topic EXCEPT ![s] = t]
        /\ UNCHANGED <<buf, gone, evicted, refused, delivered, dropped, ppc, ptopic>>
        /\ gone[s] = 0 /\ evicted[s] = 0 /\ refused[s] = 0 /\ buf[s] = <<>>
    BY <1>1 DEF Subscribe, ReceiverInv
  <2>2. /\ \A u \in Topics : u # t => SubsOf(u)' = SubsOf(u)
        /\ SubsOf(t)' = SubsOf(t) \cup {s} /\ s \notin SubsOf(t)
    BY <1>types, <2>1 DEF SubsOf
  <2>3. Passed' = Passed /\ Losses' = Losses /\ Passed[s] = 0 /\ Losses[s] = 0
    BY <2>1 DEF Passed, Losses
  <2>4. \A u \in Topics : Resending(u)' = Resending(u)
    BY <2>1 DEF Resending
  <2>5. \A r \in SubsOf(t) \cup {s} : Passed[r] \in Nat /\ Losses[r] \in Nat
    BY <1>types DEF SubsOf
  <2>6. /\ Sum(Passed, SubsOf(t) \cup {s}) = Sum(Passed, SubsOf(t))
        /\ Sum(Losses, SubsOf(t) \cup {s}) = Sum(Losses, SubsOf(t))
    BY <1>fin, <2>2, <2>3, <2>5, NewCounts
  <2>7. \A u \in Topics : /\ Sum(Passed, SubsOf(u)') = Sum(Passed, SubsOf(u))
                          /\ Sum(Losses, SubsOf(u)') = Sum(Losses, SubsOf(u))
                          /\ IsFiniteSet(SubsOf(u)')
    BY <1>fin, <2>2, <2>6, FS_AddElement
  <2>8. QED
    BY <1>fin, <1>before, <1>after, <2>1, <2>3, <2>4, <2>7
<1>2. ASSUME NEW s \in Subs, Receive(s) PROVE Goal
  <2>1. /\ buf[s] # <<>> /\ buf' = [buf EXCEPT ![s] = Tail(@)] /\ gone' = [gone EXCEPT ![s] = @ + 1]
        /\ UNCHANGED <<topic, delivered, dropped, evicted, refused, ppc, ptopic>>
    BY <1>2 DEF Receive
  <2>2. Len(Tail(buf[s])) \in Nat /\ Len(Tail(buf[s])) + 1 = Len(buf[s])
    BY <1>types, <2>1, PopChannel
  <2>3. \A r \in Subs : Passed'[r] = Passed[r] /\ Losses'[r] = Losses[r]
    BY <1>types, <1>values, <2>1, <2>2
  <2>4. \A t \in Topics : Resending(t)' = Resending(t)
    BY <2>1 DEF Resending
  <2>5. QED
    BY <1>same, <2>1, <2>3, <2>4
<1>3. ASSUME NEW s \in Subs, Cancel(s) PROVE Goal
  BY <1>3, <1>keep, <1>types DEF Cancel, BeginCancel, Open
<1>4. ASSUME NEW s \in Subs, RemoveSubscriber(s) PROVE Goal
  BY <1>4, <1>keep, <1>types DEF RemoveSubscriber
<1>5. ASSUME NEW s \in Subs, CloseChannel(s) PROVE Goal
  BY <1>5, <1>keep, <1>types DEF CloseChannel
<1>6. ASSUME NEW p \in Publishers, NEW t \in Topics, Publish(p, t) PROVE Goal
  BY <1>6, <1>keep, <1>types DEF Publish
<1>7. ASSUME NEW p \in Publishers, Snapshot(p) PROVE Goal
  BY <1>7, <1>keep, <1>types DEF Snapshot
<1>8. ASSUME NEW p \in Publishers, NEW s \in Subs, NextSubscriber(p, s) PROVE Goal
  BY <1>8, <1>keep, <1>types DEF NextSubscriber, Open
<1>9. ASSUME NEW p \in Publishers, PublishReturns(p) PROVE Goal
  BY <1>9, <1>keep, <1>types DEF PublishReturns
<1>10. ASSUME NEW p \in Publishers, Send(p) PROVE Goal
  <2> DEFINE y == psub[p]
             u == ptopic[p]
  <2>1. /\ y \in Subs /\ u \in Topics /\ topic[y] = u /\ Current(p) \in Message
    BY <1>10, ReceiverTopic, Delivering DEF Send, Continue, Append1
  <2>2. /\ buf' = [buf EXCEPT ![y] = Append(@, Current(p))]
        /\ delivered' = [delivered EXCEPT ![u] = @ + 1]
        /\ UNCHANGED <<topic, ptopic, dropped, gone, evicted, refused>>
        /\ \A q \in Publishers : q # p => ppc'[q] = ppc[q]
        /\ ppc[p] \notin {"resend", "panicked"} /\ ppc'[p] \notin {"resend", "panicked"}
    BY <1>10, <1>types DEF Send, Continue, Append1
  <2>3. /\ \A t \in Topics : t = u => Cardinality(Resending(t)') = Cardinality(Resending(t)) + 0
        /\ \A t \in Topics : IsFiniteSet(Resending(t)') /\ (t # u => Resending(t)' = Resending(t))
    BY <2>1, <2>2, ResendingMoves
  <2> HIDE DEF y, u
  <2>4. /\ Len(buf'[y]) = Len(buf[y]) + 1 /\ Len(buf[y]) \in Nat
        /\ \A s \in Subs : s # y => buf'[s] = buf[s]
    BY <1>types, <2>1, <2>2, PushChannel
  <2>5. /\ \A s \in Subs : Losses'[s] = Losses[s] /\ (s # y => Passed'[s] = Passed[s])
        /\ Passed'[y] = Passed[y] + 1 /\ Losses'[y] = Losses[y] + 0
    <3>1. UNCHANGED <<gone, evicted, refused>> /\ gone[y] \in Nat /\ evicted[y] \in Nat /\ refused[y] \in Nat
      BY <1>types, <2>1, <2>2
    <3>2. \A s \in Subs : Losses'[s] = Losses[s] /\ (s # y => Passed'[s] = Passed[s])
      BY <1>values, <2>4, <3>1
    <3>3. /\ Passed[y] = gone[y] + evicted[y] + Len(buf[y])
          /\ Passed'[y] = gone'[y] + evicted'[y] + Len(buf'[y])
          /\ Losses[y] = evicted[y] + refused[y] /\ Losses'[y] = evicted'[y] + refused'[y]
      BY <1>values, <2>1
    <3>4. Passed'[y] = Passed[y] + 1
      BY <2>4, <3>1, <3>3
    <3>5. Losses'[y] = Losses[y] + 0
      BY <3>1, <3>3
    <3>6. QED
      BY <3>2, <3>4, <3>5
  <2>6. /\ delivered'[u] = delivered[u] + 1 /\ dropped'[u] = dropped[u] + 0
        /\ \A t \in Topics : t # u => delivered'[t] = delivered[t]
    BY <1>types, <2>1, <2>2
  <2>7. Counts(p, 1, 0, 0, 0)
    BY <2>1, <2>2, <2>3, <2>5, <2>6 DEF Counts, y, u
  <2>8. QED
    BY <1>one, <2>7
<1>11. ASSUME NEW p \in Publishers, Panic(p) PROVE Goal
  <2> DEFINE y == psub[p]
             u == ptopic[p]
  <2>1. /\ y \in Subs /\ u \in Topics /\ topic[y] = u
    BY <1>11, ReceiverTopic DEF Panic
  <2>2. /\ UNCHANGED <<topic, ptopic, delivered, dropped, gone, evicted, refused, buf>>
        /\ \A q \in Publishers : q # p => ppc'[q] = ppc[q]
        /\ ppc'[p] \in {"resend", "panicked"}
    BY <1>11, <1>types DEF Panic
  <2>3. PICK r \in {0, 1} :
          \A t \in Topics : t = u => Cardinality(Resending(t)') = Cardinality(Resending(t)) + r
    BY <1>before, <2>1, <2>2, ResendingMoves
  <2>4. \A t \in Topics : IsFiniteSet(Resending(t)') /\ (t # u => Resending(t)' = Resending(t))
    BY <2>1, <2>2, ResendingMoves
  <2> HIDE DEF y, u
  <2>5. /\ \A s \in Subs : Passed'[s] = Passed[s] /\ Losses'[s] = Losses[s]
        /\ Passed'[y] = Passed[y] + 0 /\ Losses'[y] = Losses[y] + 0
        /\ delivered'[u] = delivered[u] + 0 /\ dropped'[u] = dropped[u] + 0
    BY <1>types, <1>values, <2>1, <2>2
  <2>6. Counts(p, 0, 0, 0, r)
    BY <2>1, <2>2, <2>3, <2>4, <2>5 DEF Counts, y, u
  <2>7. QED
    BY <1>one, <2>3, <2>6
<1>12. ASSUME NEW p \in Publishers, DropNewest(p) PROVE Goal
  <2> DEFINE y == psub[p]
             u == ptopic[p]
  <2>1. /\ y \in Subs /\ u \in Topics /\ topic[y] = u
    BY <1>12, ReceiverTopic DEF DropNewest, Continue, Refuse
  <2>2. /\ refused' = [refused EXCEPT ![y] = @ + 1]
        /\ dropped' = [dropped EXCEPT ![u] = @ + 1]
        /\ UNCHANGED <<topic, ptopic, delivered, gone, evicted, buf>>
        /\ \A q \in Publishers : q # p => ppc'[q] = ppc[q]
        /\ ppc[p] \notin {"resend", "panicked"} /\ ppc'[p] \notin {"resend", "panicked"}
    BY <1>12, <1>types DEF DropNewest, Continue, Refuse
  <2>3. /\ \A t \in Topics : t = u => Cardinality(Resending(t)') = Cardinality(Resending(t)) + 0
        /\ \A t \in Topics : IsFiniteSet(Resending(t)') /\ (t # u => Resending(t)' = Resending(t))
    BY <2>1, <2>2, ResendingMoves
  <2> HIDE DEF y, u
  <2>4. /\ \A s \in Subs : Passed'[s] = Passed[s] /\ (s # y => Losses'[s] = Losses[s])
        /\ Passed'[y] = Passed[y] + 0 /\ Losses'[y] = Losses[y] + 1
    BY <1>types, <1>values, <2>1, <2>2
  <2>5. /\ dropped'[u] = dropped[u] + 1 /\ delivered'[u] = delivered[u] + 0
        /\ \A t \in Topics : t # u => dropped'[t] = dropped[t]
    BY <1>types, <2>1, <2>2
  <2>6. Counts(p, 0, 1, 1, 0)
    BY <2>1, <2>2, <2>3, <2>4, <2>5 DEF Counts, y, u
  <2>7. QED
    BY <1>one, <2>6
<1>13. ASSUME NEW p \in Publishers, TimeOut(p) PROVE Goal
  <2> DEFINE y == psub[p]
             u == ptopic[p]
  <2>1. /\ y \in Subs /\ u \in Topics /\ topic[y] = u
    BY <1>13, ReceiverTopic DEF TimeOut, Continue, Refuse
  <2>2. /\ refused' = [refused EXCEPT ![y] = @ + 1]
        /\ dropped' = [dropped EXCEPT ![u] = @ + 1]
        /\ UNCHANGED <<topic, ptopic, delivered, gone, evicted, buf>>
        /\ \A q \in Publishers : q # p => ppc'[q] = ppc[q]
        /\ ppc[p] \notin {"resend", "panicked"} /\ ppc'[p] \notin {"resend", "panicked"}
    BY <1>13, <1>types DEF TimeOut, Continue, Refuse
  <2>3. /\ \A t \in Topics : t = u => Cardinality(Resending(t)') = Cardinality(Resending(t)) + 0
        /\ \A t \in Topics : IsFiniteSet(Resending(t)') /\ (t # u => Resending(t)' = Resending(t))
    BY <2>1, <2>2, ResendingMoves
  <2> HIDE DEF y, u
  <2>4. /\ \A s \in Subs : Passed'[s] = Passed[s] /\ (s # y => Losses'[s] = Losses[s])
        /\ Passed'[y] = Passed[y] + 0 /\ Losses'[y] = Losses[y] + 1
    BY <1>types, <1>values, <2>1, <2>2
  <2>5. /\ dropped'[u] = dropped[u] + 1 /\ delivered'[u] = delivered[u] + 0
        /\ \A t \in Topics : t # u => dropped'[t] = dropped[t]
    BY <1>types, <2>1, <2>2
  <2>6. Counts(p, 0, 1, 1, 0)
    BY <2>1, <2>2, <2>3, <2>4, <2>5 DEF Counts, y, u
  <2>7. QED
    BY <1>one, <2>6
<1>14. ASSUME NEW p \in Publishers, DropSlow(p) PROVE Goal
  <2> DEFINE y == psub[p]
             u == ptopic[p]
  <2>1. /\ y \in Subs /\ u \in Topics /\ topic[y] = u
    BY <1>14, ReceiverTopic DEF DropSlow, Refuse
  <2>2. /\ refused' = [refused EXCEPT ![y] = @ + 1]
        /\ dropped' = [dropped EXCEPT ![u] = @ + 1]
        /\ UNCHANGED <<topic, ptopic, delivered, gone, evicted, buf>>
        /\ \A q \in Publishers : q # p => ppc'[q] = ppc[q]
        /\ ppc[p] \notin {"resend", "panicked"} /\ ppc'[p] \notin {"resend", "panicked"}
    BY <1>14, <1>types DEF DropSlow, Refuse
  <2>3. /\ \A t \in Topics : t = u => Cardinality(Resending(t)') = Cardinality(Resending(t)) + 0
        /\ \A t \in Topics : IsFiniteSet(Resending(t)') /\ (t # u => Resending(t)' = Resending(t))
    BY <2>1, <2>2, ResendingMoves
  <2> HIDE DEF y, u
  <2>4. /\ \A s \in Subs : Passed'[s] = Passed[s] /\ (s # y => Losses'[s] = Losses[s])
        /\ Passed'[y] = Passed[y] + 0 /\ Losses'[y] = Losses[y] + 1
    BY <1>types, <1>values, <2>1, <2>2
  <2>5. /\ dropped'[u] = dropped[u] + 1 /\ delivered'[u] = delivered[u] + 0
        /\ \A t \in Topics : t # u => dropped'[t] = dropped[t]
    BY <1>types, <2>1, <2>2
  <2>6. Counts(p, 0, 1, 1, 0)
    BY <2>1, <2>2, <2>3, <2>4, <2>5 DEF Counts, y, u
  <2>7. QED
    BY <1>one, <2>6
<1>15. ASSUME NEW p \in Publishers, CancelSlow(p) PROVE Goal
  BY <1>15, <1>keep, <1>types DEF CancelSlow, BeginCancel, Open
<1>16. ASSUME NEW p \in Publishers, SlowCancelled(p) PROVE Goal
  BY <1>16, <1>keep, <1>types DEF SlowCancelled, Continue
<1>17. ASSUME NEW p \in Publishers, FoundFull(p) PROVE Goal
  BY <1>17, <1>keep, <1>types DEF FoundFull
<1>18. ASSUME NEW p \in Publishers, Evict(p) PROVE Goal
  <2> DEFINE y == psub[p]
             u == ptopic[p]
  <2>1. /\ y \in Subs /\ u \in Topics /\ topic[y] = u
    BY <1>18, ReceiverTopic DEF Evict
  <2>2. /\ UNCHANGED <<topic, ptopic, delivered, dropped, gone, refused>>
        /\ \A q \in Publishers : q # p => ppc'[q] = ppc[q]
        /\ ppc[p] \notin {"resend", "panicked"} /\ ppc'[p] \in {"resend", "panicked"}
        /\ \/ UNCHANGED <<buf, evicted>>
           \/ /\ buf[y] # <<>> /\ buf' = [buf EXCEPT ![y] = Tail(@)]
              /\ evicted' = [evicted EXCEPT ![y] = @ + 1]
    BY <1>18, <1>types DEF Evict
  <2>3. /\ \A t \in Topics : t = u => Cardinality(Resending(t)') = Cardinality(Resending(t)) + 1
        /\ \A t \in Topics : IsFiniteSet(Resending(t)') /\ (t # u => Resending(t)' = Resending(t))
    BY <2>1, <2>2, ResendingMoves
  <2> HIDE DEF y, u
  <2>4. /\ \A s \in Subs : Passed'[s] = Passed[s] /\ (s # y => Losses'[s] = Losses[s])
        /\ Losses'[y] = Losses[y] + 0 \/ Losses'[y] = Losses[y] + 1
    <3>1. CASE UNCHANGED <<buf, evicted>>
      BY <1>types, <1>values, <2>1, <2>2, <3>1
    <3>2. CASE /\ buf[y] # <<>> /\ buf' = [buf EXCEPT ![y] = Tail(@)]
               /\ evicted' = [evicted EXCEPT ![y] = @ + 1]
      <4>1. /\ Len(buf'[y]) \in Nat /\ Len(buf'[y]) + 1 = Len(buf[y])
            /\ \A s \in Subs : s # y => buf'[s] = buf[s]
        BY <1>types, <2>1, <3>2, PopChannel
      <4>2. /\ evicted'[y] = evicted[y] + 1 /\ evicted[y] \in Nat
            /\ \A s \in Subs : s # y => evicted'[s] = evicted[s]
        BY <1>types, <2>1, <3>2
      <4>3. gone' = gone /\ refused' = refused /\ gone[y] \in Nat /\ refused[y] \in Nat
        BY <1>types, <2>1, <2>2
      <4>4. Passed'[y] = Passed[y] /\ Losses'[y] = Losses[y] + 1
        BY <1>values, <2>1, <4>1, <4>2, <4>3
      <4>5. \A s \in Subs : s # y => Passed'[s] = Passed[s] /\ Losses'[s] = Losses[s]
        BY <1>values, <4>1, <4>2, <4>3
      <4>6. QED
        BY <4>4, <4>5
    <3>3. QED
      BY <2>2, <3>1, <3>2
  <2>5. /\ delivered'[u] = delivered[u] + 0 /\ dropped'[u] = dropped[u] + 0
        /\ Passed'[y] = Passed[y] + 0
    BY <1>types, <2>1, <2>2, <2>4
  <2>6. Counts(p, 0, 0, 0, 1) \/ Counts(p, 0, 1, 0, 1)
    BY <2>1, <2>2, <2>3, <2>4, <2>5 DEF Counts, y, u
  <2>7. QED
    BY <1>one, <2>6
<1>19. ASSUME NEW p \in Publishers, Resend(p) PROVE Goal
  <2> DEFINE y == psub[p]
             u == ptopic[p]
  <2>1. /\ y \in Subs /\ u \in Topics /\ topic[y] = u /\ Current(p) \in Message
    BY <1>19, ReceiverTopic, Delivering DEF Resend, Continue, Append1
  <2>2. /\ UNCHANGED <<topic, ptopic, gone, evicted>>
        /\ \A q \in Publishers : q # p => ppc'[q] = ppc[q]
        /\ ppc[p] \in {"resend", "panicked"} /\ ppc'[p] \notin {"resend", "panicked"}
        /\ \/ /\ buf' = [buf EXCEPT ![y] = Append(@, Current(p))] /\ refused' = refused
              /\ delivered' = [delivered EXCEPT ![u] = @ + 1]
              /\ dropped' = [dropped EXCEPT ![u] = @ + 1]
           \/ /\ buf' = buf /\ delivered' = delivered
              /\ refused' = [refused EXCEPT ![y] = @ + 1]
              /\ dropped' = [dropped EXCEPT ![u] = @ + 2]
    BY <1>19, <1>types DEF Resend, Continue, Append1
  <2>3. /\ \A t \in Topics : t = u => Cardinality(Resending(t)') = Cardinality(Resending(t)) + (-1)
        /\ \A t \in Topics : IsFiniteSet(Resending(t)') /\ (t # u => Resending(t)' = Resending(t))
    BY <2>1, <2>2, ResendingMoves
  <2> HIDE DEF y, u
  <2>4. CASE /\ buf' = [buf EXCEPT ![y] = Append(@, Current(p))] /\ refused' = refused
             /\ delivered' = [delivered EXCEPT ![u] = @ + 1]
             /\ dropped' = [dropped EXCEPT ![u] = @ + 1]
    <3>1. /\ Len(buf'[y]) = Len(buf[y]) + 1 /\ Len(buf[y]) \in Nat
          /\ \A s \in Subs : s # y => buf'[s] = buf[s]
      BY <1>types, <2>1, <2>4, PushChannel
    <3>2. /\ \A s \in Subs : Losses'[s] = Losses[s] /\ (s # y => Passed'[s] = Passed[s])
          /\ Passed'[y] = Passed[y] + 1 /\ Losses'[y] = Losses[y] + 0
      BY <1>types, <1>values, <2>1, <2>2, <2>4, <3>1
    <3>3. /\ delivered'[u] = delivered[u] + 1 /\ dropped'[u] = dropped[u] + 1
          /\ \A t \in Topics : t # u => delivered'[t] = delivered[t] /\ dropped'[t] = dropped[t]
      BY <1>types, <2>1, <2>4
    <3>4. Counts(p, 1, 0, 1, -1)
      BY <2>1, <2>2, <2>3, <3>2, <3>3 DEF Counts, y, u
    <3>5. QED
      BY <1>one, <3>4
  <2>5. CASE /\ buf' = buf /\ delivered' = delivered
             /\ refused' = [refused EXCEPT ![y] = @ + 1]
             /\ dropped' = [dropped EXCEPT ![u] = @ + 2]
    <3>1. /\ \A s \in Subs : Passed'[s] = Passed[s] /\ (s # y => Losses'[s] = Losses[s])
          /\ Passed'[y] = Passed[y] + 0 /\ Losses'[y] = Losses[y] + 1
      BY <1>types, <1>values, <2>1, <2>2, <2>5
    <3>2. /\ delivered'[u] = delivered[u] + 0 /\ dropped'[u] = dropped[u] + 2
          /\ \A t \in Topics : t # u => delivered'[t] = delivered[t] /\ dropped'[t] = dropped[t]
      BY <1>types, <2>1, <2>5
    <3>3. Counts(p, 0, 1, 2, -1)
      BY <2>1, <2>2, <2>3, <3>1, <3>2 DEF Counts, y, u
    <3>4. QED
      BY <1>one, <3>3
  <2>6. QED
    BY <2>2, <2>4, <2>5
<1>20. ASSUME Close PROVE Goal
  BY <1>20, <1>keep, <1>types DEF Close
<1>21. ASSUME CopyAndClear PROVE Goal
  BY <1>21, <1>keep, <1>types DEF CopyAndClear
<1>22. ASSUME NEW s \in Subs, CancelNext(s) PROVE Goal
  BY <1>22, <1>keep, <1>types DEF CancelNext, BeginCancel, Open
<1>23. ASSUME NextCancelled PROVE Goal
  BY <1>23, <1>keep, <1>types DEF NextCancelled
<1>24. ASSUME CloseReturns PROVE Goal
  BY <1>24, <1>keep, <1>types DEF CloseReturns
<1>25. CASE UNCHANGED vars
  BY <1>25, <1>keep, <1>types DEF vars
<1>26. QED
  BY <1>1, <1>2, <1>3, <1>4, <1>5, <1>6, <1>7, <1>8, <1>9, <1>10, <1>11, <1>12, <1>13, <1>14,
     <1>15, <1>16, <1>17, <1>18, <1>19, <1>20, <1>21, <1>22, <1>23, <1>24, <1>25 DEF Next,
     DeliverStep, CloserStep

(* The metrics of every topic agree with what happened to its messages,    *)
(* however publishers, readers, cancels and Close interleave, for any      *)
(* number of topics, subscribers and publishers.                           *)
THEOREM MetricsAlwaysAgree == Spec => []MetricsAgree
<1> DEFINE Books == ReceiverInv /\ FiniteInv /\ DeliveredBalance /\ DropsCoverLosses
<1>1. Init => Books
  <2> SUFFICES ASSUME Init PROVE Books
    OBVIOUS
  <2>1. \A t \in Topics : SubsOf(t) = {} /\ Resending(t) = {}
    BY BusAssumption DEF Init, SubsOf, Resending
  <2>2. FiniteInv /\ \A t \in Topics : Cardinality(Resending(t)) = 0
    BY <2>1, FS_EmptySet DEF FiniteInv
  <2>3. \A t \in Topics : Sum(Passed, SubsOf(t)) = 0 /\ Sum(Losses, SubsOf(t)) = 0
    BY <2>1, SumEmpty
  <2>4. \A t \in Topics : delivered[t] = 0 /\ dropped[t] = 0
    BY DEF Init
  <2>5. DeliveredBalance /\ DropsCoverLosses
    BY <2>2, <2>3, <2>4, SumOf DEF DeliveredBalance, DropsCoverLosses
  <2>6. ReceiverInv
    BY DEF Init, ReceiverInv
  <2>7. QED
    BY <2>2, <2>5, <2>6
<1>2. IInv /\ Books /\ [Next]_vars => Books'
  BY ReceiverStep, BooksStep
<1>3. IInv /\ Books => MetricsAgree
  BY DEF IInv, MetricsAgree
<1>4. QED
  BY <1>1, <1>2, <1>3, SpecIInv, PTL DEF Spec
=============================================================================
