------------------------------- MODULE PubSub -------------------------------
(***************************************************************************)
(* The in-process bus (pkg/pubsub): publishers that deliver to a snapshot  *)
(* of the subscribers outside the lock, under four backpressure policies,  *)
(* while subscribers subscribe, read and cancel and the bus is closed.     *)
(*                                                                         *)
(* A critical section of the bus's mutex is one step.  Cancel runs once    *)
(* for a subscriber, whoever calls it: `stage` says how far it is, and the *)
(* other callers of it wait for its end (sync.Once).  A metric changes in  *)
(* the same step as the channel or map operation it counts.                *)
(***************************************************************************)
EXTENDS Integers, Sequences, FiniteSetsExt

CONSTANTS
    Topics,
    Subs,               \* the subscriptions nextID may number
    Publishers,         \* goroutines that call Publish
    PublishCap,         \* bound on the calls of one publisher
    Policies,           \* the policies subscribers may ask for
    BufferSize,         \* of every subscription
    NoTopic, NoPolicy, NoSub

PolicyNames == {"DropOldest", "DropNewest", "BlockWithTimeout", "CloseSubscriber"}

ASSUME BusAssumption ==
    /\ PublishCap \in Nat
    /\ Policies \subseteq PolicyNames
    /\ BufferSize \in Nat \ {0}
    /\ NoTopic \notin Topics /\ NoPolicy \notin PolicyNames /\ NoSub \notin Subs

(* A message is known by its publisher and the number of the call. *)
Message == [from : Publishers, num : 1..PublishCap]

VARIABLES
    topics,             \* InProcPubSub.topics: the subscribers of each topic
    closed,             \* InProcPubSub.closed
    stage,              \* how far the subscriber's Cancel is
    topic, policy,      \* its topic and policy
    buf,                \* what its channel holds
    ppc, ptopic, pnum, ptodo, psub,     \* Publish and deliver
    closer, closing, csub,              \* Close
    published, delivered, dropped, gauge,   \* metrics, by topic
    last,               \* history: the last message of each publisher a subscriber read
    gone, evicted, refused,  \* history: messages read, evicted from, refused by a channel
    late                \* history: the subscribers cancelled before a Publish began

bus == <<topics, closed>>
subscription == <<stage, topic, policy, buf>>
publisher == <<ppc, ptopic, pnum, ptodo, psub>>
closure == <<closer, closing, csub>>
metrics == <<published, delivered, dropped, gauge>>
history == <<last, gone, evicted, refused, late>>
vars == <<bus, subscription, publisher, closure, metrics, history>>

Init ==
    /\ topics = [t \in Topics |-> {}]
    /\ closed = FALSE
    /\ stage = [s \in Subs |-> "none"]
    /\ topic = [s \in Subs |-> NoTopic]
    /\ policy = [s \in Subs |-> NoPolicy]
    /\ buf = [s \in Subs |-> <<>>]
    /\ ppc = [p \in Publishers |-> "idle"]
    /\ ptopic = [p \in Publishers |-> NoTopic]
    /\ pnum = [p \in Publishers |-> 0]
    /\ ptodo = [p \in Publishers |-> {}]
    /\ psub = [p \in Publishers |-> NoSub]
    /\ closer = "idle" /\ closing = {} /\ csub = NoSub
    /\ published = [t \in Topics |-> 0]
    /\ delivered = [t \in Topics |-> 0]
    /\ dropped = [t \in Topics |-> 0]
    /\ gauge = [t \in Topics |-> 0]
    /\ last = [s \in Subs |-> [p \in Publishers |-> 0]]
    /\ gone = [s \in Subs |-> 0]
    /\ evicted = [s \in Subs |-> 0]
    /\ refused = [s \in Subs |-> 0]
    /\ late = [p \in Publishers |-> {}]

Open(s) == stage[s] = "open"
Ended(s) == stage[s] \in {"removing", "closing", "closed"}
ChannelClosed(s) == stage[s] = "closed"

(* Mutant: room for one message too many. *)
HasRoom_OffByOne(s) == Len(buf[s]) <= BufferSize

HasRoom(s) == Len(buf[s]) < BufferSize

-----------------------------------------------------------------------------
(* Subscribe, reading the channel, and Cancel.                             *)

(* Mutant: the bus is not checked again under the lock. *)
Subscribe_NoRecheck(s, t, pol) ==
    /\ stage[s] = "none"
    /\ stage' = [stage EXCEPT ![s] = "open"]
    /\ topic' = [topic EXCEPT ![s] = t]
    /\ policy' = [policy EXCEPT ![s] = pol]
    /\ topics' = [topics EXCEPT ![t] = @ \cup {s}]
    /\ gauge' = [gauge EXCEPT ![t] = @ + 1]
    /\ UNCHANGED <<closed, buf, publisher, closure, published, delivered, dropped, history>>

(* The check of closed that counts is the one under the lock. *)
Subscribe(s, t, pol) ==
    /\ stage[s] = "none"
    /\ ~closed
    /\ stage' = [stage EXCEPT ![s] = "open"]
    /\ topic' = [topic EXCEPT ![s] = t]
    /\ policy' = [policy EXCEPT ![s] = pol]
    /\ topics' = [topics EXCEPT ![t] = @ \cup {s}]
    /\ gauge' = [gauge EXCEPT ![t] = @ + 1]
    /\ UNCHANGED <<closed, buf, publisher, closure, published, delivered, dropped, history>>

(* The subscriber's own goroutine reads; a closed channel still gives what *)
(* it holds.                                                               *)
Receive(s) ==
    /\ buf[s] # <<>>
    /\ buf' = [buf EXCEPT ![s] = Tail(@)]
    /\ last' = [last EXCEPT ![s][Head(buf[s]).from] = Head(buf[s]).num]
    /\ gone' = [gone EXCEPT ![s] = @ + 1]
    /\ UNCHANGED <<bus, stage, topic, policy, publisher, closure, metrics, evicted, refused, late>>

(* The first call swaps the subscriber's closed flag ... *)
BeginCancel(s) == Open(s) /\ stage' = [stage EXCEPT ![s] = "removing"]

Cancel(s) ==
    /\ BeginCancel(s)
    /\ UNCHANGED <<bus, topic, policy, buf, publisher, closure, metrics, history>>

(* ... then takes it out of the map, where Close may have been first ... *)
RemoveSubscriber(s) ==
    /\ stage[s] = "removing"
    /\ topics' = [topics EXCEPT ![topic[s]] = @ \ {s}]
    /\ gauge' = IF s \in topics[topic[s]] THEN [gauge EXCEPT ![topic[s]] = @ - 1] ELSE gauge
    /\ stage' = [stage EXCEPT ![s] = "closing"]
    /\ UNCHANGED <<closed, topic, policy, buf, publisher, closure, published, delivered, dropped, history>>

(* ... and closes the channel. *)
CloseChannel(s) ==
    /\ stage[s] = "closing"
    /\ stage' = [stage EXCEPT ![s] = "closed"]
    /\ UNCHANGED <<bus, topic, policy, buf, publisher, closure, metrics, history>>

-----------------------------------------------------------------------------
(* Publish and deliver.                                                    *)

Current(p) == [from |-> p, num |-> pnum[p]]

Publish(p, t) ==
    /\ ppc[p] = "idle"
    /\ pnum[p] < PublishCap
    /\ ~closed
    /\ ppc' = [ppc EXCEPT ![p] = "snapshot"]
    /\ ptopic' = [ptopic EXCEPT ![p] = t]
    /\ pnum' = [pnum EXCEPT ![p] = @ + 1]
    /\ published' = [published EXCEPT ![t] = @ + 1]
    /\ late' = [late EXCEPT ![p] = {s \in Subs : Ended(s)}]
    /\ UNCHANGED <<bus, subscription, ptodo, psub, closure, delivered, dropped, gauge, last, gone,
                   evicted, refused>>

Snapshot(p) ==
    /\ ppc[p] = "snapshot"
    /\ ptodo' = [ptodo EXCEPT ![p] = topics[ptopic[p]]]
    /\ ppc' = [ppc EXCEPT ![p] = "deliver"]
    /\ UNCHANGED <<bus, subscription, ptopic, pnum, psub, closure, metrics, history>>

(* Mutant: a subscriber is not taken off the list it is delivered from. *)
NextSubscriber_Again(p, s) ==
    /\ ppc[p] = "deliver"
    /\ s \in ptodo[p]
    /\ psub' = [psub EXCEPT ![p] = IF Open(s) THEN s ELSE NoSub]
    /\ ppc' = [ppc EXCEPT ![p] = IF Open(s) THEN "send" ELSE "deliver"]
    /\ UNCHANGED <<bus, subscription, ptopic, pnum, ptodo, closure, metrics, history>>

(* Mutant: deliver does not look at the subscriber's closed flag. *)
NextSubscriber_NoCheck(p, s) ==
    /\ ppc[p] = "deliver"
    /\ s \in ptodo[p]
    /\ ptodo' = [ptodo EXCEPT ![p] = @ \ {s}]
    /\ psub' = [psub EXCEPT ![p] = s]
    /\ ppc' = [ppc EXCEPT ![p] = "send"]
    /\ UNCHANGED <<bus, subscription, ptopic, pnum, closure, metrics, history>>

(* The next of the snapshot, in any order; one whose flag is set is        *)
(* skipped.                                                                *)
NextSubscriber(p, s) ==
    /\ ppc[p] = "deliver"
    /\ s \in ptodo[p]
    /\ ptodo' = [ptodo EXCEPT ![p] = @ \ {s}]
    /\ psub' = [psub EXCEPT ![p] = IF Open(s) THEN s ELSE NoSub]
    /\ ppc' = [ppc EXCEPT ![p] = IF Open(s) THEN "send" ELSE "deliver"]
    /\ UNCHANGED <<bus, subscription, ptopic, pnum, closure, metrics, history>>

PublishReturns(p) ==
    /\ ppc[p] = "deliver"
    /\ ptodo[p] = {}
    /\ ppc' = [ppc EXCEPT ![p] = "idle"]
    /\ ptopic' = [ptopic EXCEPT ![p] = NoTopic]
    /\ UNCHANGED <<bus, subscription, pnum, ptodo, psub, closure, metrics, history>>

(* deliver is done with this subscriber.                                   *)
Continue(p) ==
    /\ ppc' = [ppc EXCEPT ![p] = "deliver"]
    /\ psub' = [psub EXCEPT ![p] = NoSub]

Append1(s, m) == buf' = [buf EXCEPT ![s] = Append(@, m)]

(* The message goes into the channel, with or without waiting for room.    *)
Send(p) ==
    LET s == psub[p] IN
    /\ ppc[p] = "send"
    /\ ~ChannelClosed(s) /\ HasRoom(s)
    /\ Append1(s, Current(p))
    /\ delivered' = [delivered EXCEPT ![ptopic[p]] = @ + 1]
    /\ Continue(p)
    /\ UNCHANGED <<bus, stage, topic, policy, ptopic, pnum, ptodo, closure, published, dropped, gauge,
                   history>>

(* A send on a closed channel panics, in a select too; the panic unwinds   *)
(* Publish and what is left of the snapshot gets nothing.                  *)
Panic(p) ==
    /\ ppc[p] \in {"send", "resend"}
    /\ ChannelClosed(psub[p])
    /\ ppc' = [ppc EXCEPT ![p] = "panicked"]
    /\ UNCHANGED <<bus, subscription, ptopic, pnum, ptodo, psub, closure, metrics, history>>

Refuse(p) ==
    /\ dropped' = [dropped EXCEPT ![ptopic[p]] = @ + 1]
    /\ refused' = [refused EXCEPT ![psub[p]] = @ + 1]

(* DropNewest: the message is refused at once.                             *)
DropNewest(p) ==
    LET s == psub[p] IN
    /\ ppc[p] = "send" /\ policy[s] = "DropNewest"
    /\ ~ChannelClosed(s) /\ ~HasRoom(s)
    /\ Refuse(p)
    /\ Continue(p)
    /\ UNCHANGED <<bus, subscription, ptopic, pnum, ptodo, closure, published, delivered, gauge, last,
                   gone, evicted, late>>

(* Mutant: no timer; the publisher waits for room. *)
TimeOut_Never(p) == FALSE

(* BlockWithTimeout: the timer may win whatever the channel does.          *)
TimeOut(p) ==
    /\ ppc[p] = "send" /\ policy[psub[p]] = "BlockWithTimeout"
    /\ Refuse(p)
    /\ Continue(p)
    /\ UNCHANGED <<bus, subscription, ptopic, pnum, ptodo, closure, published, delivered, gauge, last,
                   gone, evicted, late>>

(* CloseSubscriber: the message is refused and the subscriber cancelled,   *)
(* by this publisher or by whoever was first.                              *)
DropSlow(p) ==
    LET s == psub[p] IN
    /\ ppc[p] = "send" /\ policy[s] = "CloseSubscriber"
    /\ ~ChannelClosed(s) /\ ~HasRoom(s)
    /\ Refuse(p)
    /\ ppc' = [ppc EXCEPT ![p] = "cancel"]
    /\ UNCHANGED <<bus, subscription, ptopic, pnum, ptodo, psub, closure, published, delivered, gauge,
                   last, gone, evicted, late>>

CancelSlow(p) ==
    /\ ppc[p] = "cancel"
    /\ BeginCancel(psub[p])
    /\ UNCHANGED <<bus, topic, policy, buf, publisher, closure, metrics, history>>

SlowCancelled(p) ==
    /\ ppc[p] = "cancel"
    /\ ChannelClosed(psub[p])
    /\ Continue(p)
    /\ UNCHANGED <<bus, subscription, ptopic, pnum, ptodo, closure, metrics, history>>

(* DropOldest: the channel is full ... *)
FoundFull(p) ==
    LET s == psub[p] IN
    /\ ppc[p] = "send" /\ policy[s] = "DropOldest"
    /\ ~ChannelClosed(s) /\ ~HasRoom(s)
    /\ ppc' = [ppc EXCEPT ![p] = "evict"]
    /\ UNCHANGED <<bus, subscription, ptopic, pnum, ptodo, psub, closure, metrics, history>>

(* ... take one message out, unless the reader or another publisher has    *)
(* emptied it ... *)
Evict(p) ==
    LET s == psub[p] IN
    /\ ppc[p] = "evict"
    /\ IF buf[s] = <<>> THEN UNCHANGED <<buf, evicted>>
       ELSE /\ buf' = [buf EXCEPT ![s] = Tail(@)]
            /\ evicted' = [evicted EXCEPT ![s] = @ + 1]
    /\ ppc' = [ppc EXCEPT ![p] = "resend"]
    /\ UNCHANGED <<bus, stage, topic, policy, ptopic, pnum, ptodo, psub, closure, metrics, last, gone,
                   refused, late>>

(* Mutant: the second try counts the message it drops and not the one it   *)
(* evicted. *)
Resend_CountsOnce(p) ==
    LET s == psub[p] IN
    /\ ppc[p] = "resend"
    /\ ~ChannelClosed(s)
    /\ dropped' = [dropped EXCEPT ![ptopic[p]] = @ + 1]
    /\ IF HasRoom(s)
       THEN /\ Append1(s, Current(p))
            /\ delivered' = [delivered EXCEPT ![ptopic[p]] = @ + 1]
            /\ UNCHANGED refused
       ELSE /\ refused' = [refused EXCEPT ![s] = @ + 1]
            /\ UNCHANGED <<buf, delivered>>
    /\ Continue(p)
    /\ UNCHANGED <<bus, stage, topic, policy, ptopic, pnum, ptodo, closure, published, gauge, last,
                   gone, evicted, late>>

(* ... and try once more.  One drop is counted in any case, a second one   *)
(* when another publisher took the room.                                   *)
Resend(p) ==
    LET s == psub[p] IN
    /\ ppc[p] = "resend"
    /\ ~ChannelClosed(s)
    /\ dropped' = [dropped EXCEPT ![ptopic[p]] = @ + (IF HasRoom(s) THEN 1 ELSE 2)]
    /\ IF HasRoom(s)
       THEN /\ Append1(s, Current(p))
            /\ delivered' = [delivered EXCEPT ![ptopic[p]] = @ + 1]
            /\ UNCHANGED refused
       ELSE /\ refused' = [refused EXCEPT ![s] = @ + 1]
            /\ UNCHANGED <<buf, delivered>>
    /\ Continue(p)
    /\ UNCHANGED <<bus, stage, topic, policy, ptopic, pnum, ptodo, closure, published, gauge, last,
                   gone, evicted, late>>

-----------------------------------------------------------------------------
(* Close.  Later calls return at once.                                     *)

Close ==
    /\ ~closed
    /\ closed' = TRUE
    /\ closer' = "clear"
    /\ UNCHANGED <<topics, subscription, publisher, closing, csub, metrics, history>>

CopyAndClear ==
    /\ closer = "clear"
    /\ closing' = UNION {topics[t] : t \in Topics}
    /\ topics' = [t \in Topics |-> {}]
    /\ closer' = "cancel"
    /\ UNCHANGED <<closed, subscription, publisher, csub, metrics, history>>

(* Cancel the next one: this call begins it or waits for the one that has. *)
CancelNext(s) ==
    /\ closer = "cancel" /\ csub = NoSub
    /\ s \in closing
    /\ csub' = s
    /\ closing' = closing \ {s}
    /\ IF Open(s) THEN BeginCancel(s) ELSE UNCHANGED stage
    /\ UNCHANGED <<bus, topic, policy, buf, publisher, closer, metrics, history>>

NextCancelled ==
    /\ csub # NoSub
    /\ ChannelClosed(csub)
    /\ csub' = NoSub
    /\ UNCHANGED <<bus, subscription, publisher, closer, closing, metrics, history>>

CloseReturns ==
    /\ closer = "cancel" /\ csub = NoSub /\ closing = {}
    /\ closer' = "done"
    /\ UNCHANGED <<bus, subscription, publisher, closing, csub, metrics, history>>

-----------------------------------------------------------------------------
DeliverStep(p) ==
    \/ \E s \in Subs : NextSubscriber(p, s)
    \/ PublishReturns(p)
    \/ Send(p) \/ Panic(p)
    \/ DropNewest(p) \/ TimeOut(p)
    \/ DropSlow(p) \/ CancelSlow(p) \/ SlowCancelled(p)
    \/ FoundFull(p) \/ Evict(p) \/ Resend(p)

CloserStep == CopyAndClear \/ (\E s \in Subs : CancelNext(s)) \/ NextCancelled \/ CloseReturns

Next ==
    \/ \E s \in Subs, t \in Topics, pol \in Policies : Subscribe(s, t, pol)
    \/ \E s \in Subs : Receive(s) \/ Cancel(s) \/ RemoveSubscriber(s) \/ CloseChannel(s)
    \/ \E p \in Publishers : (\E t \in Topics : Publish(p, t)) \/ Snapshot(p) \/ DeliverStep(p)
    \/ Close
    \/ CloserStep

Spec == Init /\ [][Next]_vars

(* Goroutines run and timers fire: a call under way goes on.  Nobody need  *)
(* publish, read, cancel or close.                                         *)
Fairness ==
    /\ \A p \in Publishers : WF_vars(Snapshot(p) \/ DeliverStep(p))
    /\ \A s \in Subs : WF_vars(RemoveSubscriber(s) \/ CloseChannel(s))
    /\ WF_vars(CloserStep)

FairSpec == Spec /\ Fairness

-----------------------------------------------------------------------------
(* Properties.                                                             *)

(* The shape of the state; no channel holds more than its buffer.          *)
SubscriptionTypes ==
    /\ stage \in [Subs -> {"none", "open", "removing", "closing", "closed"}]
    /\ topic \in [Subs -> Topics \cup {NoTopic}]
    /\ policy \in [Subs -> Policies \cup {NoPolicy}]
    /\ buf \in [Subs -> Seq(Message)]
    /\ \A s \in Subs : Len(buf[s]) <= BufferSize

BusTypes ==
    /\ topics \in [Topics -> SUBSET Subs]
    /\ closed \in BOOLEAN
    /\ closer \in {"idle", "clear", "cancel", "done"}
    /\ closing \subseteq Subs
    /\ csub \in Subs \cup {NoSub}

PublisherTypes ==
    /\ ppc \in [Publishers -> {"idle", "snapshot", "deliver", "send", "cancel", "evict", "resend",
                               "panicked"}]
    /\ ptopic \in [Publishers -> Topics \cup {NoTopic}]
    /\ pnum \in [Publishers -> 0..PublishCap]
    /\ ptodo \in [Publishers -> SUBSET Subs]
    /\ psub \in [Publishers -> Subs \cup {NoSub}]

CountTypes ==
    /\ published \in [Topics -> Nat] /\ delivered \in [Topics -> Nat]
    /\ dropped \in [Topics -> Nat] /\ gauge \in [Topics -> Int]
    /\ last \in [Subs -> [Publishers -> 0..PublishCap]]
    /\ gone \in [Subs -> Nat] /\ evicted \in [Subs -> Nat] /\ refused \in [Subs -> Nat]
    /\ late \in [Publishers -> SUBSET Subs]

TypeOK == SubscriptionTypes /\ BusTypes /\ PublisherTypes /\ CountTypes

(* An open subscription is in the map of its topic until Close clears it,  *)
(* and then on the list Close works through: a Subscribe that races with   *)
(* Close never leaves a channel that nobody will close.                    *)
NoOrphan ==
    \A s \in Subs : Open(s) =>
        IF closer \in {"idle", "clear"} THEN s \in topics[topic[s]] ELSE s \in closing

(* A subscriber gets the messages of one publisher in the order they were  *)
(* published and none of them twice, however the policies evict, refuse    *)
(* and try again and whatever other publishers do.                         *)
InOrder ==
    \A s \in Subs, i \in 1..BufferSize : i <= Len(buf[s]) =>
        /\ buf[s][i].num > last[s][buf[s][i].from]
        /\ \A j \in 1..(i - 1) : buf[s][j].from = buf[s][i].from => buf[s][j].num < buf[s][i].num

(* A message whose Publish began after the Cancel of a subscriber did      *)
(* never reaches it, although the publisher may find it in the map still.  *)
NoLateDelivery ==
    \A p \in Publishers : \A s \in late[p] :
        /\ last[s][p] # pnum[p]
        /\ \A i \in 1..BufferSize : i <= Len(buf[s]) => buf[s][i] # Current(p)

(* The metrics of a topic.  Every message counted as delivered was read,   *)
(* evicted or is in a channel still; every message evicted or refused is   *)
(* counted as dropped, at the latest when the publisher that evicted it is *)
(* done; until Close clears the map, the gauge is the size of its entry.   *)
SubsOf(t) == {s \in Subs : topic[s] = t}
Resending(t) == {p \in Publishers : ppc[p] \in {"resend", "panicked"} /\ ptopic[p] = t}

Passed == [s \in Subs |-> gone[s] + evicted[s] + Len(buf[s])]
Losses == [s \in Subs |-> evicted[s] + refused[s]]

DeliveredBalance ==
    \A t \in Topics : delivered[t] = SumFunctionOnSet(Passed, SubsOf(t))

DropsCoverLosses ==
    \A t \in Topics :
        SumFunctionOnSet(Losses, SubsOf(t)) <= dropped[t] + Cardinality(Resending(t))

GaugeIsRegistered ==
    closer \in {"idle", "clear"} => \A t \in Topics : gauge[t] = Cardinality(topics[t])

MetricsAgree == DeliveredBalance /\ DropsCoverLosses /\ GaugeIsRegistered

(* "If subscriber already closed, ignore." (pubsub.go:170): a publisher    *)
(* never sends on a channel that is closed.  Violated: Cancel may close it *)
(* between the check and the send, or while the publisher waits for room.  *)
NoPanic == \A p \in Publishers : ppc[p] # "panicked"

(* Every Publish ends, with whatever policies it meets and whoever reads   *)
(* or does not.                                                            *)
PublishEnds ==
    \A p \in Publishers : ppc[p] # "idle" ~> ppc[p] \in {"idle", "panicked"}

(* Close ends, and when it has been called every subscriber sees its       *)
(* channel closed, also one whose Cancel was under way.                    *)
CloseEndsAll ==
    closed ~> (closer = "done" /\ \A s \in Subs : stage[s] \in {"none", "closed"})

(* No call hangs, and no reader waits for a channel nobody will close. *)
CallsEnd == PublishEnds /\ CloseEndsAll
=============================================================================
