-------------------------- MODULE WebhookOutProofs --------------------------
(***************************************************************************)
(* Proofs about WebhookOut, for all sets of targets, deliveries, workers   *)
(* and callers and every queue size and policy.                            *)
(***************************************************************************)
EXTENDS WebhookOut, FoldProofs, SequenceTheorems, TLAPS

(* What the program counters say of the local variables.                   *)
CallerInv ==
    \A c \in Callers :
        /\ ctask[c] # NoTask <=> cpc[c] = "enqueue"
        /\ cpc[c] # "idle" => cop[c] # "none"

WorkerInv ==
    \A w \in Workers :
        /\ wtask[w] # NoTask <=>
             wpc[w] \in {"delivery", "target", "empty", "send", "store", "push"}
        /\ wpc[w] \in {"target", "empty", "send", "store"} =>
             wattempt[w] = deliveries[wtask[w]].attempt
        /\ wpc[w] \in {"send", "store"} => wtarget[w] \in TargetRecord
        /\ wpc[w] = "empty" => ~deliveries[wtask[w]].payload
        /\ wpc[w] \in {"send", "store"} => deliveries[wtask[w]].payload
        /\ wpc[w] = "store" => wverdict[w] # "none"
        /\ wpc[w] = "store" /\ wverdict[w] = "retrying" => wattempt[w] + 1 < RetryCap

SchedulerInv == hand # NoTask <=> spc = "requeue"

(* Before Start no goroutine of the service runs.                          *)
LifecycleInv == ~running /\ ~ctxDone => spc = "off" /\ \A w \in Workers : wpc[w] = "off"

(* A task is the task of a stored delivery that has not ended.             *)
HeldIsLive == \A d \in Deliveries : Held(d) => deliveries[d].status \in Live

(* The inductive invariant.                                                *)
IInv ==
    /\ TypeOK
    /\ CallerInv
    /\ WorkerInv
    /\ SchedulerInv
    /\ LifecycleInv
    /\ HeldIsLive
    /\ OneTask

-----------------------------------------------------------------------------
(* The initial states satisfy the invariant.                               *)
LEMMA InitIInv == Init => IInv
<1> SUFFICES ASSUME Init PROVE IInv
  OBVIOUS
<1> USE ConfigAssumption, DomainAssumption DEF Init
<1>1. TypeOK
  <2>1. StoreTypes /\ QueueTypes
    BY DEF StoreTypes, QueueTypes
  <2>2. SchedulerTypes /\ CallerTypes
    BY DEF SchedulerTypes, CallerTypes
  <2>3. WorkerTypes /\ ServiceTypes
    BY DEF WorkerTypes, ServiceTypes, MetricNames
  <2>4. QED
    BY <2>1, <2>2, <2>3 DEF TypeOK
<1>2. CallerInv /\ WorkerInv /\ SchedulerInv /\ LifecycleInv
  BY DEF CallerInv, WorkerInv, SchedulerInv, LifecycleInv
<1>3. Range(queue) = {} /\ IsInjective(queue)
  BY DEF Range, IsInjective
<1>4. \A d \in Deliveries : ~Held(d)
  BY <1>3 DEF Held, InCall, InQueue, InWork, OnHeap
<1>5. HeldIsLive
  BY <1>4 DEF HeldIsLive
<1>6. OneTask
  BY <1>3, <1>4 DEF OneTask, OncePerPlace, OnePlace, Held
<1>7. QED
  BY <1>1, <1>2, <1>5, <1>6 DEF IInv

-----------------------------------------------------------------------------
(* The task a worker, a call or the scheduler holds is the task of a       *)
(* delivery in the store that has not ended.                               *)
LEMMA HeldRecord ==
  ASSUME IInv, NEW d \in Deliveries, Held(d)
  PROVE  deliveries[d] \in DeliveryRecord /\ deliveries[d].status \in Live
  BY DEF IInv, HeldIsLive, TypeOK, StoreTypes, NoDelivery, Live

LEMMA WorkerTask ==
  ASSUME IInv, NEW w \in Workers,
         wpc[w] \in {"delivery", "target", "empty", "send", "store", "push"}
  PROVE  /\ wtask[w] \in Deliveries
         /\ Held(wtask[w])
         /\ deliveries[wtask[w]] \in DeliveryRecord
         /\ deliveries[wtask[w]].status \in Live
<1>1. wtask[w] \in Deliveries
  BY DEF IInv, WorkerInv, TypeOK, WorkerTypes
<1>2. Held(wtask[w])
  BY <1>1 DEF Held, InWork
<1>3. QED
  BY <1>1, <1>2, HeldRecord

LEMMA CallerTask ==
  ASSUME IInv, NEW c \in Callers, cpc[c] = "enqueue"
  PROVE  /\ ctask[c] \in Deliveries
         /\ Held(ctask[c])
         /\ cop[c] \in {"trigger", "replay"}
<1>1. ctask[c] \in Deliveries /\ cop[c] \in {"trigger", "replay"}
  BY DEF IInv, CallerInv, TypeOK, CallerTypes
<1>2. QED
  BY <1>1 DEF Held, InCall

LEMMA HandTask == IInv /\ spc = "requeue" => hand \in Deliveries
  BY DEF IInv, SchedulerInv, TypeOK, SchedulerTypes

(* Taking an element off a sequence without repetition, putting one on.    *)
LEMMA TailOfInjective ==
  ASSUME NEW S, NEW q \in Seq(S), q # <<>>, IsInjective(q)
  PROVE  /\ Head(q) \in S /\ Head(q) \in Range(q)
         /\ Tail(q) \in Seq(S) /\ Len(Tail(q)) < Len(q)
         /\ Range(Tail(q)) = Range(q) \ {Head(q)}
         /\ IsInjective(Tail(q))
<1>1. /\ Head(q) = q[1] /\ Head(q) \in S /\ Len(q) \in Nat /\ Len(q) > 0
      /\ Tail(q) \in Seq(S) /\ Len(Tail(q)) = Len(q) - 1
      /\ \A i \in 1..Len(q) - 1 : Tail(q)[i] = q[i + 1]
  BY HeadTailProperties
<1>2. DOMAIN q = 1..Len(q) /\ DOMAIN Tail(q) = 1..Len(q) - 1
  BY <1>1, LenProperties
<1>3. Head(q) \in Range(q)
  BY <1>1, <1>2 DEF Range
<1>4. IsInjective(Tail(q))
  BY <1>1, <1>2 DEF IsInjective
<1>5. ASSUME NEW x \in Range(Tail(q)) PROVE x \in Range(q) \ {Head(q)}
  BY <1>1, <1>2 DEF Range, IsInjective
<1>6. ASSUME NEW x \in Range(q), x # Head(q) PROVE x \in Range(Tail(q))
  <2>1. PICK i \in 1..Len(q) : q[i] = x
    BY <1>2 DEF Range
  <2>2. i - 1 \in 1..Len(q) - 1 /\ Tail(q)[i - 1] = q[i]
    BY <1>1, <1>6, <2>1
  <2>3. QED
    BY <1>2, <2>1, <2>2 DEF Range
<1>7. QED
  BY <1>1, <1>3, <1>4, <1>5, <1>6

LEMMA AppendToInjective ==
  ASSUME NEW S, NEW q \in Seq(S), NEW x \in S, IsInjective(q), x \notin Range(q)
  PROVE  /\ Append(q, x) \in Seq(S) /\ Len(Append(q, x)) = Len(q) + 1
         /\ Range(Append(q, x)) = Range(q) \cup {x}
         /\ IsInjective(Append(q, x))
<1>1. /\ Append(q, x) \in Seq(S) /\ Len(q) \in Nat /\ Len(Append(q, x)) = Len(q) + 1
      /\ \A i \in 1..Len(q) : Append(q, x)[i] = q[i]
      /\ Append(q, x)[Len(q) + 1] = x
  BY AppendProperties, LenProperties
<1>2. DOMAIN q = 1..Len(q) /\ DOMAIN Append(q, x) = 1..Len(q) + 1
  BY <1>1, LenProperties
<1>3. \A i \in 1..Len(q) + 1 : i \in 1..Len(q) \/ i = Len(q) + 1
  BY <1>1
<1>4. IsInjective(Append(q, x))
  BY <1>1, <1>2, <1>3 DEF IsInjective, Range
<1>5. Range(Append(q, x)) = Range(q) \cup {x}
  BY <1>1, <1>2, <1>3 DEF Range
<1>6. QED
  BY <1>1, <1>4, <1>5

LEMMA TailQueue ==
  ASSUME IInv, queue # <<>>
  PROVE  /\ Head(queue) \in Deliveries /\ InQueue(Head(queue))
         /\ Tail(queue) \in Seq(Deliveries) /\ Len(Tail(queue)) <= QueueSize
         /\ Range(Tail(queue)) = Range(queue) \ {Head(queue)}
         /\ IsInjective(Tail(queue))
<1>1. queue \in Seq(Deliveries) /\ Len(queue) <= QueueSize /\ IsInjective(queue)
  BY DEF IInv, TypeOK, QueueTypes, OneTask, OncePerPlace
<1>2. Len(queue) \in Nat /\ Len(Tail(queue)) \in Nat
  BY <1>1, TailOfInjective, LenProperties
<1>3. QED
  BY <1>1, <1>2, TailOfInjective, ConfigAssumption DEF InQueue

LEMMA AppendQueue ==
  ASSUME IInv, HasRoom, NEW d \in Deliveries, ~InQueue(d)
  PROVE  /\ Append(queue, d) \in Seq(Deliveries) /\ Len(Append(queue, d)) <= QueueSize
         /\ Range(Append(queue, d)) = Range(queue) \cup {d}
         /\ IsInjective(Append(queue, d))
<1>1. queue \in Seq(Deliveries) /\ Len(queue) < QueueSize /\ IsInjective(queue)
  BY DEF IInv, TypeOK, QueueTypes, OneTask, OncePerPlace, HasRoom
<1>2. Len(queue) \in Nat /\ QueueSize \in Nat
  BY <1>1, LenProperties, ConfigAssumption
<1>3. QED
  BY <1>1, <1>2, AppendToInjective DEF InQueue

(* What UpdateDelivery does to a stored delivery.                          *)
LEMMA UpdateOne ==
  ASSUME IInv, NEW d \in Deliveries, deliveries[d] \in DeliveryRecord,
         NEW n \in Nat, NEW s \in Live \cup Terminal, UpdateDelivery(d, n, s)
  PROVE  /\ deliveries' \in [Deliveries -> DeliveryRecord \cup {NoDelivery}]
         /\ deliveries'[d].status = s /\ deliveries'[d].attempt = n
         /\ deliveries'[d].target = deliveries[d].target
         /\ deliveries'[d].payload = deliveries[d].payload
         /\ \A e \in Deliveries \ {d} : deliveries'[e] = deliveries[e]
<1> DEFINE r == [deliveries[d] EXCEPT !.attempt = n, !.status = s]
<1>1. /\ r \in DeliveryRecord /\ r.status = s /\ r.attempt = n
      /\ r.target = deliveries[d].target /\ r.payload = deliveries[d].payload
  BY DEF DeliveryRecord
<1>2. deliveries' = [deliveries EXCEPT ![d] = r]
  BY DEF UpdateDelivery
<1> HIDE DEF r
<1>3. QED
  BY <1>1, <1>2 DEF IInv, TypeOK, StoreTypes

-----------------------------------------------------------------------------
LEMMA TypeStep == IInv /\ [Next]_vars => TypeOK'
<1> SUFFICES ASSUME IInv, [Next]_vars PROVE TypeOK'
  OBVIOUS
<1> TypeOK
  BY DEF IInv
<1> USE ConfigAssumption, DomainAssumption DEF TypeOK, store, scheduler, worker, caller, lifecycle,
        history, vars
<1>1. ASSUME NEW t \in Targets, NEW s \in Settings, CreateTarget(t, s)
      PROVE TypeOK'
  <2>1. StoreTypes'
    BY <1>1 DEF CreateTarget, WithDefaults, TargetRecord, StoreTypes
  <2>2. QueueTypes' /\ SchedulerTypes' /\ WorkerTypes' /\ CallerTypes' /\ ServiceTypes'
    BY <1>1 DEF CreateTarget, QueueTypes, SchedulerTypes, WorkerTypes, CallerTypes, ServiceTypes
  <2>3. QED
    BY <2>1, <2>2
<1>2. ASSUME NEW t \in Targets, NEW s \in Settings, UpdateTarget(t, s)
      PROVE TypeOK'
  <2>1. StoreTypes'
    BY <1>2 DEF UpdateTarget, StoreTypes
  <2>2. QueueTypes' /\ SchedulerTypes' /\ WorkerTypes' /\ CallerTypes' /\ ServiceTypes'
    BY <1>2 DEF UpdateTarget, QueueTypes, SchedulerTypes, WorkerTypes, CallerTypes, ServiceTypes
  <2>3. QED
    BY <2>1, <2>2
<1>3. ASSUME NEW c \in Callers, NEW e \in EventTypes, NEW p \in BOOLEAN, TriggerEvent(c, e, p)
      PROVE TypeOK'
  <2>1. CallerTypes'
    BY <1>3 DEF TriggerEvent, Matching, CallerTypes
  <2>2. StoreTypes' /\ QueueTypes' /\ SchedulerTypes' /\ WorkerTypes' /\ ServiceTypes'
    BY <1>3 DEF TriggerEvent, StoreTypes, QueueTypes, SchedulerTypes, WorkerTypes, ServiceTypes
  <2>3. QED
    BY <2>1, <2>2
<1>4. ASSUME NEW c \in Callers, NEW t \in Targets, NEW d \in Deliveries, CreateDelivery(c, t, d)
      PROVE TypeOK'
  <2>1. StoreTypes'
    BY <1>4 DEF CreateDelivery, NewDelivery, DeliveryRecord, Live, StoreTypes, CallerTypes
  <2>2. CallerTypes'
    BY <1>4 DEF CreateDelivery, NewDelivery, DeliveryRecord, Live, CallerTypes
  <2>3. QueueTypes' /\ SchedulerTypes' /\ WorkerTypes' /\ ServiceTypes'
    BY <1>4 DEF CreateDelivery, QueueTypes, SchedulerTypes, WorkerTypes, ServiceTypes
  <2>4. QED
    BY <2>1, <2>2, <2>3
<1>5. ASSUME NEW c \in Callers, NEW old \in Deliveries, NEW d \in Deliveries, ReplayDelivery(c, old, d)
      PROVE TypeOK'
  <2>1. StoreTypes'
    BY <1>5 DEF ReplayDelivery, NewDelivery, DeliveryRecord, Live, StoreTypes
  <2>2. CallerTypes'
    BY <1>5 DEF ReplayDelivery, NewDelivery, DeliveryRecord, Live, CallerTypes
  <2>3. QueueTypes' /\ SchedulerTypes' /\ WorkerTypes' /\ ServiceTypes'
    BY <1>5 DEF ReplayDelivery, QueueTypes, SchedulerTypes, WorkerTypes, ServiceTypes
  <2>4. QED
    BY <2>1, <2>2, <2>3
<1>6. ASSUME NEW c \in Callers, EnqueueOK(c)
      PROVE TypeOK'
  <2>1. QueueTypes'
    BY <1>6, CallerTask, AppendQueue DEF EnqueueOK, QueueTypes, IInv, OneTask, OnePlace, InCall
  <2>2. CallerTypes'
    BY <1>6 DEF EnqueueOK, CallContinues, CallerTypes
  <2>3. ServiceTypes'
    BY <1>6 DEF EnqueueOK, MetricNames, ServiceTypes
  <2>4. StoreTypes' /\ SchedulerTypes' /\ WorkerTypes'
    BY <1>6 DEF EnqueueOK, StoreTypes, SchedulerTypes, WorkerTypes
  <2>5. QED
    BY <2>1, <2>2, <2>3, <2>4
<1>7. ASSUME NEW c \in Callers, EnqueueFails(c)
      PROVE TypeOK'
  <2>1. CallerTypes'
    BY <1>7 DEF EnqueueFails, CallContinues, CallerTypes
  <2>2. ServiceTypes'
    BY <1>7, CallerTask DEF EnqueueFails, MetricNames, ServiceTypes
  <2>3. StoreTypes' /\ QueueTypes' /\ SchedulerTypes' /\ WorkerTypes'
    BY <1>7 DEF EnqueueFails, StoreTypes, QueueTypes, SchedulerTypes, WorkerTypes
  <2>4. QED
    BY <2>1, <2>2, <2>3
<1>8. ASSUME NEW w \in Workers, TakeTask(w)
      PROVE TypeOK'
  <2>1. QueueTypes'
    BY <1>8, TailQueue DEF TakeTask, QueueTypes
  <2>2. WorkerTypes'
    BY <1>8, TailQueue DEF TakeTask, WorkerTypes
  <2>3. StoreTypes' /\ SchedulerTypes' /\ CallerTypes' /\ ServiceTypes'
    BY <1>8 DEF TakeTask, StoreTypes, SchedulerTypes, CallerTypes, ServiceTypes
  <2>4. QED
    BY <2>1, <2>2, <2>3
<1>9. ASSUME NEW w \in Workers, WorkerExit(w)
      PROVE TypeOK'
  <2>1. WorkerTypes'
    BY <1>9 DEF WorkerExit, WorkerTypes
  <2>2. StoreTypes' /\ QueueTypes' /\ SchedulerTypes' /\ CallerTypes' /\ ServiceTypes'
    BY <1>9 DEF WorkerExit, StoreTypes, QueueTypes, SchedulerTypes, CallerTypes, ServiceTypes
  <2>3. QED
    BY <2>1, <2>2
<1>10. ASSUME NEW w \in Workers, LoadDelivery(w)
      PROVE TypeOK'
  <2>1. WorkerTypes'
    BY <1>10, WorkerTask DEF LoadDelivery, DeliveryRecord, WorkerTypes
  <2>2. StoreTypes' /\ QueueTypes' /\ SchedulerTypes' /\ CallerTypes' /\ ServiceTypes'
    BY <1>10 DEF LoadDelivery, StoreTypes, QueueTypes, SchedulerTypes, CallerTypes, ServiceTypes
  <2>3. QED
    BY <2>1, <2>2
<1>11. ASSUME NEW w \in Workers, SkipTask(w)
      PROVE TypeOK'
  <2>1. WorkerTypes'
    BY <1>11 DEF SkipTask, Return, WorkerInv, WorkerTypes
  <2>2. ServiceTypes'
    BY <1>11, WorkerTask DEF SkipTask, ServiceTypes
  <2>3. StoreTypes' /\ QueueTypes' /\ SchedulerTypes' /\ CallerTypes'
    BY <1>11 DEF SkipTask, StoreTypes, QueueTypes, SchedulerTypes, CallerTypes
  <2>4. QED
    BY <2>1, <2>2, <2>3
<1>12. ASSUME NEW w \in Workers, LoadTarget(w)
      PROVE TypeOK'
  <2>1. WorkerTypes'
    BY <1>12, WorkerTask DEF LoadTarget, TargetOf, StoreTypes, DeliveryRecord, WorkerTypes
  <2>2. StoreTypes' /\ QueueTypes' /\ SchedulerTypes' /\ CallerTypes' /\ ServiceTypes'
    BY <1>12 DEF LoadTarget, StoreTypes, QueueTypes, SchedulerTypes, CallerTypes, ServiceTypes
  <2>3. QED
    BY <2>1, <2>2
<1>13. ASSUME NEW w \in Workers, BuryEmpty(w)
      PROVE TypeOK'
  <2>1. StoreTypes'
    BY <1>13, WorkerTask, UpdateOne DEF BuryEmpty, Terminal, StoreTypes, WorkerTypes
  <2>2. WorkerTypes'
    BY <1>13 DEF BuryEmpty, Return, UpdateDelivery, WorkerInv, DeliveryRecord, Terminal,
       MetricNames, WorkerTypes
  <2>3. ServiceTypes'
    BY <1>13 DEF BuryEmpty, Return, UpdateDelivery, WorkerInv, DeliveryRecord, Terminal,
       MetricNames, ServiceTypes
  <2>4. QueueTypes' /\ SchedulerTypes' /\ CallerTypes'
    BY <1>13 DEF BuryEmpty, QueueTypes, SchedulerTypes, CallerTypes
  <2>5. QED
    BY <2>1, <2>2, <2>3, <2>4
<1>14. ASSUME NEW w \in Workers, NEW r \in Responses, SendOnce(w, r)
      PROVE TypeOK'
  <2>1. WorkerTypes'
    BY <1>14 DEF SendOnce, WorkerInv, Verdict, Terminal, MetricNames, WorkerTypes
  <2>2. ServiceTypes'
    BY <1>14, WorkerTask DEF SendOnce, Verdict, MetricNames, ServiceTypes
  <2>3. StoreTypes' /\ QueueTypes' /\ SchedulerTypes' /\ CallerTypes'
    BY <1>14 DEF SendOnce, StoreTypes, QueueTypes, SchedulerTypes, CallerTypes
  <2>4. QED
    BY <2>1, <2>2, <2>3
<1>15. ASSUME NEW w \in Workers, StoreFinal(w)
      PROVE TypeOK'
  <2>1. StoreTypes'
    BY <1>15, WorkerTask, UpdateOne DEF StoreFinal, IInv, WorkerInv, Live, Terminal, StoreTypes,
       WorkerTypes
  <2>2. WorkerTypes'
    BY <1>15 DEF StoreFinal, Return, UpdateDelivery, WorkerInv, DeliveryRecord, Terminal,
       WorkerTypes
  <2>3. QueueTypes' /\ SchedulerTypes' /\ CallerTypes' /\ ServiceTypes'
    BY <1>15 DEF StoreFinal, QueueTypes, SchedulerTypes, CallerTypes, ServiceTypes
  <2>4. QED
    BY <2>1, <2>2, <2>3
<1>16. ASSUME NEW w \in Workers, StoreRetry(w)
      PROVE TypeOK'
  <2>1. StoreTypes'
    BY <1>16, WorkerTask, UpdateOne DEF StoreRetry, Live, StoreTypes, WorkerTypes
  <2>2. WorkerTypes'
    BY <1>16 DEF StoreRetry, UpdateDelivery, WorkerInv, DeliveryRecord, Live, WorkerTypes
  <2>3. QueueTypes' /\ SchedulerTypes' /\ CallerTypes' /\ ServiceTypes'
    BY <1>16 DEF StoreRetry, QueueTypes, SchedulerTypes, CallerTypes, ServiceTypes
  <2>4. QED
    BY <2>1, <2>2, <2>3
<1>17. ASSUME NEW w \in Workers, SchedulePush(w)
      PROVE TypeOK'
  <2>1. SchedulerTypes'
    BY <1>17, WorkerTask DEF SchedulePush, SchedulerTypes
  <2>2. WorkerTypes'
    BY <1>17 DEF SchedulePush, WorkerInv, WorkerTypes
  <2>3. StoreTypes' /\ QueueTypes' /\ CallerTypes' /\ ServiceTypes'
    BY <1>17 DEF SchedulePush, StoreTypes, QueueTypes, CallerTypes, ServiceTypes
  <2>4. QED
    BY <2>1, <2>2, <2>3
<1>18. ASSUME NEW w \in Workers, ScheduleWake(w)
      PROVE TypeOK'
  <2>1. SchedulerTypes'
    BY <1>18 DEF ScheduleWake, Return, SchedulerTypes
  <2>2. WorkerTypes'
    BY <1>18 DEF ScheduleWake, Return, WorkerTypes
  <2>3. StoreTypes' /\ QueueTypes' /\ CallerTypes' /\ ServiceTypes'
    BY <1>18 DEF ScheduleWake, StoreTypes, QueueTypes, CallerTypes, ServiceTypes
  <2>4. QED
    BY <2>1, <2>2, <2>3
<1>19. CASE NextWait
  <2>1. SchedulerTypes'
    BY <1>19 DEF NextWait, SchedulerTypes
  <2>2. StoreTypes' /\ QueueTypes' /\ WorkerTypes' /\ CallerTypes' /\ ServiceTypes'
    BY <1>19 DEF NextWait, StoreTypes, QueueTypes, WorkerTypes, CallerTypes, ServiceTypes
  <2>3. QED
    BY <2>1, <2>2
<1>20. CASE SelectWake
  <2>1. SchedulerTypes'
    BY <1>20 DEF SelectWake, SchedulerTypes
  <2>2. StoreTypes' /\ QueueTypes' /\ WorkerTypes' /\ CallerTypes' /\ ServiceTypes'
    BY <1>20 DEF SelectWake, StoreTypes, QueueTypes, WorkerTypes, CallerTypes, ServiceTypes
  <2>3. QED
    BY <2>1, <2>2
<1>21. CASE SelectTimer
  <2>1. SchedulerTypes'
    BY <1>21 DEF SelectTimer, SchedulerTypes
  <2>2. StoreTypes' /\ QueueTypes' /\ WorkerTypes' /\ CallerTypes' /\ ServiceTypes'
    BY <1>21 DEF SelectTimer, StoreTypes, QueueTypes, WorkerTypes, CallerTypes, ServiceTypes
  <2>3. QED
    BY <2>1, <2>2
<1>22. CASE SelectDone
  <2>1. SchedulerTypes'
    BY <1>22 DEF SelectDone, SchedulerTypes
  <2>2. StoreTypes' /\ QueueTypes' /\ WorkerTypes' /\ CallerTypes' /\ ServiceTypes'
    BY <1>22 DEF SelectDone, StoreTypes, QueueTypes, WorkerTypes, CallerTypes, ServiceTypes
  <2>3. QED
    BY <2>1, <2>2
<1>23. ASSUME NEW d \in Deliveries, FlushPop(d)
      PROVE TypeOK'
  <2>1. SchedulerTypes'
    BY <1>23 DEF FlushPop, SchedulerTypes
  <2>2. StoreTypes' /\ QueueTypes' /\ WorkerTypes' /\ CallerTypes' /\ ServiceTypes'
    BY <1>23 DEF FlushPop, StoreTypes, QueueTypes, WorkerTypes, CallerTypes, ServiceTypes
  <2>3. QED
    BY <2>1, <2>2
<1>24. CASE FlushDone
  <2>1. SchedulerTypes'
    BY <1>24 DEF FlushDone, SchedulerTypes
  <2>2. StoreTypes' /\ QueueTypes' /\ WorkerTypes' /\ CallerTypes' /\ ServiceTypes'
    BY <1>24 DEF FlushDone, StoreTypes, QueueTypes, WorkerTypes, CallerTypes, ServiceTypes
  <2>3. QED
    BY <2>1, <2>2
<1>25. CASE RequeueOK
  <2>1. QueueTypes'
    BY <1>25, HandTask, AppendQueue DEF RequeueOK, QueueTypes, IInv, OneTask, OnePlace
  <2>2. SchedulerTypes'
    BY <1>25 DEF RequeueOK, HasRoom, SchedulerInv, SchedulerTypes
  <2>3. StoreTypes' /\ WorkerTypes' /\ CallerTypes' /\ ServiceTypes'
    BY <1>25 DEF RequeueOK, StoreTypes, WorkerTypes, CallerTypes, ServiceTypes
  <2>4. QED
    BY <2>1, <2>2, <2>3
<1>26. CASE RequeueFails
  <2>1. SchedulerTypes'
    BY <1>26 DEF RequeueFails, SchedulerInv, SchedulerTypes
  <2>2. ServiceTypes'
    BY <1>26, HandTask DEF RequeueFails, ServiceTypes
  <2>3. StoreTypes' /\ QueueTypes' /\ WorkerTypes' /\ CallerTypes'
    BY <1>26 DEF RequeueFails, StoreTypes, QueueTypes, WorkerTypes, CallerTypes
  <2>4. QED
    BY <2>1, <2>2, <2>3
<1>27. ASSUME NEW d \in Deliveries, Elapse(d)
      PROVE TypeOK'
  <2>1. SchedulerTypes'
    BY <1>27 DEF Elapse, SchedulerTypes
  <2>2. StoreTypes' /\ QueueTypes' /\ WorkerTypes' /\ CallerTypes' /\ ServiceTypes'
    BY <1>27 DEF Elapse, StoreTypes, QueueTypes, WorkerTypes, CallerTypes, ServiceTypes
  <2>3. QED
    BY <2>1, <2>2
<1>28. CASE Start
  <2>1. SchedulerTypes'
    BY <1>28 DEF Start, SchedulerTypes
  <2>2. WorkerTypes'
    BY <1>28 DEF Start, WorkerTypes
  <2>3. ServiceTypes'
    BY <1>28 DEF Start, ServiceTypes
  <2>4. StoreTypes' /\ QueueTypes' /\ CallerTypes'
    BY <1>28 DEF Start, StoreTypes, QueueTypes, CallerTypes
  <2>5. QED
    BY <2>1, <2>2, <2>3, <2>4
<1>29. CASE Stop
  <2>1. ServiceTypes'
    BY <1>29 DEF Stop, ServiceTypes
  <2>2. StoreTypes' /\ QueueTypes' /\ SchedulerTypes' /\ WorkerTypes' /\ CallerTypes'
    BY <1>29 DEF Stop, StoreTypes, QueueTypes, SchedulerTypes, WorkerTypes, CallerTypes
  <2>3. QED
    BY <2>1, <2>2
<1>30. CASE UNCHANGED vars
  BY <1>30 DEF StoreTypes, QueueTypes, SchedulerTypes, WorkerTypes, CallerTypes, ServiceTypes
<1>31. QED
  BY <1>1, <1>2, <1>3, <1>4, <1>5, <1>6, <1>7, <1>8, <1>9, <1>10, <1>11, <1>12, <1>13, <1>14,
     <1>15, <1>16, <1>17, <1>18, <1>19, <1>20, <1>21, <1>22, <1>23, <1>24, <1>25, <1>26, <1>27,
     <1>28, <1>29, <1>30
  DEF Next, CallerStep, WorkerStep, HandleTask, SchedulerStep

LEMMA ControlStep == IInv /\ [Next]_vars => CallerInv' /\ SchedulerInv' /\ LifecycleInv'
<1> SUFFICES ASSUME IInv, [Next]_vars PROVE CallerInv' /\ SchedulerInv' /\ LifecycleInv'
  OBVIOUS
<1> USE ConfigAssumption, DomainAssumption DEF IInv, TypeOK, store, scheduler, worker, caller, lifecycle,
        history, vars
<1>1. ASSUME NEW t \in Targets, NEW s \in Settings, CreateTarget(t, s)
      PROVE CallerInv' /\ SchedulerInv' /\ LifecycleInv'
  BY <1>1 DEF CreateTarget, CallerInv, SchedulerInv, LifecycleInv
<1>2. ASSUME NEW t \in Targets, NEW s \in Settings, UpdateTarget(t, s)
      PROVE CallerInv' /\ SchedulerInv' /\ LifecycleInv'
  BY <1>2 DEF UpdateTarget, CallerInv, SchedulerInv, LifecycleInv
<1>3. ASSUME NEW c \in Callers, NEW e \in EventTypes, NEW p \in BOOLEAN, TriggerEvent(c, e, p)
      PROVE CallerInv' /\ SchedulerInv' /\ LifecycleInv'
  BY <1>3 DEF TriggerEvent, CallerInv, SchedulerInv, LifecycleInv, CallerTypes
<1>4. ASSUME NEW c \in Callers, NEW t \in Targets, NEW d \in Deliveries, CreateDelivery(c, t, d)
      PROVE CallerInv' /\ SchedulerInv' /\ LifecycleInv'
  BY <1>4 DEF CreateDelivery, CallerInv, SchedulerInv, LifecycleInv, CallerTypes
<1>5. ASSUME NEW c \in Callers, NEW old \in Deliveries, NEW d \in Deliveries, ReplayDelivery(c, old, d)
      PROVE CallerInv' /\ SchedulerInv' /\ LifecycleInv'
  BY <1>5 DEF ReplayDelivery, CallerInv, SchedulerInv, LifecycleInv, CallerTypes
<1>6. ASSUME NEW c \in Callers, EnqueueOK(c)
      PROVE CallerInv' /\ SchedulerInv' /\ LifecycleInv'
  BY <1>6 DEF EnqueueOK, CallerInv, SchedulerInv, LifecycleInv, CallContinues, CallerTypes
<1>7. ASSUME NEW c \in Callers, EnqueueFails(c)
      PROVE CallerInv' /\ SchedulerInv' /\ LifecycleInv'
  BY <1>7 DEF EnqueueFails, CallerInv, SchedulerInv, LifecycleInv, CallContinues, CallerTypes
<1>8. ASSUME NEW w \in Workers, TakeTask(w)
      PROVE CallerInv' /\ SchedulerInv' /\ LifecycleInv'
  BY <1>8 DEF TakeTask, WorkerTypes, CallerInv, SchedulerInv, LifecycleInv
<1>9. ASSUME NEW w \in Workers, WorkerExit(w)
      PROVE CallerInv' /\ SchedulerInv' /\ LifecycleInv'
  BY <1>9 DEF WorkerExit, WorkerTypes, CallerInv, SchedulerInv, LifecycleInv
<1>10. ASSUME NEW w \in Workers, LoadDelivery(w)
      PROVE CallerInv' /\ SchedulerInv' /\ LifecycleInv'
  BY <1>10 DEF LoadDelivery, WorkerTypes, CallerInv, SchedulerInv, LifecycleInv
<1>11. ASSUME NEW w \in Workers, SkipTask(w)
      PROVE CallerInv' /\ SchedulerInv' /\ LifecycleInv'
  BY <1>11 DEF SkipTask, Return, WorkerTypes, CallerInv, SchedulerInv, LifecycleInv
<1>12. ASSUME NEW w \in Workers, LoadTarget(w)
      PROVE CallerInv' /\ SchedulerInv' /\ LifecycleInv'
  BY <1>12 DEF LoadTarget, WorkerTypes, CallerInv, SchedulerInv, LifecycleInv
<1>13. ASSUME NEW w \in Workers, BuryEmpty(w)
      PROVE CallerInv' /\ SchedulerInv' /\ LifecycleInv'
  BY <1>13 DEF BuryEmpty, Return, WorkerTypes, CallerInv, SchedulerInv, LifecycleInv
<1>14. ASSUME NEW w \in Workers, NEW r \in Responses, SendOnce(w, r)
      PROVE CallerInv' /\ SchedulerInv' /\ LifecycleInv'
  BY <1>14 DEF SendOnce, WorkerTypes, CallerInv, SchedulerInv, LifecycleInv
<1>15. ASSUME NEW w \in Workers, StoreFinal(w)
      PROVE CallerInv' /\ SchedulerInv' /\ LifecycleInv'
  BY <1>15 DEF StoreFinal, Return, WorkerTypes, CallerInv, SchedulerInv, LifecycleInv
<1>16. ASSUME NEW w \in Workers, StoreRetry(w)
      PROVE CallerInv' /\ SchedulerInv' /\ LifecycleInv'
  BY <1>16 DEF StoreRetry, WorkerTypes, CallerInv, SchedulerInv, LifecycleInv
<1>17. ASSUME NEW w \in Workers, SchedulePush(w)
      PROVE CallerInv' /\ SchedulerInv' /\ LifecycleInv'
  BY <1>17 DEF SchedulePush, WorkerTypes, CallerInv, SchedulerInv, LifecycleInv
<1>18. ASSUME NEW w \in Workers, ScheduleWake(w)
      PROVE CallerInv' /\ SchedulerInv' /\ LifecycleInv'
  BY <1>18 DEF ScheduleWake, Return, WorkerTypes, CallerInv, SchedulerInv, LifecycleInv
<1>19. CASE NextWait
  BY <1>19 DEF NextWait, CallerInv, SchedulerInv, LifecycleInv
<1>20. CASE SelectWake
  BY <1>20 DEF SelectWake, CallerInv, SchedulerInv, LifecycleInv
<1>21. CASE SelectTimer
  BY <1>21 DEF SelectTimer, CallerInv, SchedulerInv, LifecycleInv
<1>22. CASE SelectDone
  BY <1>22 DEF SelectDone, CallerInv, SchedulerInv, LifecycleInv
<1>23. ASSUME NEW d \in Deliveries, FlushPop(d)
      PROVE CallerInv' /\ SchedulerInv' /\ LifecycleInv'
  BY <1>23 DEF FlushPop, CallerInv, SchedulerInv, LifecycleInv, SchedulerTypes
<1>24. CASE FlushDone
  BY <1>24 DEF FlushDone, CallerInv, SchedulerInv, LifecycleInv
<1>25. CASE RequeueOK
  BY <1>25 DEF RequeueOK, CallerInv, SchedulerInv, LifecycleInv
<1>26. CASE RequeueFails
  BY <1>26 DEF RequeueFails, CallerInv, SchedulerInv, LifecycleInv
<1>27. ASSUME NEW d \in Deliveries, Elapse(d)
      PROVE CallerInv' /\ SchedulerInv' /\ LifecycleInv'
  BY <1>27 DEF Elapse, CallerInv, SchedulerInv, LifecycleInv
<1>28. CASE Start
  BY <1>28 DEF Start, CallerInv, SchedulerInv, LifecycleInv, WorkerTypes
<1>29. CASE Stop
  BY <1>29 DEF Stop, CallerInv, SchedulerInv, LifecycleInv
<1>30. CASE UNCHANGED vars
  BY <1>30 DEF CallerInv, SchedulerInv, LifecycleInv
<1>31. QED
  BY <1>1, <1>2, <1>3, <1>4, <1>5, <1>6, <1>7, <1>8, <1>9, <1>10, <1>11, <1>12, <1>13, <1>14,
     <1>15, <1>16, <1>17, <1>18, <1>19, <1>20, <1>21, <1>22, <1>23, <1>24, <1>25, <1>26, <1>27,
     <1>28, <1>29, <1>30
  DEF Next, CallerStep, WorkerStep, HandleTask, SchedulerStep

LEMMA RetryBound ==
  ASSUME NEW s \in TargetRecord, NEW r, NEW n \in Nat,
         Verdict(r, n, MaxRetries(s), RetriesOn429(s)) = "retrying"
  PROVE  n < RetryCap
<1>1. MaxRetries(s) \in Int /\ MaxRetries(s) <= RetryCap
  BY ConfigAssumption DEF MaxRetries, TargetRecord
<1>2. n < MaxRetries(s)
  BY DEF Verdict, ShouldRetry
<1>3. QED
  BY <1>1, <1>2, ConfigAssumption

(* A delivery that is not in the store is not the task of a worker, and    *)
(* two workers that hold a task hold different ones.                       *)
LEMMA FreshTask ==
  ASSUME IInv, NEW d \in Deliveries, deliveries[d] = NoDelivery
  PROVE  ~Held(d)
  BY HeldRecord DEF NoDelivery, Live

LEMMA WorkersDiffer ==
  ASSUME IInv, NEW v \in Workers, NEW w \in Workers, v # w, wtask[v] # NoTask
  PROVE  wtask[v] # wtask[w]
  BY DEF IInv, OneTask, OncePerPlace

LEMMA WorkerInvStep == IInv /\ [Next]_vars => WorkerInv'
<1> SUFFICES ASSUME IInv, [Next]_vars PROVE WorkerInv'
  OBVIOUS
<1> USE ConfigAssumption, DomainAssumption DEF IInv, TypeOK, store, scheduler, worker, caller, lifecycle,
        history, vars
<1>1. ASSUME NEW t \in Targets, NEW s \in Settings, CreateTarget(t, s)
      PROVE WorkerInv'
  BY <1>1 DEF CreateTarget, WorkerInv, WorkerTypes
<1>2. ASSUME NEW t \in Targets, NEW s \in Settings, UpdateTarget(t, s)
      PROVE WorkerInv'
  BY <1>2 DEF UpdateTarget, WorkerInv, WorkerTypes
<1>3. ASSUME NEW c \in Callers, NEW e \in EventTypes, NEW p \in BOOLEAN, TriggerEvent(c, e, p)
      PROVE WorkerInv'
  BY <1>3 DEF TriggerEvent, WorkerInv, WorkerTypes
<1>4. ASSUME NEW c \in Callers, NEW t \in Targets, NEW d \in Deliveries, CreateDelivery(c, t, d)
      PROVE WorkerInv'
  BY <1>4, FreshTask DEF CreateDelivery, WorkerInv, WorkerTypes, Held, InWork, StoreTypes
<1>5. ASSUME NEW c \in Callers, NEW old \in Deliveries, NEW d \in Deliveries, ReplayDelivery(c, old, d)
      PROVE WorkerInv'
  BY <1>5, FreshTask DEF ReplayDelivery, WorkerInv, WorkerTypes, Held, InWork, StoreTypes
<1>6. ASSUME NEW c \in Callers, EnqueueOK(c)
      PROVE WorkerInv'
  BY <1>6 DEF EnqueueOK, WorkerInv, WorkerTypes
<1>7. ASSUME NEW c \in Callers, EnqueueFails(c)
      PROVE WorkerInv'
  BY <1>7 DEF EnqueueFails, WorkerInv, WorkerTypes
<1>8. ASSUME NEW w \in Workers, TakeTask(w)
      PROVE WorkerInv'
  BY <1>8, TailQueue DEF TakeTask, WorkerInv, WorkerTypes
<1>9. ASSUME NEW w \in Workers, WorkerExit(w)
      PROVE WorkerInv'
  BY <1>9 DEF WorkerExit, WorkerInv, WorkerTypes
<1>10. ASSUME NEW w \in Workers, LoadDelivery(w)
      PROVE WorkerInv'
  BY <1>10 DEF LoadDelivery, WorkerInv, WorkerTypes
<1>11. ASSUME NEW w \in Workers, SkipTask(w)
      PROVE WorkerInv'
  BY <1>11 DEF SkipTask, WorkerInv, WorkerTypes, Return
<1>12. ASSUME NEW w \in Workers, LoadTarget(w)
      PROVE WorkerInv'
  <2>1. TargetOf(wtask[w]) \in TargetRecord
    BY <1>12, WorkerTask DEF LoadTarget, Deliverable, TargetOf, StoreTypes, DeliveryRecord
  <2>2. QED
    BY <1>12, <2>1 DEF LoadTarget, WorkerInv, WorkerTypes
<1>13. ASSUME NEW w \in Workers, BuryEmpty(w)
      PROVE WorkerInv'
  <2>1. \A e \in Deliveries \ {wtask[w]} : deliveries'[e] = deliveries[e]
    BY <1>13, WorkerTask, UpdateOne DEF BuryEmpty, WorkerTypes, Terminal
  <2>2. QED
    BY <1>13, <2>1, WorkersDiffer DEF BuryEmpty, WorkerInv, WorkerTypes, Return
<1>14. ASSUME NEW w \in Workers, NEW r \in Responses, SendOnce(w, r)
      PROVE WorkerInv'
  <2> DEFINE verdict == Verdict(r, wattempt[w] + 1, MaxRetries(wtarget[w]), RetriesOn429(wtarget[w]))
  <2>1. verdict = "retrying" => wattempt[w] + 1 < RetryCap
    BY <1>14, RetryBound DEF SendOnce, WorkerInv, WorkerTypes
  <2>2. verdict # "none"
    BY DEF Verdict
  <2> HIDE DEF verdict
  <2>3. wverdict' = [wverdict EXCEPT ![w] = verdict]
    BY <1>14 DEF SendOnce, verdict
  <2>4. QED
    BY <1>14, <2>1, <2>2, <2>3 DEF SendOnce, WorkerInv, WorkerTypes
<1>15. ASSUME NEW w \in Workers, StoreFinal(w)
      PROVE WorkerInv'
  <2>1. \A e \in Deliveries \ {wtask[w]} : deliveries'[e] = deliveries[e]
    BY <1>15, WorkerTask, UpdateOne DEF StoreFinal, WorkerInv, WorkerTypes, Terminal, Live
  <2>2. QED
    BY <1>15, <2>1, WorkersDiffer DEF StoreFinal, WorkerInv, WorkerTypes, Return
<1>16. ASSUME NEW w \in Workers, StoreRetry(w)
      PROVE WorkerInv'
  <2>1. \A e \in Deliveries \ {wtask[w]} : deliveries'[e] = deliveries[e]
    BY <1>16, WorkerTask, UpdateOne DEF StoreRetry, WorkerTypes, Live, Terminal
  <2>2. QED
    BY <1>16, <2>1, WorkersDiffer DEF StoreRetry, WorkerInv, WorkerTypes
<1>17. ASSUME NEW w \in Workers, SchedulePush(w)
      PROVE WorkerInv'
  BY <1>17 DEF SchedulePush, WorkerInv, WorkerTypes
<1>18. ASSUME NEW w \in Workers, ScheduleWake(w)
      PROVE WorkerInv'
  BY <1>18 DEF ScheduleWake, WorkerInv, WorkerTypes, Return
<1>19. CASE NextWait
  BY <1>19 DEF NextWait, WorkerInv, WorkerTypes
<1>20. CASE SelectWake
  BY <1>20 DEF SelectWake, WorkerInv, WorkerTypes
<1>21. CASE SelectTimer
  BY <1>21 DEF SelectTimer, WorkerInv, WorkerTypes
<1>22. CASE SelectDone
  BY <1>22 DEF SelectDone, WorkerInv, WorkerTypes
<1>23. ASSUME NEW d \in Deliveries, FlushPop(d)
      PROVE WorkerInv'
  BY <1>23 DEF FlushPop, WorkerInv, WorkerTypes
<1>24. CASE FlushDone
  BY <1>24 DEF FlushDone, WorkerInv, WorkerTypes
<1>25. CASE RequeueOK
  BY <1>25 DEF RequeueOK, WorkerInv, WorkerTypes
<1>26. CASE RequeueFails
  BY <1>26 DEF RequeueFails, WorkerInv, WorkerTypes
<1>27. ASSUME NEW d \in Deliveries, Elapse(d)
      PROVE WorkerInv'
  BY <1>27 DEF Elapse, WorkerInv, WorkerTypes
<1>28. CASE Start
  BY <1>28 DEF Start, WorkerInv, WorkerTypes, LifecycleInv
<1>29. CASE Stop
  BY <1>29 DEF Stop, WorkerInv, WorkerTypes
<1>30. CASE UNCHANGED vars
  BY <1>30 DEF WorkerInv, WorkerTypes
<1>31. QED
  BY <1>1, <1>2, <1>3, <1>4, <1>5, <1>6, <1>7, <1>8, <1>9, <1>10, <1>11, <1>12, <1>13, <1>14,
     <1>15, <1>16, <1>17, <1>18, <1>19, <1>20, <1>21, <1>22, <1>23, <1>24, <1>25, <1>26, <1>27,
     <1>28, <1>29, <1>30
  DEF Next, CallerStep, WorkerStep, HandleTask, SchedulerStep

(* A step that moves no task keeps both, if no task's delivery ends.       *)
LEMMA SameTokens ==
  ASSUME IInv, UNCHANGED <<queue, notDue, due, hand, wtask, ctask>>,
         \A d \in Deliveries : Held(d) => deliveries'[d].status \in Live
  PROVE  HeldIsLive' /\ OneTask'
  BY DEF IInv, HeldIsLive, OneTask, OncePerPlace, OnePlace, Held, InCall, InQueue, InWork, OnHeap

LEMMA TokenStep == IInv /\ [Next]_vars => HeldIsLive' /\ OneTask'
<1> SUFFICES ASSUME IInv, [Next]_vars PROVE HeldIsLive' /\ OneTask'
  OBVIOUS
<1> USE ConfigAssumption, DomainAssumption DEF store, scheduler, worker, caller, lifecycle, history, vars
<1>live. \A d \in Deliveries : Held(d) => deliveries[d].status \in Live
  BY HeldRecord
<1>once. OncePerPlace /\ OnePlace /\ TypeOK
  BY DEF IInv, OneTask
<1>1. ASSUME NEW t \in Targets, NEW s \in Settings, CreateTarget(t, s)
      PROVE HeldIsLive' /\ OneTask'
  BY <1>1, <1>live, SameTokens DEF CreateTarget
<1>2. ASSUME NEW t \in Targets, NEW s \in Settings, UpdateTarget(t, s)
      PROVE HeldIsLive' /\ OneTask'
  BY <1>2, <1>live, SameTokens DEF UpdateTarget
<1>3. ASSUME NEW c \in Callers, NEW e \in EventTypes, NEW p \in BOOLEAN, TriggerEvent(c, e, p)
      PROVE HeldIsLive' /\ OneTask'
  BY <1>3, <1>live, SameTokens DEF TriggerEvent
<1>4. ASSUME NEW c \in Callers, NEW t \in Targets, NEW d \in Deliveries, CreateDelivery(c, t, d)
      PROVE HeldIsLive' /\ OneTask'
  <2>s. ~InCall(d) /\ ~InQueue(d) /\ ~InWork(d) /\ ~OnHeap(d) /\ hand # d
    BY <1>4, FreshTask DEF CreateDelivery, Held
  <2>1. \A e \in Deliveries :
        /\ InCall(e)' <=> InCall(e) \/ e = d
        /\ InQueue(e)' <=> InQueue(e)
        /\ InWork(e)' <=> InWork(e)
        /\ OnHeap(e)' <=> OnHeap(e)
        /\ hand' = e <=> hand = e
    BY <1>4, <1>once, FreshTask DEF CreateDelivery, CallerTypes, CallerInv, StoreTypes, InCall,
       InQueue, InWork, OnHeap, OncePerPlace, OnePlace, TypeOK, IInv
  <2>2. OncePerPlace'
    BY <1>4, <1>once, <2>s DEF CreateDelivery, CallerTypes, OncePerPlace, InCall, TypeOK
  <2>3. OnePlace'
    BY <1>once, <2>s, <2>1 DEF OnePlace
  <2>4. HeldIsLive'
    BY <1>live, <1>once, <1>4, <2>1 DEF HeldIsLive, Held, CreateDelivery, NewDelivery, Live,
       TypeOK, StoreTypes
  <2>5. QED
    BY <2>2, <2>3, <2>4 DEF OneTask
<1>5. ASSUME NEW c \in Callers, NEW old \in Deliveries, NEW d \in Deliveries, ReplayDelivery(c, old, d)
      PROVE HeldIsLive' /\ OneTask'
  <2>s. ~InCall(d) /\ ~InQueue(d) /\ ~InWork(d) /\ ~OnHeap(d) /\ hand # d
    BY <1>5, FreshTask DEF ReplayDelivery, Held
  <2>1. \A e \in Deliveries :
        /\ InCall(e)' <=> InCall(e) \/ e = d
        /\ InQueue(e)' <=> InQueue(e)
        /\ InWork(e)' <=> InWork(e)
        /\ OnHeap(e)' <=> OnHeap(e)
        /\ hand' = e <=> hand = e
    BY <1>5, <1>once, FreshTask DEF ReplayDelivery, CallerTypes, CallerInv, StoreTypes, InCall,
       InQueue, InWork, OnHeap, OncePerPlace, OnePlace, TypeOK, IInv
  <2>2. OncePerPlace'
    BY <1>5, <1>once, <2>s DEF ReplayDelivery, CallerTypes, OncePerPlace, InCall, TypeOK
  <2>3. OnePlace'
    BY <1>once, <2>s, <2>1 DEF OnePlace
  <2>4. HeldIsLive'
    BY <1>live, <1>once, <1>5, <2>1 DEF HeldIsLive, Held, ReplayDelivery, NewDelivery, Live,
       TypeOK, StoreTypes
  <2>5. QED
    BY <2>2, <2>3, <2>4 DEF OneTask
<1>6. ASSUME NEW c \in Callers, EnqueueOK(c)
      PROVE HeldIsLive' /\ OneTask'
  <2>x. ctask[c] \in Deliveries
    BY <1>6, CallerTask DEF EnqueueOK
  <2>s. InCall(ctask[c])
    BY <2>x DEF InCall
  <2>1. \A e \in Deliveries :
        /\ InCall(e)' <=> InCall(e) /\ e # ctask[c]
        /\ InQueue(e)' <=> InQueue(e) \/ e = ctask[c]
        /\ InWork(e)' <=> InWork(e)
        /\ OnHeap(e)' <=> OnHeap(e)
        /\ hand' = e <=> hand = e
    BY <1>6, <1>once, CallerTask, AppendQueue, <2>x DEF EnqueueOK, CallContinues, CallerTypes,
       InCall, InQueue, InWork, OnHeap, OncePerPlace, OnePlace, TypeOK, IInv
  <2>2. OncePerPlace'
    BY <1>6, <1>once, CallerTask, AppendQueue, <2>x DEF EnqueueOK, CallContinues, CallerTypes,
       OncePerPlace, OnePlace, InCall, InQueue, InWork, OnHeap, TypeOK, IInv
  <2>3. OnePlace'
    BY <1>once, <2>s, <2>1 DEF OnePlace
  <2>4. HeldIsLive'
    BY <1>live, <1>6, <2>s, <2>1 DEF HeldIsLive, Held, EnqueueOK
  <2>5. QED
    BY <2>2, <2>3, <2>4 DEF OneTask
<1>7. ASSUME NEW c \in Callers, EnqueueFails(c)
      PROVE HeldIsLive' /\ OneTask'
  <2>x. ctask[c] \in Deliveries
    BY <1>7, CallerTask DEF EnqueueFails
  <2>1. \A e \in Deliveries :
        /\ InCall(e)' <=> InCall(e) /\ e # ctask[c]
        /\ InQueue(e)' <=> InQueue(e)
        /\ InWork(e)' <=> InWork(e)
        /\ OnHeap(e)' <=> OnHeap(e)
        /\ hand' = e <=> hand = e
    BY <1>7, <1>once, CallerTask, <2>x DEF EnqueueFails, CallContinues, CallerTypes, InCall,
       InQueue, InWork, OnHeap, OncePerPlace, OnePlace, TypeOK, IInv
  <2>2. OncePerPlace'
    BY <1>7, <1>once, CallerTask, <2>x DEF EnqueueFails, CallContinues, CallerTypes, OncePerPlace,
       OnePlace, InCall, InQueue, InWork, OnHeap, TypeOK, IInv
  <2>3. OnePlace'
    BY <1>once, <2>1 DEF OnePlace
  <2>4. HeldIsLive'
    BY <1>live, <1>7, <2>1 DEF HeldIsLive, Held, EnqueueFails
  <2>5. QED
    BY <2>2, <2>3, <2>4 DEF OneTask
<1>8. ASSUME NEW w \in Workers, TakeTask(w)
      PROVE HeldIsLive' /\ OneTask'
  <2>x. Head(queue) \in Deliveries
    BY <1>8, TailQueue DEF TakeTask
  <2>s. InQueue(Head(queue))
    BY <1>8, TailQueue DEF TakeTask
  <2>1. \A e \in Deliveries :
        /\ InCall(e)' <=> InCall(e)
        /\ InQueue(e)' <=> InQueue(e) /\ e # Head(queue)
        /\ InWork(e)' <=> InWork(e) \/ e = Head(queue)
        /\ OnHeap(e)' <=> OnHeap(e)
        /\ hand' = e <=> hand = e
    BY <1>8, <1>once, TailQueue, <2>x DEF TakeTask, WorkerTypes, WorkerInv, InCall, InQueue,
       InWork, OnHeap, OncePerPlace, OnePlace, TypeOK, IInv
  <2>2. OncePerPlace'
    BY <1>8, <1>once, TailQueue, <2>x DEF TakeTask, WorkerTypes, WorkerInv, OncePerPlace,
       OnePlace, InCall, InQueue, InWork, OnHeap, TypeOK, IInv
  <2>3. OnePlace'
    BY <1>once, <2>s, <2>1 DEF OnePlace
  <2>4. HeldIsLive'
    BY <1>live, <1>8, <2>s, <2>1 DEF HeldIsLive, Held, TakeTask
  <2>5. QED
    BY <2>2, <2>3, <2>4 DEF OneTask
<1>9. ASSUME NEW w \in Workers, WorkerExit(w)
      PROVE HeldIsLive' /\ OneTask'
  BY <1>9, <1>live, SameTokens DEF WorkerExit
<1>10. ASSUME NEW w \in Workers, LoadDelivery(w)
      PROVE HeldIsLive' /\ OneTask'
  BY <1>10, <1>live, SameTokens DEF LoadDelivery
<1>11. ASSUME NEW w \in Workers, SkipTask(w)
      PROVE HeldIsLive' /\ OneTask'
  <2>x. wtask[w] \in Deliveries
    BY <1>11, WorkerTask DEF SkipTask
  <2>1. \A e \in Deliveries :
        /\ InCall(e)' <=> InCall(e)
        /\ InQueue(e)' <=> InQueue(e)
        /\ InWork(e)' <=> InWork(e) /\ e # wtask[w]
        /\ OnHeap(e)' <=> OnHeap(e)
        /\ hand' = e <=> hand = e
    BY <1>11, <1>once, WorkerTask, <2>x DEF SkipTask, Return, WorkerTypes, InCall, InQueue,
       InWork, OnHeap, OncePerPlace, OnePlace, TypeOK, IInv
  <2>2. OncePerPlace'
    BY <1>11, <1>once, WorkerTask, <2>x DEF SkipTask, Return, WorkerTypes, OncePerPlace, OnePlace,
       InCall, InQueue, InWork, OnHeap, TypeOK, IInv
  <2>3. OnePlace'
    BY <1>once, <2>1 DEF OnePlace
  <2>4. HeldIsLive'
    BY <1>live, <1>11, <2>1 DEF HeldIsLive, Held, SkipTask
  <2>5. QED
    BY <2>2, <2>3, <2>4 DEF OneTask
<1>12. ASSUME NEW w \in Workers, LoadTarget(w)
      PROVE HeldIsLive' /\ OneTask'
  BY <1>12, <1>live, SameTokens DEF LoadTarget
<1>13. ASSUME NEW w \in Workers, BuryEmpty(w)
      PROVE HeldIsLive' /\ OneTask'
  <2>x. wtask[w] \in Deliveries
    BY <1>13, WorkerTask DEF BuryEmpty
  <2>1. \A e \in Deliveries :
        /\ InCall(e)' <=> InCall(e)
        /\ InQueue(e)' <=> InQueue(e)
        /\ InWork(e)' <=> InWork(e) /\ e # wtask[w]
        /\ OnHeap(e)' <=> OnHeap(e)
        /\ hand' = e <=> hand = e
    BY <1>13, <1>once, WorkerTask, <2>x DEF BuryEmpty, Return, WorkerTypes, InCall, InQueue,
       InWork, OnHeap, OncePerPlace, OnePlace, TypeOK, IInv
  <2>2. OncePerPlace'
    BY <1>13, <1>once, WorkerTask, <2>x DEF BuryEmpty, Return, WorkerTypes, OncePerPlace,
       OnePlace, InCall, InQueue, InWork, OnHeap, TypeOK, IInv
  <2>3. OnePlace'
    BY <1>once, <2>1 DEF OnePlace
  <2>s. \A e \in Deliveries \ {wtask[w]} : deliveries'[e] = deliveries[e]
    BY <1>13, <1>once, WorkerTask, UpdateOne
    DEF BuryEmpty, TypeOK, WorkerTypes, Live, Terminal, IInv, WorkerInv
  <2>t. \A e \in Deliveries : Held(e)' => Held(e) /\ e # wtask[w]
    BY <1>once, <2>x, <2>1 DEF OnePlace, Held, InWork
  <2>4. HeldIsLive'
    BY <1>live, <2>1, <2>s, <2>t DEF HeldIsLive, Held
  <2>5. QED
    BY <2>2, <2>3, <2>4 DEF OneTask
<1>14. ASSUME NEW w \in Workers, NEW r \in Responses, SendOnce(w, r)
      PROVE HeldIsLive' /\ OneTask'
  BY <1>14, <1>live, SameTokens DEF SendOnce
<1>15. ASSUME NEW w \in Workers, StoreFinal(w)
      PROVE HeldIsLive' /\ OneTask'
  <2>x. wtask[w] \in Deliveries
    BY <1>15, WorkerTask DEF StoreFinal
  <2>1. \A e \in Deliveries :
        /\ InCall(e)' <=> InCall(e)
        /\ InQueue(e)' <=> InQueue(e)
        /\ InWork(e)' <=> InWork(e) /\ e # wtask[w]
        /\ OnHeap(e)' <=> OnHeap(e)
        /\ hand' = e <=> hand = e
    BY <1>15, <1>once, WorkerTask, <2>x DEF StoreFinal, Return, WorkerTypes, InCall, InQueue,
       InWork, OnHeap, OncePerPlace, OnePlace, TypeOK, IInv
  <2>2. OncePerPlace'
    BY <1>15, <1>once, WorkerTask, <2>x DEF StoreFinal, Return, WorkerTypes, OncePerPlace,
       OnePlace, InCall, InQueue, InWork, OnHeap, TypeOK, IInv
  <2>3. OnePlace'
    BY <1>once, <2>1 DEF OnePlace
  <2>s. \A e \in Deliveries \ {wtask[w]} : deliveries'[e] = deliveries[e]
    BY <1>15, <1>once, WorkerTask, UpdateOne
    DEF StoreFinal, TypeOK, WorkerTypes, Live, Terminal, IInv, WorkerInv
  <2>t. \A e \in Deliveries : Held(e)' => Held(e) /\ e # wtask[w]
    BY <1>once, <2>x, <2>1 DEF OnePlace, Held, InWork
  <2>4. HeldIsLive'
    BY <1>live, <2>1, <2>s, <2>t DEF HeldIsLive, Held
  <2>5. QED
    BY <2>2, <2>3, <2>4 DEF OneTask
<1>16. ASSUME NEW w \in Workers, StoreRetry(w)
      PROVE HeldIsLive' /\ OneTask'
  <2>1. \A d \in Deliveries : Held(d) => deliveries'[d].status \in Live
    BY <1>16, <1>live, <1>once, WorkerTask, UpdateOne DEF StoreRetry, TypeOK, WorkerTypes, Live,
       Terminal
  <2>2. QED
    BY <1>16, <2>1, SameTokens DEF StoreRetry
<1>17. ASSUME NEW w \in Workers, SchedulePush(w)
      PROVE HeldIsLive' /\ OneTask'
  <2>x. wtask[w] \in Deliveries
    BY <1>17, WorkerTask DEF SchedulePush
  <2>s. InWork(wtask[w])
    BY <2>x DEF InWork
  <2>1. \A e \in Deliveries :
        /\ InCall(e)' <=> InCall(e)
        /\ InQueue(e)' <=> InQueue(e)
        /\ InWork(e)' <=> InWork(e) /\ e # wtask[w]
        /\ OnHeap(e)' <=> OnHeap(e) \/ e = wtask[w]
        /\ hand' = e <=> hand = e
    BY <1>17, <1>once, WorkerTask, <2>x DEF SchedulePush, WorkerTypes, SchedulerTypes, InCall,
       InQueue, InWork, OnHeap, OncePerPlace, OnePlace, TypeOK, IInv
  <2>2. OncePerPlace'
    BY <1>17, <1>once, WorkerTask, <2>x DEF SchedulePush, WorkerTypes, SchedulerTypes,
       OncePerPlace, OnePlace, InCall, InQueue, InWork, OnHeap, TypeOK, IInv
  <2>3. OnePlace'
    BY <1>once, <2>s, <2>1 DEF OnePlace
  <2>4. HeldIsLive'
    BY <1>live, <1>17, <2>s, <2>1 DEF HeldIsLive, Held, SchedulePush
  <2>5. QED
    BY <2>2, <2>3, <2>4 DEF OneTask
<1>18. ASSUME NEW w \in Workers, ScheduleWake(w)
      PROVE HeldIsLive' /\ OneTask'
  <2>1. wtask' = wtask
    BY <1>18, <1>once DEF ScheduleWake, Return, TypeOK, WorkerTypes, IInv, WorkerInv
  <2>2. QED
    BY <1>18, <1>live, <2>1, SameTokens DEF ScheduleWake
<1>19. CASE NextWait
  BY <1>19, <1>live, SameTokens DEF NextWait
<1>20. CASE SelectWake
  BY <1>20, <1>live, SameTokens DEF SelectWake
<1>21. CASE SelectTimer
  BY <1>21, <1>live, SameTokens DEF SelectTimer
<1>22. CASE SelectDone
  BY <1>22, <1>live, SameTokens DEF SelectDone
<1>23. ASSUME NEW d \in Deliveries, FlushPop(d)
      PROVE HeldIsLive' /\ OneTask'
  <2>s. OnHeap(d)
    BY <1>23, <1>once DEF FlushPop, OnHeap, TypeOK, SchedulerTypes
  <2>1. \A e \in Deliveries :
        /\ InCall(e)' <=> InCall(e)
        /\ InQueue(e)' <=> InQueue(e)
        /\ InWork(e)' <=> InWork(e)
        /\ OnHeap(e)' <=> OnHeap(e) /\ e # d
        /\ hand' = e <=> e = d
    BY <1>23, <1>once DEF FlushPop, SchedulerTypes, SchedulerInv, InCall, InQueue, InWork, OnHeap,
       OncePerPlace, OnePlace, TypeOK, IInv
  <2>2. OncePerPlace'
    BY <1>23, <1>once DEF FlushPop, SchedulerTypes, SchedulerInv, OncePerPlace, OnePlace, InCall,
       InQueue, InWork, OnHeap, TypeOK, IInv
  <2>3. OnePlace'
    BY <1>once, <2>s, <2>1 DEF OnePlace
  <2>4. HeldIsLive'
    BY <1>live, <1>23, <2>s, <2>1 DEF HeldIsLive, Held, FlushPop
  <2>5. QED
    BY <2>2, <2>3, <2>4 DEF OneTask
<1>24. CASE FlushDone
  BY <1>24, <1>live, SameTokens DEF FlushDone
<1>25. CASE RequeueOK
  <2>x. hand \in Deliveries
    BY <1>25, HandTask DEF RequeueOK
  <2>1. \A e \in Deliveries :
        /\ InCall(e)' <=> InCall(e)
        /\ InQueue(e)' <=> InQueue(e) \/ e = hand
        /\ InWork(e)' <=> InWork(e)
        /\ OnHeap(e)' <=> OnHeap(e)
        /\ hand' # e
    BY <1>25, <1>once, HandTask, AppendQueue, <2>x DEF RequeueOK, SchedulerTypes, InCall, InQueue,
       InWork, OnHeap, OncePerPlace, OnePlace, TypeOK, IInv
  <2>2. OncePerPlace'
    BY <1>25, <1>once, HandTask, AppendQueue, <2>x DEF RequeueOK, SchedulerTypes, OncePerPlace,
       OnePlace, InCall, InQueue, InWork, OnHeap, TypeOK, IInv
  <2>3. OnePlace'
    BY <1>once, <2>1 DEF OnePlace
  <2>4. HeldIsLive'
    BY <1>live, <1>25, <2>1 DEF HeldIsLive, Held, RequeueOK
  <2>5. QED
    BY <2>2, <2>3, <2>4 DEF OneTask
<1>26. CASE RequeueFails
  <2>x. hand \in Deliveries
    BY <1>26, HandTask DEF RequeueFails
  <2>1. \A e \in Deliveries :
        /\ InCall(e)' <=> InCall(e)
        /\ InQueue(e)' <=> InQueue(e)
        /\ InWork(e)' <=> InWork(e)
        /\ OnHeap(e)' <=> OnHeap(e)
        /\ hand' # e
    BY <1>26, <1>once, HandTask, <2>x DEF RequeueFails, SchedulerTypes, InCall, InQueue, InWork,
       OnHeap, OncePerPlace, OnePlace, TypeOK, IInv
  <2>2. OncePerPlace'
    BY <1>26, <1>once, HandTask, <2>x DEF RequeueFails, SchedulerTypes, OncePerPlace, OnePlace,
       InCall, InQueue, InWork, OnHeap, TypeOK, IInv
  <2>3. OnePlace'
    BY <1>once, <2>1 DEF OnePlace
  <2>4. HeldIsLive'
    BY <1>live, <1>26, <2>1 DEF HeldIsLive, Held, RequeueFails
  <2>5. QED
    BY <2>2, <2>3, <2>4 DEF OneTask
<1>27. ASSUME NEW d \in Deliveries, Elapse(d)
      PROVE HeldIsLive' /\ OneTask'
  <2>1. \A e \in Deliveries : notDue[e] + due[e] = notDue'[e] + due'[e]
    BY <1>27, <1>once DEF Elapse, TypeOK, SchedulerTypes
  <2>2. QED
    BY <1>27, <1>live, <1>once, <2>1 DEF Elapse, HeldIsLive, OneTask, OncePerPlace, OnePlace,
       Held, InCall, InQueue, InWork, OnHeap
<1>28. CASE Start
  BY <1>28, <1>live, SameTokens DEF Start
<1>29. CASE Stop
  BY <1>29, <1>live, SameTokens DEF Stop
<1>30. CASE UNCHANGED vars
  BY <1>30, <1>live, SameTokens
<1>31. QED
  BY <1>1, <1>2, <1>3, <1>4, <1>5, <1>6, <1>7, <1>8, <1>9, <1>10, <1>11, <1>12, <1>13, <1>14,
     <1>15, <1>16, <1>17, <1>18, <1>19, <1>20, <1>21, <1>22, <1>23, <1>24, <1>25, <1>26, <1>27,
     <1>28, <1>29, <1>30
  DEF Next, CallerStep, WorkerStep, HandleTask, SchedulerStep

-----------------------------------------------------------------------------
LEMMA IInvInductive == IInv /\ [Next]_vars => IInv'
  BY TypeStep, ControlStep, WorkerInvStep, TokenStep DEF IInv

LEMMA SpecIInv == Spec => []IInv
  BY InitIInv, IInvInductive, PTL DEF Spec

(* The state keeps its shape: in particular the queue never exceeds        *)
(* QueueSize, and only the statuses of types.go are stored.                *)
THEOREM TypeCorrect == Spec => []TypeOK
<1>1. IInv => TypeOK
  BY DEF IInv
<1>2. QED
  BY <1>1, SpecIInv, PTL

(* At most one task per delivery while it lives and none once it has       *)
(* ended, whatever the numbers of workers, callers and deliveries, the     *)
(* size of the queue and the policy.                                       *)
THEOREM OneTaskUntilEndAlways == Spec => []OneTaskUntilEnd
<1>1. IInv => OneTask
  BY DEF IInv
<1>2. IInv => EndedHasNoTask
  BY DEF IInv, HeldIsLive, EndedHasNoTask, Live, Terminal
<1>3. IInv => OneTaskUntilEnd
  BY <1>1, <1>2 DEF OneTaskUntilEnd
<1>4. QED
  BY <1>3, SpecIInv, PTL

-----------------------------------------------------------------------------
(* What a step may do to the store of deliveries: nothing, create one, or  *)
(* record one attempt of one that has not ended.                           *)
Created(d) ==
    /\ deliveries[d] = NoDelivery
    /\ deliveries'[d].status = "pending" /\ deliveries'[d].attempt = 0

Attempted(d) ==
    /\ deliveries[d].status \in Live
    /\ deliveries'[d].attempt = deliveries[d].attempt + 1
    /\ deliveries'[d].status \in Terminal \cup {"retrying"}
    /\ deliveries'[d].status = "retrying" => deliveries[d].attempt + 1 < RetryCap

DeliveryStep ==
    \/ UNCHANGED deliveries
    \/ \E d \in Deliveries :
         /\ Created(d) \/ Attempted(d)
         /\ \A e \in Deliveries \ {d} : deliveries'[e] = deliveries[e]

LEMMA StoreStep == IInv /\ [Next]_vars => DeliveryStep
<1> SUFFICES ASSUME IInv, [Next]_vars PROVE DeliveryStep
  OBVIOUS
<1> USE DEF store, scheduler, worker, caller, lifecycle, history, vars
<1>type. StoreTypes /\ WorkerTypes /\ WorkerInv
  BY DEF IInv, TypeOK
<1>1. ASSUME NEW t \in Targets, NEW s \in Settings, CreateTarget(t, s)
      PROVE DeliveryStep
  BY <1>1 DEF DeliveryStep, CreateTarget
<1>2. ASSUME NEW t \in Targets, NEW s \in Settings, UpdateTarget(t, s)
      PROVE DeliveryStep
  BY <1>2 DEF DeliveryStep, UpdateTarget
<1>3. ASSUME NEW c \in Callers, NEW e \in EventTypes, NEW p \in BOOLEAN, TriggerEvent(c, e, p)
      PROVE DeliveryStep
  BY <1>3 DEF DeliveryStep, TriggerEvent
<1>4. ASSUME NEW c \in Callers, NEW t \in Targets, NEW d \in Deliveries, CreateDelivery(c, t, d)
      PROVE DeliveryStep
  <2>1. Created(d) /\ \A e \in Deliveries \ {d} : deliveries'[e] = deliveries[e]
    BY <1>4, <1>type DEF CreateDelivery, Created, NewDelivery, StoreTypes
  <2>2. QED
    BY <2>1 DEF DeliveryStep
<1>5. ASSUME NEW c \in Callers, NEW old \in Deliveries, NEW d \in Deliveries, ReplayDelivery(c, old, d)
      PROVE DeliveryStep
  <2>1. Created(d) /\ \A e \in Deliveries \ {d} : deliveries'[e] = deliveries[e]
    BY <1>5, <1>type DEF ReplayDelivery, Created, NewDelivery, StoreTypes
  <2>2. QED
    BY <2>1 DEF DeliveryStep
<1>6. ASSUME NEW c \in Callers, EnqueueOK(c)
      PROVE DeliveryStep
  BY <1>6 DEF DeliveryStep, EnqueueOK
<1>7. ASSUME NEW c \in Callers, EnqueueFails(c)
      PROVE DeliveryStep
  BY <1>7 DEF DeliveryStep, EnqueueFails
<1>8. ASSUME NEW w \in Workers, TakeTask(w)
      PROVE DeliveryStep
  BY <1>8 DEF DeliveryStep, TakeTask
<1>9. ASSUME NEW w \in Workers, WorkerExit(w)
      PROVE DeliveryStep
  BY <1>9 DEF DeliveryStep, WorkerExit
<1>10. ASSUME NEW w \in Workers, LoadDelivery(w)
      PROVE DeliveryStep
  BY <1>10 DEF DeliveryStep, LoadDelivery
<1>11. ASSUME NEW w \in Workers, SkipTask(w)
      PROVE DeliveryStep
  BY <1>11 DEF DeliveryStep, SkipTask
<1>12. ASSUME NEW w \in Workers, LoadTarget(w)
      PROVE DeliveryStep
  BY <1>12 DEF DeliveryStep, LoadTarget
<1>13. ASSUME NEW w \in Workers, BuryEmpty(w)
      PROVE DeliveryStep
  <2>1. /\ wtask[w] \in Deliveries /\ deliveries[wtask[w]] \in DeliveryRecord
        /\ deliveries[wtask[w]].status \in Live
        /\ wattempt[w] \in Nat /\ wattempt[w] = deliveries[wtask[w]].attempt
    BY <1>13, <1>type, WorkerTask DEF BuryEmpty, WorkerTypes, WorkerInv
  <2>2. UpdateDelivery(wtask[w], wattempt[w] + 1, "dead")
    BY <1>13 DEF BuryEmpty
  <2>3. /\ deliveries'[wtask[w]].status = "dead"
        /\ deliveries'[wtask[w]].attempt = wattempt[w] + 1
        /\ \A e \in Deliveries \ {wtask[w]} : deliveries'[e] = deliveries[e]
    BY <2>1, <2>2, UpdateOne DEF Terminal
  <2>4. QED
    BY <2>1, <2>3 DEF DeliveryStep, Attempted, Terminal
<1>14. ASSUME NEW w \in Workers, NEW r \in Responses, SendOnce(w, r)
      PROVE DeliveryStep
  BY <1>14 DEF DeliveryStep, SendOnce
<1>15. ASSUME NEW w \in Workers, StoreFinal(w)
      PROVE DeliveryStep
  <2>1. /\ wtask[w] \in Deliveries /\ deliveries[wtask[w]] \in DeliveryRecord
        /\ deliveries[wtask[w]].status \in Live
        /\ wattempt[w] \in Nat /\ wattempt[w] = deliveries[wtask[w]].attempt
        /\ wverdict[w] \in Terminal
    BY <1>15, <1>type, WorkerTask DEF StoreFinal, WorkerTypes, WorkerInv
  <2>2. UpdateDelivery(wtask[w], wattempt[w] + 1, wverdict[w])
    BY <1>15 DEF StoreFinal
  <2>3. /\ deliveries'[wtask[w]].status = wverdict[w]
        /\ deliveries'[wtask[w]].attempt = wattempt[w] + 1
        /\ \A e \in Deliveries \ {wtask[w]} : deliveries'[e] = deliveries[e]
    <3>1. wattempt[w] + 1 \in Nat /\ wverdict[w] \in Live \cup Terminal
      BY <2>1
    <3>2. QED
      BY <2>1, <2>2, <3>1, UpdateOne
  <2>4. QED
    BY <2>1, <2>3 DEF DeliveryStep, Attempted, Terminal
<1>16. ASSUME NEW w \in Workers, StoreRetry(w)
      PROVE DeliveryStep
  <2>1. /\ wtask[w] \in Deliveries /\ deliveries[wtask[w]] \in DeliveryRecord
        /\ deliveries[wtask[w]].status \in Live
        /\ wattempt[w] \in Nat /\ wattempt[w] = deliveries[wtask[w]].attempt
        /\ wattempt[w] + 1 < RetryCap
    BY <1>16, <1>type, WorkerTask DEF StoreRetry, WorkerTypes, WorkerInv
  <2>2. UpdateDelivery(wtask[w], wattempt[w] + 1, "retrying")
    BY <1>16 DEF StoreRetry
  <2>3. /\ deliveries'[wtask[w]].status = "retrying"
        /\ deliveries'[wtask[w]].attempt = wattempt[w] + 1
        /\ \A e \in Deliveries \ {wtask[w]} : deliveries'[e] = deliveries[e]
    BY <2>1, <2>2, UpdateOne DEF Live
  <2>4. QED
    BY <2>1, <2>3 DEF DeliveryStep, Attempted
<1>17. ASSUME NEW w \in Workers, SchedulePush(w)
      PROVE DeliveryStep
  BY <1>17 DEF DeliveryStep, SchedulePush
<1>18. ASSUME NEW w \in Workers, ScheduleWake(w)
      PROVE DeliveryStep
  BY <1>18 DEF DeliveryStep, ScheduleWake
<1>19. CASE NextWait
  BY <1>19 DEF DeliveryStep, NextWait
<1>20. CASE SelectWake
  BY <1>20 DEF DeliveryStep, SelectWake
<1>21. CASE SelectTimer
  BY <1>21 DEF DeliveryStep, SelectTimer
<1>22. CASE SelectDone
  BY <1>22 DEF DeliveryStep, SelectDone
<1>23. ASSUME NEW d \in Deliveries, FlushPop(d)
      PROVE DeliveryStep
  BY <1>23 DEF DeliveryStep, FlushPop
<1>24. CASE FlushDone
  BY <1>24 DEF DeliveryStep, FlushDone
<1>25. CASE RequeueOK
  BY <1>25 DEF DeliveryStep, RequeueOK
<1>26. CASE RequeueFails
  BY <1>26 DEF DeliveryStep, RequeueFails
<1>27. ASSUME NEW d \in Deliveries, Elapse(d)
      PROVE DeliveryStep
  BY <1>27 DEF DeliveryStep, Elapse
<1>28. CASE Start
  BY <1>28 DEF DeliveryStep, Start
<1>29. CASE Stop
  BY <1>29 DEF DeliveryStep, Stop
<1>30. CASE UNCHANGED vars
  BY <1>30 DEF DeliveryStep
<1>31. QED
  BY <1>1, <1>2, <1>3, <1>4, <1>5, <1>6, <1>7, <1>8, <1>9, <1>10, <1>11, <1>12, <1>13, <1>14,
     <1>15, <1>16, <1>17, <1>18, <1>19, <1>20, <1>21, <1>22, <1>23, <1>24, <1>25, <1>26, <1>27,
     <1>28, <1>29, <1>30
  DEF Next, CallerStep, WorkerStep, HandleTask, SchedulerStep

(* The status and the attempt number of an ended delivery never change.    *)
THEOREM EndedStaysFinal == Spec => EndedIsFinal
<1>1. DeliveryStep =>
        \A d \in Deliveries : deliveries[d].status \in Terminal => deliveries'[d] = deliveries[d]
  BY DEF DeliveryStep, Created, Attempted, Live, Terminal, NoDelivery
<1>2. IInv /\ [Next]_vars =>
        [\A d \in Deliveries :
            deliveries[d].status \in Terminal => deliveries'[d] = deliveries[d]]_vars
  BY <1>1, StoreStep
<1>3. QED
  BY <1>2, SpecIInv, PTL DEF Spec, EndedIsFinal

(* The service implements the abstract life cycle of DeliveryLifecycle.    *)
THEOREM ImplementsLifecycle == Spec => RefinesLifecycle
<1> DEFINE st == [d \in Deliveries |-> deliveries[d].status]
           at == [d \in Deliveries |-> deliveries[d].attempt]
<1>1. Init => Lifecycle!Init
  BY DEF Init, Lifecycle!Init, NoDelivery
<1>2. ASSUME DeliveryStep PROVE [Lifecycle!Next]_Lifecycle!vars
  <2>1. CASE UNCHANGED deliveries
    BY <2>1 DEF Lifecycle!vars
  <2>2. ASSUME NEW d \in Deliveries, Created(d),
               \A e \in Deliveries \ {d} : deliveries'[e] = deliveries[e]
        PROVE  Lifecycle!Create(d)
    <3>1. st[d] = "none" /\ deliveries[d].attempt = 0
      BY <2>2 DEF Created, NoDelivery
    <3>2. st' = [st EXCEPT ![d] = "pending"] /\ at' = at
      BY <2>2, <3>1 DEF Created
    <3>3. QED
      BY <3>1, <3>2 DEF Lifecycle!Create
  <2>3. ASSUME NEW d \in Deliveries, Attempted(d),
               \A e \in Deliveries \ {d} : deliveries'[e] = deliveries[e]
        PROVE  Lifecycle!Attempt(d)
    <3>1. /\ st[d] \in Lifecycle!Live
          /\ st' = [st EXCEPT ![d] = deliveries'[d].status]
          /\ at' = [at EXCEPT ![d] = @ + 1]
      BY <2>3 DEF Attempted, Live, Lifecycle!Live
    <3>2. /\ deliveries'[d].status \in Lifecycle!Terminal \cup {"retrying"}
          /\ deliveries'[d].status = "retrying" => at[d] + 1 < RetryCap
      BY <2>3 DEF Attempted, Terminal, Lifecycle!Terminal
    <3>3. QED
      BY <3>1, <3>2 DEF Lifecycle!Attempt
  <2>4. QED
    BY <1>2, <2>1, <2>2, <2>3 DEF DeliveryStep, Lifecycle!Next
<1>3. QED
  BY <1>1, <1>2, StoreStep, SpecIInv, PTL DEF Spec, RefinesLifecycle, Lifecycle!Spec

-----------------------------------------------------------------------------
(* A step keeps every task somewhere, ends its delivery or records where   *)
(* the task was given up; a new delivery has a task.                       *)
KeepsTasks ==
    \A d \in Deliveries :
        /\ lost[d] # "no" => lost'[d] # "no"
        /\ Held(d) => Held(d)' \/ lost'[d] # "no" \/ deliveries'[d].status \notin Live
        /\ deliveries'[d].status \in Live => deliveries[d].status \in Live \/ Held(d)'

LEMMA KeepsTasksStep == IInv /\ [Next]_vars => KeepsTasks
<1> SUFFICES ASSUME IInv, [Next]_vars PROVE KeepsTasks
  OBVIOUS
<1> USE DEF store, scheduler, worker, caller, lifecycle, history, vars
<1>type. /\ StoreTypes /\ SchedulerTypes /\ WorkerTypes /\ CallerTypes /\ ServiceTypes
         /\ CallerInv /\ WorkerInv /\ SchedulerInv
  BY DEF IInv, TypeOK
<1> USE <1>type, DomainAssumption
<1>same. ASSUME UNCHANGED <<queue, notDue, due, hand, wtask, ctask, lost>>,
                \A d \in Deliveries : deliveries'[d].status \in Live => deliveries[d].status \in Live
         PROVE  KeepsTasks
  BY <1>same DEF KeepsTasks, Held, InCall, InQueue, InWork, OnHeap
<1>1. ASSUME NEW t \in Targets, NEW s \in Settings, CreateTarget(t, s)
      PROVE KeepsTasks
  BY <1>1, <1>same DEF CreateTarget
<1>2. ASSUME NEW t \in Targets, NEW s \in Settings, UpdateTarget(t, s)
      PROVE KeepsTasks
  BY <1>2, <1>same DEF UpdateTarget
<1>3. ASSUME NEW c \in Callers, NEW e \in EventTypes, NEW p \in BOOLEAN, TriggerEvent(c, e, p)
      PROVE KeepsTasks
  BY <1>3, <1>same DEF TriggerEvent
<1>4. ASSUME NEW c \in Callers, NEW t \in Targets, NEW d \in Deliveries, CreateDelivery(c, t, d)
      PROVE KeepsTasks
  <2>1. \A e \in Deliveries : InCall(e)' <=> InCall(e) \/ e = d
    BY <1>4 DEF CreateDelivery, InCall, CallerTypes, CallerInv
  <2>2. \A e \in Deliveries \ {d} : deliveries'[e] = deliveries[e]
    BY <1>4 DEF CreateDelivery, StoreTypes
  <2>3. QED
    BY <1>4, <2>1, <2>2 DEF CreateDelivery, KeepsTasks, Held, InQueue, InWork, OnHeap
<1>5. ASSUME NEW c \in Callers, NEW old \in Deliveries, NEW d \in Deliveries, ReplayDelivery(c, old, d)
      PROVE KeepsTasks
  <2>1. \A e \in Deliveries : InCall(e)' <=> InCall(e) \/ e = d
    BY <1>5 DEF ReplayDelivery, InCall, CallerTypes, CallerInv
  <2>2. \A e \in Deliveries \ {d} : deliveries'[e] = deliveries[e]
    BY <1>5 DEF ReplayDelivery, StoreTypes
  <2>3. QED
    BY <1>5, <2>1, <2>2 DEF ReplayDelivery, KeepsTasks, Held, InQueue, InWork, OnHeap
<1>6. ASSUME NEW c \in Callers, EnqueueOK(c)
      PROVE KeepsTasks
  <2>1. \A e \in Deliveries : e \in Range(queue') <=> e \in Range(queue) \/ e = ctask[c]
    <3>1. ctask[c] \in Deliveries /\ ~InQueue(ctask[c])
      BY <1>6, CallerTask DEF EnqueueOK, IInv, OneTask, OnePlace, InCall
    <3>2. QED
      BY <1>6, <3>1, AppendQueue DEF EnqueueOK
  <2>2. QED
    BY <1>6, <2>1 DEF EnqueueOK, CallContinues, KeepsTasks, Held, InCall, InQueue, InWork, OnHeap,
       CallerTypes
<1>7. ASSUME NEW c \in Callers, EnqueueFails(c)
      PROVE KeepsTasks
  BY <1>7, CallerTask DEF EnqueueFails, CallContinues, KeepsTasks, Held, InCall, InQueue, InWork,
     OnHeap, CallerTypes, ServiceTypes
<1>8. ASSUME NEW w \in Workers, TakeTask(w)
      PROVE KeepsTasks
  <2>1. \A e \in Deliveries : e \in Range(queue') <=> e \in Range(queue) /\ e # Head(queue)
    BY <1>8, TailQueue DEF TakeTask
  <2>2. QED
    <3>1. \A e \in Deliveries : InWork(e)' <=> InWork(e) \/ e = Head(queue)
      BY <1>8 DEF TakeTask, InWork, WorkerTypes, WorkerInv
    <3>2. QED
      BY <1>8, <2>1, <3>1 DEF TakeTask, KeepsTasks, Held, InCall, InQueue, OnHeap
<1>9. ASSUME NEW w \in Workers, WorkerExit(w)
      PROVE KeepsTasks
  BY <1>9, <1>same DEF WorkerExit
<1>10. ASSUME NEW w \in Workers, LoadDelivery(w)
      PROVE KeepsTasks
  BY <1>10, <1>same DEF LoadDelivery
<1>11. ASSUME NEW w \in Workers, SkipTask(w)
      PROVE KeepsTasks
  BY <1>11, WorkerTask DEF SkipTask, Return, KeepsTasks, Held, InCall, InQueue, InWork, OnHeap,
     WorkerTypes, ServiceTypes
<1>12. ASSUME NEW w \in Workers, LoadTarget(w)
      PROVE KeepsTasks
  BY <1>12, <1>same DEF LoadTarget
<1>13. ASSUME NEW w \in Workers, BuryEmpty(w)
      PROVE KeepsTasks
  <2>1. deliveries'[wtask[w]].status = "dead"
        /\ \A e \in Deliveries \ {wtask[w]} : deliveries'[e] = deliveries[e]
    <3>1. wattempt[w] + 1 \in Nat /\ "dead" \in Live \cup Terminal
      BY DEF WorkerTypes, Terminal
    <3>2. QED
      BY <1>13, <3>1, WorkerTask, UpdateOne DEF BuryEmpty
  <2>2. QED
    BY <1>13, <2>1 DEF BuryEmpty, Return, KeepsTasks, Held, InCall, InQueue, InWork, OnHeap,
       WorkerTypes, Live
<1>14. ASSUME NEW w \in Workers, NEW r \in Responses, SendOnce(w, r)
      PROVE KeepsTasks
  BY <1>14, <1>same DEF SendOnce
<1>15. ASSUME NEW w \in Workers, StoreFinal(w)
      PROVE KeepsTasks
  <2>1. wverdict[w] \in Live \cup Terminal /\ wverdict[w] \notin Live /\ wattempt[w] + 1 \in Nat
    BY <1>15 DEF StoreFinal, WorkerTypes, WorkerInv, Live, Terminal
  <2>2. deliveries'[wtask[w]].status = wverdict[w]
        /\ \A e \in Deliveries \ {wtask[w]} : deliveries'[e] = deliveries[e]
    BY <1>15, <2>1, WorkerTask, UpdateOne DEF StoreFinal
  <2>3. QED
    BY <1>15, <2>1, <2>2 DEF StoreFinal, Return, KeepsTasks, Held, InCall, InQueue, InWork,
       OnHeap, WorkerTypes
<1>16. ASSUME NEW w \in Workers, StoreRetry(w)
      PROVE KeepsTasks
  <2>1. /\ deliveries[wtask[w]].status \in Live
        /\ \A e \in Deliveries \ {wtask[w]} : deliveries'[e] = deliveries[e]
    BY <1>16, WorkerTask, UpdateOne DEF StoreRetry, WorkerTypes, Live, Terminal
  <2>2. QED
    BY <1>16, <1>same, <2>1 DEF StoreRetry
<1>17. ASSUME NEW w \in Workers, SchedulePush(w)
      PROVE KeepsTasks
  BY <1>17 DEF SchedulePush, KeepsTasks, Held, InCall, InQueue, InWork, OnHeap, WorkerTypes,
     WorkerInv, SchedulerTypes
<1>18. ASSUME NEW w \in Workers, ScheduleWake(w)
      PROVE KeepsTasks
  <2>1. wtask' = wtask
    BY <1>18 DEF ScheduleWake, Return, WorkerTypes, WorkerInv
  <2>2. QED
    BY <1>18, <1>same, <2>1 DEF ScheduleWake
<1>19. CASE NextWait
  BY <1>19, <1>same DEF NextWait
<1>20. CASE SelectWake
  BY <1>20, <1>same DEF SelectWake
<1>21. CASE SelectTimer
  BY <1>21, <1>same DEF SelectTimer
<1>22. CASE SelectDone
  BY <1>22, <1>same DEF SelectDone
<1>23. ASSUME NEW d \in Deliveries, FlushPop(d)
      PROVE KeepsTasks
  <2>1. \A e \in Deliveries : OnHeap(e) => OnHeap(e)' \/ e = d
    BY <1>23 DEF FlushPop, OnHeap, SchedulerTypes
  <2>2. QED
    BY <1>23, <1>type, <2>1 DEF FlushPop, KeepsTasks, Held, InCall, InQueue, InWork, SchedulerInv,
       SchedulerTypes
<1>24. CASE FlushDone
  BY <1>24, <1>same DEF FlushDone
<1>25. CASE RequeueOK
  <2>1. \A e \in Deliveries : e \in Range(queue') <=> e \in Range(queue) \/ e = hand
    BY <1>25, HandTask, AppendQueue DEF RequeueOK, IInv, OneTask, OnePlace
  <2>2. QED
    BY <1>25, <2>1 DEF RequeueOK, KeepsTasks, Held, InCall, InQueue, InWork, OnHeap
<1>26. CASE RequeueFails
  BY <1>26, HandTask DEF RequeueFails, KeepsTasks, Held, InCall, InQueue, InWork, OnHeap,
     ServiceTypes
<1>27. ASSUME NEW d \in Deliveries, Elapse(d)
      PROVE KeepsTasks
  BY <1>27 DEF Elapse, KeepsTasks, Held, InCall, InQueue, InWork, OnHeap, SchedulerTypes
<1>28. CASE Start
  BY <1>28, <1>same DEF Start
<1>29. CASE Stop
  BY <1>29, <1>same DEF Stop
<1>30. CASE UNCHANGED vars
  BY <1>30, <1>same
<1>31. QED
  BY <1>1, <1>2, <1>3, <1>4, <1>5, <1>6, <1>7, <1>8, <1>9, <1>10, <1>11, <1>12, <1>13, <1>14,
     <1>15, <1>16, <1>17, <1>18, <1>19, <1>20, <1>21, <1>22, <1>23, <1>24, <1>25, <1>26, <1>27,
     <1>28, <1>29, <1>30
  DEF Next, CallerStep, WorkerStep, HandleTask, SchedulerStep

(* A delivery shown as pending or retrying has a task, or lost it at a     *)
(* failed enqueue, a missing or disabled target or a failed flush.         *)
THEOREM NoSilentLossAlways == Spec => []NoSilentLoss
<1>1. Init => NoSilentLoss
  BY DEF Init, NoSilentLoss, NoDelivery, Live
<1>2. IInv /\ NoSilentLoss /\ [Next]_vars => NoSilentLoss'
  BY KeepsTasksStep DEF KeepsTasks, NoSilentLoss
<1>3. QED
  BY <1>1, <1>2, SpecIInv, PTL DEF Spec
-----------------------------------------------------------------------------
(* The metrics.  A delivery whose call got an answer from Enqueue that the *)
(* service counts, the deliveries with each outcome, and those whose       *)
(* requests came to nothing.                                               *)
Booked ==
    {d \in Deliveries : /\ deliveries[d] # NoDelivery
                        /\ lost[d] # "replay"
                        /\ \A c \in Callers : ctask[c] # d}
Ended(verdict) == {d \in Deliveries : Ends(d, verdict)}
Refused == {d \in Deliveries : Ends(d, "failed") \/ (Ends(d, "dead") /\ deliveries[d].payload)}

EnqueuesBalance == metrics["enqueued"] + metrics["dropped"] = Cardinality(Booked)

OutcomesBalance ==
    /\ metrics["sentOK"] = Cardinality(Ended("success"))
    /\ metrics["sentFail"] = Cardinality(Refused)
    /\ metrics["dead"] = Cardinality(Ended("dead"))
    /\ metrics["retried"] + metrics["sentOK"] + metrics["sentFail"] = Sum(sends, Deliveries)

LEMMA BalanceParts == MetricsBalance <=> EnqueuesBalance /\ OutcomesBalance
  BY DEF MetricsBalance, Count, Booked, Ended, Refused, EnqueuesBalance, OutcomesBalance,
     MapThenSumSet, MapThenFoldSet, Sum, SumFunctionOnSet, FoldFunctionOnSet

(* The caller of a refused replay kept nothing: no task, no metric.        *)
RefusedInv == \A d \in Deliveries : lost[d] = "replay" => deliveries[d] # NoDelivery /\ ~Held(d)

(* Only a new delivery gets a task; one that loses its task has none.      *)
TasksMove ==
    \A d \in Deliveries :
        /\ Held(d)' => Held(d) \/ deliveries[d] = NoDelivery
        /\ lost'[d] # lost[d] => Held(d) /\ ~Held(d)'
        /\ deliveries[d] # NoDelivery => deliveries'[d] # NoDelivery

LEMMA TasksMoveStep == IInv /\ [Next]_vars => TasksMove
<1> SUFFICES ASSUME IInv, [Next]_vars PROVE TasksMove
  OBVIOUS
<1> USE DEF store, scheduler, worker, caller, lifecycle, history, vars
<1>type. /\ StoreTypes /\ SchedulerTypes /\ WorkerTypes /\ CallerTypes /\ ServiceTypes
         /\ CallerInv /\ WorkerInv /\ SchedulerInv
  BY DEF IInv, TypeOK
<1> USE <1>type, DomainAssumption
<1>kept. \A d \in Deliveries : deliveries[d] # NoDelivery => deliveries'[d] # NoDelivery
  BY StoreStep DEF DeliveryStep, Created, Attempted, NoDelivery, Terminal
<1>one. \A d \in Deliveries : \A w \in Workers :
           wtask[w] = d /\ wtask[w] # NoTask =>
             ~InCall(d) /\ ~InQueue(d) /\ ~OnHeap(d) /\ hand # d /\ \A v \in Workers : wtask[v] = d => v = w
  BY DEF IInv, OneTask, OnePlace, OncePerPlace, InWork
<1>same. ASSUME UNCHANGED <<queue, notDue, due, hand, wtask, ctask, lost>>
         PROVE  TasksMove
  BY <1>same, <1>kept DEF TasksMove, Held, InCall, InQueue, InWork, OnHeap
<1>1. ASSUME NEW t \in Targets, NEW s \in Settings, CreateTarget(t, s)
      PROVE TasksMove
  BY <1>1, <1>same DEF CreateTarget
<1>2. ASSUME NEW t \in Targets, NEW s \in Settings, UpdateTarget(t, s)
      PROVE TasksMove
  BY <1>2, <1>same DEF UpdateTarget
<1>3. ASSUME NEW c \in Callers, NEW e \in EventTypes, NEW p \in BOOLEAN, TriggerEvent(c, e, p)
      PROVE TasksMove
  BY <1>3, <1>same DEF TriggerEvent
<1>4. ASSUME NEW c \in Callers, NEW t \in Targets, NEW d \in Deliveries, CreateDelivery(c, t, d)
      PROVE TasksMove
  <2>1. \A e \in Deliveries : InCall(e)' => InCall(e) \/ e = d
    BY <1>4 DEF CreateDelivery, InCall, CallerTypes, CallerInv
  <2>2. QED
    BY <1>4, <1>kept, <2>1 DEF CreateDelivery, TasksMove, Held, InQueue, InWork, OnHeap
<1>5. ASSUME NEW c \in Callers, NEW old \in Deliveries, NEW d \in Deliveries, ReplayDelivery(c, old, d)
      PROVE TasksMove
  <2>1. \A e \in Deliveries : InCall(e)' => InCall(e) \/ e = d
    BY <1>5 DEF ReplayDelivery, InCall, CallerTypes, CallerInv
  <2>2. QED
    BY <1>5, <1>kept, <2>1 DEF ReplayDelivery, TasksMove, Held, InQueue, InWork, OnHeap
<1>6. ASSUME NEW c \in Callers, EnqueueOK(c)
      PROVE TasksMove
  <2>1. \A e \in Deliveries : e \in Range(queue') <=> e \in Range(queue) \/ e = ctask[c]
    <3>1. ctask[c] \in Deliveries /\ ~InQueue(ctask[c])
      BY <1>6, CallerTask DEF EnqueueOK, IInv, OneTask, OnePlace, InCall
    <3>2. QED
      BY <1>6, <3>1, AppendQueue DEF EnqueueOK
  <2>2. \A e \in Deliveries : InCall(e)' => InCall(e)
    BY <1>6 DEF EnqueueOK, CallContinues, InCall, CallerTypes
  <2>3. InCall(ctask[c])
    BY DEF InCall
  <2>4. QED
    BY <1>6, <1>kept, <2>1, <2>2, <2>3 DEF EnqueueOK, TasksMove, Held, InQueue, InWork, OnHeap
<1>7. ASSUME NEW c \in Callers, EnqueueFails(c)
      PROVE TasksMove
  <2>1. ctask[c] \in Deliveries /\ InCall(ctask[c])
    BY <1>7, CallerTask DEF EnqueueFails, InCall
  <2>2. \A e \in Deliveries : InCall(e)' => InCall(e) /\ e # ctask[c]
    BY <1>7, <2>1 DEF EnqueueFails, CallContinues, InCall, CallerTypes, IInv, OneTask, OncePerPlace
  <2>3. \A e \in Deliveries : e = ctask[c] => ~Held(e)'
    BY <1>7, <2>1, <2>2 DEF EnqueueFails, Held, InQueue, InWork, OnHeap, IInv, OneTask, OnePlace
  <2>4. QED
    BY <1>7, <1>kept, <2>1, <2>2, <2>3 DEF EnqueueFails, TasksMove, Held, InQueue, InWork, OnHeap,
       ServiceTypes
<1>8. ASSUME NEW w \in Workers, TakeTask(w)
      PROVE TasksMove
  <2>1. \A e \in Deliveries : e \in Range(queue') <=> e \in Range(queue) /\ e # Head(queue)
    BY <1>8, TailQueue DEF TakeTask
  <2>2. \A e \in Deliveries : InWork(e)' => InWork(e) \/ e = Head(queue)
    BY <1>8 DEF TakeTask, InWork, WorkerTypes
  <2>3. InQueue(Head(queue))
    BY <1>8, TailQueue DEF TakeTask
  <2>4. QED
    BY <1>8, <1>kept, <2>1, <2>2, <2>3 DEF TakeTask, TasksMove, Held, InCall, InQueue, OnHeap
<1>9. ASSUME NEW w \in Workers, WorkerExit(w)
      PROVE TasksMove
  BY <1>9, <1>same DEF WorkerExit
<1>10. ASSUME NEW w \in Workers, LoadDelivery(w)
      PROVE TasksMove
  BY <1>10, <1>same DEF LoadDelivery
<1>11. ASSUME NEW w \in Workers, SkipTask(w)
      PROVE TasksMove
  <2>1. wtask[w] \in Deliveries /\ InWork(wtask[w])
    BY <1>11, WorkerTask DEF SkipTask, InWork
  <2>2. \A e \in Deliveries : InWork(e)' => InWork(e) /\ e # wtask[w]
    BY <1>11, <2>1, <1>one DEF SkipTask, Return, InWork, WorkerTypes
  <2>3. \A e \in Deliveries : e = wtask[w] => ~Held(e)'
    BY <1>11, <2>1, <2>2, <1>one DEF SkipTask, Held, InCall, InQueue, OnHeap
  <2>4. QED
    BY <1>11, <1>kept, <2>1, <2>2, <2>3 DEF SkipTask, TasksMove, Held, InCall, InQueue, OnHeap,
       ServiceTypes
<1>12. ASSUME NEW w \in Workers, LoadTarget(w)
      PROVE TasksMove
  BY <1>12, <1>same DEF LoadTarget
<1>13. ASSUME NEW w \in Workers, BuryEmpty(w)
      PROVE TasksMove
  <2>1. \A e \in Deliveries : InWork(e)' => InWork(e)
    BY <1>13 DEF BuryEmpty, Return, InWork, WorkerTypes
  <2>2. QED
    BY <1>13, <1>kept, <2>1 DEF BuryEmpty, TasksMove, Held, InCall, InQueue, OnHeap
<1>14. ASSUME NEW w \in Workers, NEW r \in Responses, SendOnce(w, r)
      PROVE TasksMove
  BY <1>14, <1>same DEF SendOnce
<1>15. ASSUME NEW w \in Workers, StoreFinal(w)
      PROVE TasksMove
  <2>1. \A e \in Deliveries : InWork(e)' => InWork(e)
    BY <1>15 DEF StoreFinal, Return, InWork, WorkerTypes
  <2>2. QED
    BY <1>15, <1>kept, <2>1 DEF StoreFinal, TasksMove, Held, InCall, InQueue, OnHeap
<1>16. ASSUME NEW w \in Workers, StoreRetry(w)
      PROVE TasksMove
  BY <1>16, <1>same DEF StoreRetry
<1>17. ASSUME NEW w \in Workers, SchedulePush(w)
      PROVE TasksMove
  <2>1. wtask[w] \in Deliveries /\ InWork(wtask[w])
    BY <1>17, WorkerTask DEF SchedulePush, InWork
  <2>2. \A e \in Deliveries : (InWork(e)' => InWork(e)) /\ (OnHeap(e)' => OnHeap(e) \/ e = wtask[w])
    BY <1>17, <2>1 DEF SchedulePush, InWork, OnHeap, WorkerTypes, SchedulerTypes
  <2>3. QED
    BY <1>17, <1>kept, <2>1, <2>2 DEF SchedulePush, TasksMove, Held, InCall, InQueue
<1>18. ASSUME NEW w \in Workers, ScheduleWake(w)
      PROVE TasksMove
  <2>1. wtask' = wtask
    BY <1>18 DEF ScheduleWake, Return, WorkerTypes, WorkerInv
  <2>2. QED
    BY <1>18, <1>same, <2>1 DEF ScheduleWake
<1>19. CASE NextWait
  BY <1>19, <1>same DEF NextWait
<1>20. CASE SelectWake
  BY <1>20, <1>same DEF SelectWake
<1>21. CASE SelectTimer
  BY <1>21, <1>same DEF SelectTimer
<1>22. CASE SelectDone
  BY <1>22, <1>same DEF SelectDone
<1>23. ASSUME NEW d \in Deliveries, FlushPop(d)
      PROVE TasksMove
  <2>1. \A e \in Deliveries : OnHeap(e)' => OnHeap(e)
    BY <1>23 DEF FlushPop, OnHeap, SchedulerTypes
  <2>2. OnHeap(d)
    BY <1>23 DEF FlushPop, OnHeap, SchedulerTypes
  <2>3. QED
    BY <1>23, <1>kept, <2>1, <2>2 DEF FlushPop, TasksMove, Held, InCall, InQueue, InWork
<1>24. CASE FlushDone
  BY <1>24, <1>same DEF FlushDone
<1>25. CASE RequeueOK
  <2>1. \A e \in Deliveries : e \in Range(queue') <=> e \in Range(queue) \/ e = hand
    BY <1>25, HandTask, AppendQueue DEF RequeueOK, IInv, OneTask, OnePlace
  <2>2. QED
    BY <1>25, <1>kept, <2>1 DEF RequeueOK, TasksMove, Held, InCall, InQueue, InWork, OnHeap
<1>26. CASE RequeueFails
  <2>1. hand \in Deliveries /\ Held(hand)
    BY <1>26, HandTask DEF RequeueFails, Held
  <2>2. \A e \in Deliveries : e = hand => ~Held(e)'
    BY <1>26, <2>1 DEF RequeueFails, Held, InCall, InQueue, InWork, OnHeap, IInv, OneTask, OnePlace
  <2>3. QED
    BY <1>26, <1>kept, <2>1, <2>2 DEF RequeueFails, TasksMove, Held, InCall, InQueue, InWork, OnHeap,
       ServiceTypes
<1>27. ASSUME NEW d \in Deliveries, Elapse(d)
      PROVE TasksMove
  <2>1. \A e \in Deliveries : OnHeap(e)' => OnHeap(e)
    BY <1>27 DEF Elapse, OnHeap, SchedulerTypes
  <2>2. QED
    BY <1>27, <1>kept, <2>1 DEF Elapse, TasksMove, Held, InCall, InQueue, InWork
<1>28. CASE Start
  BY <1>28, <1>same DEF Start
<1>29. CASE Stop
  BY <1>29, <1>same DEF Stop
<1>30. CASE UNCHANGED vars
  BY <1>30, <1>same
<1>31. QED
  BY <1>1, <1>2, <1>3, <1>4, <1>5, <1>6, <1>7, <1>8, <1>9, <1>10, <1>11, <1>12, <1>13, <1>14,
     <1>15, <1>16, <1>17, <1>18, <1>19, <1>20, <1>21, <1>22, <1>23, <1>24, <1>25, <1>26, <1>27,
     <1>28, <1>29, <1>30
  DEF Next, CallerStep, WorkerStep, HandleTask, SchedulerStep

LEMMA RefusedInvStep == IInv /\ RefusedInv /\ [Next]_vars => RefusedInv'
<1> SUFFICES ASSUME IInv, RefusedInv, [Next]_vars, NEW d \in Deliveries, lost'[d] = "replay"
             PROVE  (deliveries[d] # NoDelivery /\ ~Held(d))'
  BY DEF RefusedInv
<1>1. TasksMove
  BY TasksMoveStep
<1>2. CASE lost[d] = "replay"
  BY <1>1, <1>2 DEF TasksMove, RefusedInv
<1>3. CASE lost[d] # "replay"
  <2>1. Held(d) /\ ~Held(d)'
    BY <1>1, <1>3 DEF TasksMove
  <2>2. deliveries[d] # NoDelivery
    BY <2>1, HeldRecord DEF NoDelivery, Live
  <2>3. QED
    BY <1>1, <2>1, <2>2 DEF TasksMove
<1>4. QED
  BY <1>2, <1>3

LEMMA OneMore ==
  ASSUME NEW S, S \subseteq Deliveries, NEW d \in Deliveries, d \notin S
  PROVE  Cardinality(S) \in Nat /\ Cardinality(S \cup {d}) = Cardinality(S) + 1
<1>1. IsFiniteSet(S)
  BY FiniteAssumption, FS_Subset
<1>2. QED
  BY <1>1, FS_CardinalityType, FS_AddElement

(* Every call counts its delivery once: when Enqueue has answered.         *)
LEMMA EnqueuesStep == IInv /\ RefusedInv /\ EnqueuesBalance /\ [Next]_vars => EnqueuesBalance'
<1> SUFFICES ASSUME IInv, RefusedInv, EnqueuesBalance, [Next]_vars PROVE EnqueuesBalance'
  OBVIOUS
<1> USE DEF store, scheduler, worker, caller, lifecycle, history, vars
<1>type. /\ StoreTypes /\ CallerTypes /\ CallerInv /\ DomainAssumption
         /\ metrics \in [MetricNames -> Nat]
         /\ lost \in [Deliveries -> {"no", "trigger", "replay", "target", "flush"}]
  BY DomainAssumption DEF IInv, TypeOK, ServiceTypes
<1>same. ASSUME Booked' = Booked, metrics'["enqueued"] = metrics["enqueued"],
                metrics'["dropped"] = metrics["dropped"]
         PROVE  EnqueuesBalance'
  BY <1>same DEF EnqueuesBalance
<1>more. ASSUME NEW d \in Deliveries, d \notin Booked, Booked' = Booked \cup {d},
                \/ /\ metrics'["enqueued"] = metrics["enqueued"] + 1
                   /\ metrics'["dropped"] = metrics["dropped"]
                \/ /\ metrics'["enqueued"] = metrics["enqueued"]
                   /\ metrics'["dropped"] = metrics["dropped"] + 1
         PROVE  EnqueuesBalance'
  <2>1. Cardinality(Booked) \in Nat /\ Cardinality(Booked \cup {d}) = Cardinality(Booked) + 1
    BY <1>more, OneMore DEF Booked
  <2>2. metrics["enqueued"] \in Nat /\ metrics["dropped"] \in Nat
    BY <1>type DEF MetricNames
  <2> HIDE DEF Booked
  <2>3. QED
    BY <1>more, <2>1, <2>2 DEF EnqueuesBalance
<1>kept. ASSUME UNCHANGED <<deliveries, lost, ctask>> PROVE Booked' = Booked
  BY <1>kept DEF Booked
<1>1. ASSUME NEW t \in Targets, NEW s \in Settings, CreateTarget(t, s)
      PROVE EnqueuesBalance'
  BY <1>1, <1>same, <1>kept DEF CreateTarget
<1>2. ASSUME NEW t \in Targets, NEW s \in Settings, UpdateTarget(t, s)
      PROVE EnqueuesBalance'
  BY <1>2, <1>same, <1>kept DEF UpdateTarget
<1>3. ASSUME NEW c \in Callers, NEW e \in EventTypes, NEW p \in BOOLEAN, TriggerEvent(c, e, p)
      PROVE EnqueuesBalance'
  BY <1>3, <1>same, <1>kept DEF TriggerEvent
<1>4. ASSUME NEW c \in Callers, NEW t \in Targets, NEW d \in Deliveries, CreateDelivery(c, t, d)
      PROVE EnqueuesBalance'
  <2>1. /\ ctask' = [ctask EXCEPT ![c] = d] /\ ctask[c] = NoTask
        /\ deliveries[d] = NoDelivery /\ lost' = lost
    BY <1>4, <1>type DEF CreateDelivery, CallerInv, CallerTypes
  <2>2. \A e \in Deliveries : d # e => deliveries'[e] = deliveries[e]
    BY <1>4, <1>type DEF CreateDelivery, StoreTypes
  <2>3. \A e \in Deliveries : e \in Booked' <=> e \in Booked
    BY <1>type, <2>1, <2>2 DEF Booked, CallerTypes
  <2>4. Booked' = Booked
    BY <2>3 DEF Booked
  <2>5. QED
    BY <1>4, <1>same, <2>4 DEF CreateDelivery
<1>5. ASSUME NEW c \in Callers, NEW old \in Deliveries, NEW d \in Deliveries, ReplayDelivery(c, old, d)
      PROVE EnqueuesBalance'
  <2>1. /\ ctask' = [ctask EXCEPT ![c] = d] /\ ctask[c] = NoTask
        /\ deliveries[d] = NoDelivery /\ lost' = lost
    BY <1>5, <1>type DEF ReplayDelivery, CallerInv, CallerTypes
  <2>2. \A e \in Deliveries : d # e => deliveries'[e] = deliveries[e]
    BY <1>5, <1>type DEF ReplayDelivery, StoreTypes
  <2>3. \A e \in Deliveries : e \in Booked' <=> e \in Booked
    BY <1>type, <2>1, <2>2 DEF Booked, CallerTypes
  <2>4. Booked' = Booked
    BY <2>3 DEF Booked
  <2>5. QED
    BY <1>5, <1>same, <2>4 DEF ReplayDelivery
<1>6. ASSUME NEW c \in Callers, EnqueueOK(c)
      PROVE EnqueuesBalance'
  <2>1. /\ ctask[c] \in Deliveries /\ ctask[c] \notin Booked
        /\ deliveries[ctask[c]] # NoDelivery /\ lost[ctask[c]] # "replay"
    BY <1>6, <1>type, CallerTask, HeldRecord DEF EnqueueOK, Booked, NoDelivery, Live, RefusedInv
  <2>2. /\ ctask' = [ctask EXCEPT ![c] = NoTask]
        /\ \A b \in Callers \ {c} : ctask[b] # ctask[c]
    BY <1>6, <2>1, <1>type DEF EnqueueOK, CallContinues, IInv, OneTask, OncePerPlace
  <2>3. \A e \in Deliveries : (\A b \in Callers : ctask'[b] # e) <=>
                              (\A b \in Callers : ctask[b] # e) \/ e = ctask[c]
    BY <2>1, <2>2, <1>type DEF CallerTypes
  <2>4. Booked' = Booked \cup {ctask[c]}
    BY <1>6, <2>1, <2>3 DEF EnqueueOK, Booked
  <2>5. /\ metrics'["enqueued"] = metrics["enqueued"] + 1
        /\ metrics'["dropped"] = metrics["dropped"]
    BY <1>6, <1>type DEF EnqueueOK, MetricNames
  <2>6. QED
    BY <1>more, <2>1, <2>4, <2>5
<1>7. ASSUME NEW c \in Callers, EnqueueFails(c)
      PROVE EnqueuesBalance'
  <2>1. /\ ctask[c] \in Deliveries /\ ctask[c] \notin Booked
        /\ deliveries[ctask[c]] # NoDelivery /\ lost[ctask[c]] # "replay"
    BY <1>7, <1>type, CallerTask, HeldRecord DEF EnqueueFails, Booked, NoDelivery, Live, RefusedInv
  <2>2. /\ ctask' = [ctask EXCEPT ![c] = NoTask]
        /\ \A b \in Callers \ {c} : ctask[b] # ctask[c]
    BY <1>7, <2>1, <1>type DEF EnqueueFails, CallContinues, IInv, OneTask, OncePerPlace
  <2>3. \A e \in Deliveries : (\A b \in Callers : ctask'[b] # e) <=>
                              (\A b \in Callers : ctask[b] # e) \/ e = ctask[c]
    BY <2>1, <2>2, <1>type DEF CallerTypes
  <2>4. cop[c] \in {"trigger", "replay"} /\ lost' = [lost EXCEPT ![ctask[c]] = cop[c]]
    BY <1>7, CallerTask DEF EnqueueFails
  <2>5. CASE cop[c] = "trigger"
    <3>1. lost'[ctask[c]] = "trigger" /\ \A e \in Deliveries : e # ctask[c] => lost'[e] = lost[e]
      BY <2>1, <2>4, <2>5, <1>type
    <3>2. Booked' = Booked \cup {ctask[c]}
      BY <1>7, <2>1, <2>3, <3>1 DEF EnqueueFails, Booked
    <3>3. /\ metrics'["enqueued"] = metrics["enqueued"]
          /\ metrics'["dropped"] = metrics["dropped"] + 1
      BY <1>7, <2>5, <1>type DEF EnqueueFails, MetricNames
    <3>4. QED
      BY <1>more, <2>1, <3>2, <3>3
  <2>6. CASE cop[c] = "replay"
    <3>1. lost'[ctask[c]] = "replay" /\ \A e \in Deliveries : e # ctask[c] => lost'[e] = lost[e]
      BY <2>1, <2>4, <2>6, <1>type
    <3>2. Booked' = Booked
      BY <1>7, <2>1, <2>3, <3>1 DEF EnqueueFails, Booked
    <3>3. QED
      BY <1>7, <2>6, <1>same, <3>2 DEF EnqueueFails
  <2>7. QED
    BY <2>4, <2>5, <2>6
<1>8. ASSUME NEW w \in Workers, TakeTask(w)
      PROVE EnqueuesBalance'
  BY <1>8, <1>same, <1>kept DEF TakeTask
<1>9. ASSUME NEW w \in Workers, WorkerExit(w)
      PROVE EnqueuesBalance'
  BY <1>9, <1>same, <1>kept DEF WorkerExit
<1>10. ASSUME NEW w \in Workers, LoadDelivery(w)
      PROVE EnqueuesBalance'
  BY <1>10, <1>same, <1>kept DEF LoadDelivery
<1>11. ASSUME NEW w \in Workers, SkipTask(w)
      PROVE EnqueuesBalance'
  <2>1. wtask[w] \in Deliveries /\ lost[wtask[w]] # "replay"
    BY <1>11, WorkerTask DEF SkipTask, RefusedInv
  <2>2. Booked' = Booked
    BY <1>11, <2>1, <1>type DEF SkipTask, Booked
  <2>3. QED
    BY <1>11, <1>same, <2>2 DEF SkipTask
<1>12. ASSUME NEW w \in Workers, LoadTarget(w)
      PROVE EnqueuesBalance'
  BY <1>12, <1>same, <1>kept DEF LoadTarget
<1>13. ASSUME NEW w \in Workers, BuryEmpty(w)
      PROVE EnqueuesBalance'
  <2>1. /\ wtask[w] \in Deliveries /\ deliveries[wtask[w]] \in DeliveryRecord
        /\ wattempt[w] + 1 \in Nat
        /\ "dead" \in Live \cup Terminal
    BY <1>13, WorkerTask DEF BuryEmpty, IInv, TypeOK, WorkerTypes, WorkerInv, Live, Terminal
  <2>2. /\ \A e \in Deliveries \ {wtask[w]} : deliveries'[e] = deliveries[e]
        /\ deliveries'[wtask[w]].status \in Live \cup Terminal
    BY <1>13, <2>1, UpdateOne DEF BuryEmpty
  <2>3. deliveries[wtask[w]] # NoDelivery /\ deliveries'[wtask[w]] # NoDelivery
    BY <2>1, <2>2 DEF DeliveryRecord, NoDelivery, Live, Terminal
  <2>4. Booked' = Booked
    BY <1>13, <2>2, <2>3 DEF BuryEmpty, Booked
  <2>5. QED
    BY <1>13, <1>type, <1>same, <2>4 DEF BuryEmpty, MetricNames
<1>14. ASSUME NEW w \in Workers, NEW r \in Responses, SendOnce(w, r)
      PROVE EnqueuesBalance'
  <2>1. metrics'["enqueued"] = metrics["enqueued"] /\ metrics'["dropped"] = metrics["dropped"]
    BY <1>14, <1>type DEF SendOnce, MetricNames, Verdict
  <2>2. QED
    BY <1>14, <1>same, <1>kept, <2>1 DEF SendOnce
<1>15. ASSUME NEW w \in Workers, StoreFinal(w)
      PROVE EnqueuesBalance'
  <2>1. /\ wtask[w] \in Deliveries /\ deliveries[wtask[w]] \in DeliveryRecord
        /\ wattempt[w] + 1 \in Nat
        /\ wverdict[w] \in Live \cup Terminal
    BY <1>15, WorkerTask DEF StoreFinal, IInv, TypeOK, WorkerTypes, WorkerInv, Live, Terminal
  <2>2. /\ \A e \in Deliveries \ {wtask[w]} : deliveries'[e] = deliveries[e]
        /\ deliveries'[wtask[w]].status \in Live \cup Terminal
    BY <1>15, <2>1, UpdateOne DEF StoreFinal
  <2>3. deliveries[wtask[w]] # NoDelivery /\ deliveries'[wtask[w]] # NoDelivery
    BY <2>1, <2>2 DEF DeliveryRecord, NoDelivery, Live, Terminal
  <2>4. Booked' = Booked
    BY <1>15, <2>2, <2>3 DEF StoreFinal, Booked
  <2>5. QED
    BY <1>15, <1>type, <1>same, <2>4 DEF StoreFinal, MetricNames
<1>16. ASSUME NEW w \in Workers, StoreRetry(w)
      PROVE EnqueuesBalance'
  <2>1. /\ wtask[w] \in Deliveries /\ deliveries[wtask[w]] \in DeliveryRecord
        /\ wattempt[w] + 1 \in Nat
        /\ "retrying" \in Live \cup Terminal
    BY <1>16, WorkerTask DEF StoreRetry, IInv, TypeOK, WorkerTypes, WorkerInv, Live, Terminal
  <2>2. /\ \A e \in Deliveries \ {wtask[w]} : deliveries'[e] = deliveries[e]
        /\ deliveries'[wtask[w]].status \in Live \cup Terminal
    BY <1>16, <2>1, UpdateOne DEF StoreRetry
  <2>3. deliveries[wtask[w]] # NoDelivery /\ deliveries'[wtask[w]] # NoDelivery
    BY <2>1, <2>2 DEF DeliveryRecord, NoDelivery, Live, Terminal
  <2>4. Booked' = Booked
    BY <1>16, <2>2, <2>3 DEF StoreRetry, Booked
  <2>5. QED
    BY <1>16, <1>type, <1>same, <2>4 DEF StoreRetry, MetricNames
<1>17. ASSUME NEW w \in Workers, SchedulePush(w)
      PROVE EnqueuesBalance'
  BY <1>17, <1>same, <1>kept DEF SchedulePush
<1>18. ASSUME NEW w \in Workers, ScheduleWake(w)
      PROVE EnqueuesBalance'
  BY <1>18, <1>same, <1>kept DEF ScheduleWake
<1>19. CASE NextWait
  BY <1>19, <1>same, <1>kept DEF NextWait
<1>20. CASE SelectWake
  BY <1>20, <1>same, <1>kept DEF SelectWake
<1>21. CASE SelectTimer
  BY <1>21, <1>same, <1>kept DEF SelectTimer
<1>22. CASE SelectDone
  BY <1>22, <1>same, <1>kept DEF SelectDone
<1>23. ASSUME NEW d \in Deliveries, FlushPop(d)
      PROVE EnqueuesBalance'
  BY <1>23, <1>same, <1>kept DEF FlushPop
<1>24. CASE FlushDone
  BY <1>24, <1>same, <1>kept DEF FlushDone
<1>25. CASE RequeueOK
  BY <1>25, <1>same, <1>kept DEF RequeueOK
<1>26. CASE RequeueFails
  <2>1. hand \in Deliveries /\ lost[hand] # "replay"
    BY <1>26, HandTask DEF RequeueFails, RefusedInv, Held
  <2>2. Booked' = Booked
    BY <1>26, <2>1, <1>type DEF RequeueFails, Booked
  <2>3. QED
    BY <1>26, <1>same, <2>2 DEF RequeueFails
<1>27. ASSUME NEW d \in Deliveries, Elapse(d)
      PROVE EnqueuesBalance'
  BY <1>27, <1>same, <1>kept DEF Elapse
<1>28. CASE Start
  BY <1>28, <1>same, <1>kept DEF Start
<1>29. CASE Stop
  BY <1>29, <1>same, <1>kept DEF Stop
<1>30. CASE UNCHANGED vars
  BY <1>30, <1>same, <1>kept
<1>31. QED
  BY <1>1, <1>2, <1>3, <1>4, <1>5, <1>6, <1>7, <1>8, <1>9, <1>10, <1>11, <1>12, <1>13, <1>14,
     <1>15, <1>16, <1>17, <1>18, <1>19, <1>20, <1>21, <1>22, <1>23, <1>24, <1>25, <1>26, <1>27,
     <1>28, <1>29, <1>30
  DEF Next, CallerStep, WorkerStep, HandleTask, SchedulerStep

(* A request that returns is counted with its outcome.                     *)
LEMMA SendOnceOutcome ==
  ASSUME IInv, OutcomesBalance, NEW w \in Workers, NEW r \in Responses, SendOnce(w, r)
  PROVE  OutcomesBalance'
<1> DEFINE verdict == Verdict(r, wattempt[w] + 1, MaxRetries(wtarget[w]), RetriesOn429(wtarget[w]))
           d == wtask[w]
<1>1. /\ verdict \in Terminal \cup {"retrying"}
      /\ sends' = [sends EXCEPT ![d] = @ + 1]
      /\ metrics' =
           CASE verdict = "retrying" -> [metrics EXCEPT !["retried"] = @ + 1]
             [] verdict = "success" -> [metrics EXCEPT !["sentOK"] = @ + 1]
             [] verdict = "failed" -> [metrics EXCEPT !["sentFail"] = @ + 1]
             [] verdict = "dead" -> [metrics EXCEPT !["sentFail"] = @ + 1, !["dead"] = @ + 1]
  BY DEF SendOnce, Verdict, Terminal
<1>2. /\ wpc[w] = "send" /\ wpc' = [wpc EXCEPT ![w] = "store"]
      /\ wverdict' = [wverdict EXCEPT ![w] = verdict]
      /\ wtask' = wtask /\ deliveries' = deliveries
  BY DEF SendOnce, store
<1>type. /\ WorkerTypes /\ metrics \in [MetricNames -> Nat] /\ sends \in [Deliveries -> Nat]
         /\ d \in Deliveries /\ deliveries[d].status \in Live /\ deliveries[d].payload
  BY <1>2, WorkerTask DEF IInv, TypeOK, ServiceTypes, WorkerInv
<1> HIDE DEF verdict, d
<1>3. \A v \in Workers : wtask[v] = d => v = w
  BY <1>type, WorkersDiffer, DomainAssumption DEF d
<1>4. \A u \in Terminal : ~Ends(d, u)
  BY <1>2, <1>3, <1>type DEF Ends, Settling, Live, Terminal
<1>5. \A e \in Deliveries, u \in Terminal : Ends(e, u)' <=> Ends(e, u) \/ (e = d /\ u = verdict)
  BY <1>2, <1>type DEF Ends, Settling, WorkerTypes, d
<1>6. ASSUME NEW u \in Terminal
      PROVE  Ended(u)' = IF u = verdict THEN Ended(u) \cup {d} ELSE Ended(u)
  BY <1>5, <1>type DEF Ended
<1>7. Refused' = IF verdict \in {"failed", "dead"} THEN Refused \cup {d} ELSE Refused
  BY <1>2, <1>5, <1>type DEF Refused, Terminal
<1>8. /\ Sum(sends', Deliveries) = Sum(sends, Deliveries) + 1
      /\ Sum(sends, Deliveries) \in Int
  <2>1. /\ \A e \in Deliveries : sends[e] \in Int
        /\ sends'[d] = sends[d] + 1 /\ sends'[d] \in Int /\ sends'[d] - sends[d] = 1
        /\ \A e \in Deliveries : e # d => sends'[e] = sends[e]
    BY <1>1, <1>type
  <2>2. QED
    BY <2>1, <1>type, FiniteAssumption, SumChange
<1>9. /\ \A u \in Terminal : /\ Cardinality(Ended(u)) \in Nat
                               /\ Cardinality(Ended(u) \cup {d}) = Cardinality(Ended(u)) + 1
      /\ Cardinality(Refused) \in Nat /\ Cardinality(Refused \cup {d}) = Cardinality(Refused) + 1
  <2>1. \A u \in Terminal : Ended(u) \subseteq Deliveries /\ d \notin Ended(u)
    BY <1>4 DEF Ended
  <2>2. Refused \subseteq Deliveries /\ d \notin Refused
    BY <1>4 DEF Refused, Terminal
  <2>3. QED
    BY <2>1, <2>2, <1>type, OneMore
<1>10. \A m \in MetricNames : metrics[m] \in Nat
  BY <1>type
<1>11. CASE verdict = "retrying"
  <2>1. /\ metrics'["retried"] = metrics["retried"] + 1 /\ metrics'["dead"] = metrics["dead"]
        /\ metrics'["sentOK"] = metrics["sentOK"] /\ metrics'["sentFail"] = metrics["sentFail"]
    BY <1>1, <1>11, <1>type DEF MetricNames
  <2>2. \A u \in Terminal : Ended(u)' = Ended(u)
    BY <1>6, <1>11 DEF Terminal
  <2>3. QED
    BY <1>7, <1>8, <1>9, <1>10, <1>11, <2>1, <2>2 DEF OutcomesBalance, MetricNames, Terminal
<1>12. CASE verdict = "success"
  <2>1. /\ metrics'["sentOK"] = metrics["sentOK"] + 1 /\ metrics'["dead"] = metrics["dead"]
        /\ metrics'["retried"] = metrics["retried"] /\ metrics'["sentFail"] = metrics["sentFail"]
    BY <1>1, <1>12, <1>type DEF MetricNames
  <2>2. Ended("success")' = Ended("success") \cup {d} /\ Ended("dead")' = Ended("dead")
    BY <1>6, <1>12 DEF Terminal
  <2>3. Refused' = Refused
    BY <1>7, <1>12
  <2>4. /\ Cardinality(Ended("success")) \in Nat
        /\ Cardinality(Ended("success") \cup {d}) = Cardinality(Ended("success")) + 1
    BY <1>9 DEF Terminal
  <2>5. metrics'["sentOK"] = Cardinality(Ended("success")')
    BY <1>10, <2>1, <2>2, <2>4 DEF OutcomesBalance, MetricNames
  <2>6. metrics'["dead"] = Cardinality(Ended("dead")')
    BY <1>10, <2>1, <2>2, <2>4 DEF OutcomesBalance, MetricNames
  <2>7. metrics'["sentFail"] = Cardinality(Refused')
    BY <1>9, <1>10, <2>1, <2>3 DEF OutcomesBalance, MetricNames
  <2>8. metrics'["retried"] + metrics'["sentOK"] + metrics'["sentFail"] = Sum(sends', Deliveries)
    BY <1>8, <1>10, <2>1 DEF OutcomesBalance, MetricNames
  <2>9. QED
    BY <2>5, <2>6, <2>7, <2>8 DEF OutcomesBalance
<1>13. CASE verdict = "failed"
  <2>1. /\ metrics'["sentFail"] = metrics["sentFail"] + 1 /\ metrics'["dead"] = metrics["dead"]
        /\ metrics'["retried"] = metrics["retried"] /\ metrics'["sentOK"] = metrics["sentOK"]
    BY <1>1, <1>13, <1>type DEF MetricNames
  <2>2. Ended("success")' = Ended("success") /\ Ended("dead")' = Ended("dead")
    BY <1>6, <1>13 DEF Terminal
  <2>3. Refused' = Refused \cup {d}
    BY <1>7, <1>13
  <2>4. QED
    BY <1>8, <1>9, <1>10, <2>1, <2>2, <2>3 DEF OutcomesBalance, MetricNames, Terminal
<1>14. CASE verdict = "dead"
  <2>1. /\ metrics'["sentFail"] = metrics["sentFail"] + 1 /\ metrics'["dead"] = metrics["dead"] + 1
        /\ metrics'["retried"] = metrics["retried"] /\ metrics'["sentOK"] = metrics["sentOK"]
    BY <1>1, <1>14, <1>type DEF MetricNames
  <2>2. Ended("success")' = Ended("success") /\ Ended("dead")' = Ended("dead") \cup {d}
    BY <1>6, <1>14 DEF Terminal
  <2>3. Refused' = Refused \cup {d}
    BY <1>7, <1>14
  <2>4. /\ Cardinality(Ended("dead")) \in Nat
        /\ Cardinality(Ended("dead") \cup {d}) = Cardinality(Ended("dead")) + 1
    BY <1>9 DEF Terminal
  <2>5. metrics'["sentOK"] = Cardinality(Ended("success")')
    BY <1>10, <2>1, <2>2, <2>4 DEF OutcomesBalance, MetricNames
  <2>6. metrics'["dead"] = Cardinality(Ended("dead")')
    BY <1>10, <2>1, <2>2, <2>4 DEF OutcomesBalance, MetricNames
  <2>7. metrics'["sentFail"] = Cardinality(Refused')
    BY <1>9, <1>10, <2>1, <2>3 DEF OutcomesBalance, MetricNames
  <2>8. metrics'["retried"] + metrics'["sentOK"] + metrics'["sentFail"] = Sum(sends', Deliveries)
    BY <1>8, <1>10, <2>1 DEF OutcomesBalance, MetricNames
  <2>9. QED
    BY <2>5, <2>6, <2>7, <2>8 DEF OutcomesBalance
<1>15. QED
  BY <1>1, <1>11, <1>12, <1>13, <1>14 DEF Terminal

(* A delivery without a payload ends without a request.                    *)
LEMMA BuryEmptyOutcome ==
  ASSUME IInv, OutcomesBalance, NEW w \in Workers, BuryEmpty(w)
  PROVE  OutcomesBalance'
<1> DEFINE d == wtask[w]
<1>1. /\ wpc[w] = "empty" /\ Return(w) /\ sends' = sends
      /\ UpdateDelivery(d, wattempt[w] + 1, "dead")
      /\ metrics' = [metrics EXCEPT !["dead"] = @ + 1]
  BY DEF BuryEmpty, history
<1>type. /\ WorkerTypes /\ metrics \in [MetricNames -> Nat]
         /\ d \in Deliveries /\ deliveries[d] \in DeliveryRecord
         /\ deliveries[d].status \in Live /\ ~deliveries[d].payload
         /\ wattempt[w] + 1 \in Nat
  BY <1>1, WorkerTask DEF IInv, TypeOK, ServiceTypes, WorkerInv, WorkerTypes
<1> HIDE DEF d
<1>2. /\ deliveries'[d].status = "dead" /\ ~deliveries'[d].payload
      /\ \A e \in Deliveries \ {d} : deliveries'[e] = deliveries[e]
  BY <1>1, <1>type, UpdateOne DEF Terminal
<1>3. \A v \in Workers : wtask[v] = d => v = w
  BY <1>type, WorkersDiffer, DomainAssumption DEF d
<1>4. \A u \in Terminal : ~Ends(d, u)
  BY <1>1, <1>3, <1>type DEF Ends, Settling, Live, Terminal
<1>5. \A e \in Deliveries, u \in Terminal : Settling(e, u)' <=> Settling(e, u)
  BY <1>1, <1>type DEF Return, Settling, WorkerTypes
<1>6. \A e \in Deliveries, u \in Terminal : Ends(e, u)' <=> Ends(e, u) \/ (e = d /\ u = "dead")
  <2>1. ASSUME NEW e \in Deliveries, NEW u \in Terminal, e # d PROVE Ends(e, u)' <=> Ends(e, u)
    BY <1>2, <1>5, <2>1 DEF Ends
  <2>2. ASSUME NEW e \in Deliveries, NEW u \in Terminal, e = d PROVE Ends(e, u)' <=> u = "dead"
    BY <1>2, <1>4, <1>5, <2>2 DEF Ends
  <2>3. QED
    BY <1>4, <2>1, <2>2
<1>7. /\ Ended("success")' = Ended("success") /\ Ended("dead")' = Ended("dead") \cup {d}
      /\ Refused' = Refused
  BY <1>2, <1>4, <1>6, <1>type DEF Ended, Refused, Terminal
<1>8. /\ Cardinality(Ended("dead")) \in Nat
      /\ Cardinality(Ended("dead") \cup {d}) = Cardinality(Ended("dead")) + 1
  BY <1>4, <1>type, OneMore DEF Ended, Terminal
<1>9. /\ metrics'["dead"] = metrics["dead"] + 1
      /\ metrics'["sentOK"] = metrics["sentOK"] /\ metrics'["sentFail"] = metrics["sentFail"]
      /\ metrics'["retried"] = metrics["retried"]
  BY <1>1, <1>type DEF MetricNames
<1>10. QED
  BY <1>1, <1>7, <1>8, <1>9 DEF OutcomesBalance

LEMMA OutcomesStep == IInv /\ OutcomesBalance /\ [Next]_vars => OutcomesBalance'
<1> SUFFICES ASSUME IInv, OutcomesBalance, [Next]_vars PROVE OutcomesBalance'
  OBVIOUS
<1> USE DEF store, scheduler, worker, caller, lifecycle, history, vars
<1>type. StoreTypes /\ WorkerTypes /\ metrics \in [MetricNames -> Nat]
  BY DEF IInv, TypeOK, ServiceTypes
<1>same. ASSUME \A d \in Deliveries, u \in Terminal : Ends(d, u)' <=> Ends(d, u),
                \A d \in Deliveries : Ends(d, "dead") => deliveries'[d].payload = deliveries[d].payload,
                \A m \in {"sentOK", "sentFail", "retried", "dead"} : metrics'[m] = metrics[m],
                sends' = sends
         PROVE  OutcomesBalance'
  <2>1. \A u \in Terminal : Ended(u)' = Ended(u)
    BY <1>same DEF Ended
  <2>2. Refused' = Refused
    BY <1>same DEF Refused, Terminal
  <2>3. QED
    BY <1>same, <2>1, <2>2 DEF OutcomesBalance, Terminal
<1>idle. ASSUME UNCHANGED <<deliveries, metrics, sends>>,
                \A w \in Workers : wpc'[w] = "store" <=> wpc[w] = "store",
                \A w \in Workers : wpc[w] = "store" => wtask'[w] = wtask[w] /\ wverdict'[w] = wverdict[w]
         PROVE  OutcomesBalance'
  <2>1. \A d \in Deliveries, u \in Terminal : Settling(d, u)' <=> Settling(d, u)
    BY <1>idle DEF Settling
  <2>2. \A d \in Deliveries, u \in Terminal : Ends(d, u)' <=> Ends(d, u)
    BY <1>idle, <2>1 DEF Ends
  <2>3. QED
    BY <1>idle, <1>same, <2>2
<1>call. ASSUME UNCHANGED worker PROVE \A d \in Deliveries, u \in Terminal : Settling(d, u)' <=> Settling(d, u)
  BY <1>call DEF Settling
<1>1. ASSUME NEW t \in Targets, NEW s \in Settings, CreateTarget(t, s)
      PROVE OutcomesBalance'
  BY <1>1, <1>idle DEF CreateTarget
<1>2. ASSUME NEW t \in Targets, NEW s \in Settings, UpdateTarget(t, s)
      PROVE OutcomesBalance'
  BY <1>2, <1>idle DEF UpdateTarget
<1>3. ASSUME NEW c \in Callers, NEW e \in EventTypes, NEW p \in BOOLEAN, TriggerEvent(c, e, p)
      PROVE OutcomesBalance'
  BY <1>3, <1>idle DEF TriggerEvent
<1>4. ASSUME NEW c \in Callers, NEW t \in Targets, NEW d \in Deliveries, CreateDelivery(c, t, d)
      PROVE OutcomesBalance'
  <2>1. /\ deliveries[d] = NoDelivery /\ deliveries'[d].status = "pending"
        /\ \A e \in Deliveries \ {d} : deliveries'[e] = deliveries[e]
        /\ UNCHANGED <<worker, metrics, sends>>
    BY <1>4, <1>type DEF CreateDelivery, NewDelivery, StoreTypes
  <2>2. \A u \in Terminal : ~Ends(d, u) /\ deliveries'[d].status # u
    <3>1. ~InWork(d)
      BY <2>1, FreshTask DEF Held
    <3>2. QED
      BY <2>1, <3>1 DEF Ends, Settling, InWork, NoDelivery, Terminal
  <2>3. \A e \in Deliveries, u \in Terminal : Ends(e, u)' <=> Ends(e, u)
    BY <2>1, <2>2, <1>call DEF Ends
  <2>4. \A e \in Deliveries : Ends(e, "dead") => deliveries'[e].payload = deliveries[e].payload
    BY <2>1, <2>2 DEF Terminal
  <2>5. QED
    BY <2>1, <2>3, <2>4, <1>same
<1>5. ASSUME NEW c \in Callers, NEW old \in Deliveries, NEW d \in Deliveries, ReplayDelivery(c, old, d)
      PROVE OutcomesBalance'
  <2>1. /\ deliveries[d] = NoDelivery /\ deliveries'[d].status = "pending"
        /\ \A e \in Deliveries \ {d} : deliveries'[e] = deliveries[e]
        /\ UNCHANGED <<worker, metrics, sends>>
    BY <1>5, <1>type DEF ReplayDelivery, NewDelivery, StoreTypes
  <2>2. \A u \in Terminal : ~Ends(d, u) /\ deliveries'[d].status # u
    <3>1. ~InWork(d)
      BY <2>1, FreshTask DEF Held
    <3>2. QED
      BY <2>1, <3>1 DEF Ends, Settling, InWork, NoDelivery, Terminal
  <2>3. \A e \in Deliveries, u \in Terminal : Ends(e, u)' <=> Ends(e, u)
    BY <2>1, <2>2, <1>call DEF Ends
  <2>4. \A e \in Deliveries : Ends(e, "dead") => deliveries'[e].payload = deliveries[e].payload
    BY <2>1, <2>2 DEF Terminal
  <2>5. QED
    BY <2>1, <2>3, <2>4, <1>same
<1>6. ASSUME NEW c \in Callers, EnqueueOK(c)
      PROVE OutcomesBalance'
  <2>1. \A m \in {"sentOK", "sentFail", "retried", "dead"} : metrics'[m] = metrics[m]
    BY <1>6, <1>type DEF EnqueueOK, MetricNames
  <2>2. UNCHANGED <<deliveries, sends, worker>>
    BY <1>6 DEF EnqueueOK
  <2>3. \A d \in Deliveries, u \in Terminal : Ends(d, u)' <=> Ends(d, u)
    BY <2>2, <1>call DEF Ends
  <2>4. QED
    BY <2>1, <2>2, <2>3, <1>same
<1>7. ASSUME NEW c \in Callers, EnqueueFails(c)
      PROVE OutcomesBalance'
  <2>1. \A m \in {"sentOK", "sentFail", "retried", "dead"} : metrics'[m] = metrics[m]
    BY <1>7, <1>type DEF EnqueueFails, MetricNames
  <2>2. UNCHANGED <<deliveries, sends, worker>>
    BY <1>7 DEF EnqueueFails
  <2>3. \A d \in Deliveries, u \in Terminal : Ends(d, u)' <=> Ends(d, u)
    BY <2>2, <1>call DEF Ends
  <2>4. QED
    BY <2>1, <2>2, <2>3, <1>same
<1>8. ASSUME NEW w \in Workers, TakeTask(w)
      PROVE OutcomesBalance'
  BY <1>8, <1>idle, <1>type DEF TakeTask, WorkerTypes
<1>9. ASSUME NEW w \in Workers, WorkerExit(w)
      PROVE OutcomesBalance'
  BY <1>9, <1>idle, <1>type DEF WorkerExit, WorkerTypes
<1>10. ASSUME NEW w \in Workers, LoadDelivery(w)
      PROVE OutcomesBalance'
  BY <1>10, <1>idle, <1>type DEF LoadDelivery, WorkerTypes
<1>11. ASSUME NEW w \in Workers, SkipTask(w)
      PROVE OutcomesBalance'
  BY <1>11, <1>idle, <1>type DEF SkipTask, Return, WorkerTypes
<1>12. ASSUME NEW w \in Workers, LoadTarget(w)
      PROVE OutcomesBalance'
  BY <1>12, <1>idle, <1>type DEF LoadTarget, WorkerTypes
<1>13. ASSUME NEW w \in Workers, BuryEmpty(w)
      PROVE OutcomesBalance'
  BY <1>13, BuryEmptyOutcome
<1>14. ASSUME NEW w \in Workers, NEW r \in Responses, SendOnce(w, r)
      PROVE OutcomesBalance'
  BY <1>14, SendOnceOutcome
<1>15. ASSUME NEW w \in Workers, StoreFinal(w)
      PROVE OutcomesBalance'
  <2>1. /\ wtask[w] \in Deliveries /\ deliveries[wtask[w]] \in DeliveryRecord
        /\ deliveries[wtask[w]].status \in Live
        /\ wattempt[w] + 1 \in Nat /\ wverdict[w] \in Live \cup Terminal
    BY <1>15, WorkerTask DEF StoreFinal, IInv, TypeOK, WorkerTypes, WorkerInv, Live, Terminal
  <2>2. /\ \A e \in Deliveries \ {wtask[w]} : deliveries'[e] = deliveries[e]
        /\ deliveries'[wtask[w]].status = wverdict[w]
        /\ deliveries'[wtask[w]].payload = deliveries[wtask[w]].payload
    BY <1>15, <2>1, UpdateOne DEF StoreFinal
  <2>3. \A v \in Workers : wtask[v] = wtask[w] => v = w
    BY <2>1, WorkersDiffer, DomainAssumption
  <2>4. \A e \in Deliveries, u \in Terminal : Settling(e, u)' <=> Settling(e, u) /\ e # wtask[w]
    BY <1>15, <2>3, <1>type DEF StoreFinal, Return, Settling, WorkerTypes, Terminal
  <2>5. \A u \in Terminal : Ends(wtask[w], u) <=> u = wverdict[w]
    BY <1>15, <2>1, <2>3 DEF StoreFinal, Ends, Settling, Live, Terminal
  <2>6. \A e \in Deliveries, u \in Terminal : Ends(e, u)' <=> Ends(e, u)
    BY <2>2, <2>4, <2>5 DEF Ends
  <2>7. QED
    BY <1>15, <2>2, <2>6, <1>same DEF StoreFinal
<1>16. ASSUME NEW w \in Workers, StoreRetry(w)
      PROVE OutcomesBalance'
  <2>1. /\ wtask[w] \in Deliveries /\ deliveries[wtask[w]] \in DeliveryRecord
        /\ deliveries[wtask[w]].status \in Live
        /\ wattempt[w] + 1 \in Nat /\ "retrying" \in Live \cup Terminal
    BY <1>16, WorkerTask DEF StoreRetry, IInv, TypeOK, WorkerTypes, WorkerInv, Live, Terminal
  <2>2. /\ \A e \in Deliveries \ {wtask[w]} : deliveries'[e] = deliveries[e]
        /\ deliveries'[wtask[w]].status = "retrying"
        /\ deliveries'[wtask[w]].payload = deliveries[wtask[w]].payload
    BY <1>16, <2>1, UpdateOne DEF StoreRetry
  <2>3. \A v \in Workers : wtask[v] = wtask[w] => v = w
    BY <2>1, WorkersDiffer, DomainAssumption
  <2>4. \A e \in Deliveries, u \in Terminal : Settling(e, u)' <=> Settling(e, u) /\ e # wtask[w]
    BY <1>16, <2>3, <1>type DEF StoreRetry, Settling, WorkerTypes, Terminal
  <2>5. \A u \in Terminal : Ends(wtask[w], u) <=> u = "retrying"
    BY <1>16, <2>1, <2>3 DEF StoreRetry, Ends, Settling, Live, Terminal
  <2>6. \A e \in Deliveries, u \in Terminal : Ends(e, u)' <=> Ends(e, u)
    BY <2>2, <2>4, <2>5 DEF Ends
  <2>7. QED
    BY <1>16, <2>2, <2>6, <1>same DEF StoreRetry
<1>17. ASSUME NEW w \in Workers, SchedulePush(w)
      PROVE OutcomesBalance'
  BY <1>17, <1>idle, <1>type DEF SchedulePush, WorkerTypes
<1>18. ASSUME NEW w \in Workers, ScheduleWake(w)
      PROVE OutcomesBalance'
  BY <1>18, <1>idle, <1>type DEF ScheduleWake, Return, WorkerTypes
<1>19. CASE NextWait
  BY <1>19, <1>idle DEF NextWait
<1>20. CASE SelectWake
  BY <1>20, <1>idle DEF SelectWake
<1>21. CASE SelectTimer
  BY <1>21, <1>idle DEF SelectTimer
<1>22. CASE SelectDone
  BY <1>22, <1>idle DEF SelectDone
<1>23. ASSUME NEW d \in Deliveries, FlushPop(d)
      PROVE OutcomesBalance'
  BY <1>23, <1>idle DEF FlushPop
<1>24. CASE FlushDone
  BY <1>24, <1>idle DEF FlushDone
<1>25. CASE RequeueOK
  BY <1>25, <1>idle DEF RequeueOK
<1>26. CASE RequeueFails
  BY <1>26, <1>idle DEF RequeueFails
<1>27. ASSUME NEW d \in Deliveries, Elapse(d)
      PROVE OutcomesBalance'
  BY <1>27, <1>idle DEF Elapse
<1>28. CASE Start
  BY <1>28, <1>idle, <1>type DEF Start, WorkerTypes, IInv, LifecycleInv
<1>29. CASE Stop
  BY <1>29, <1>idle DEF Stop
<1>30. CASE UNCHANGED vars
  BY <1>30, <1>idle
<1>31. QED
  BY <1>1, <1>2, <1>3, <1>4, <1>5, <1>6, <1>7, <1>8, <1>9, <1>10, <1>11, <1>12, <1>13, <1>14,
     <1>15, <1>16, <1>17, <1>18, <1>19, <1>20, <1>21, <1>22, <1>23, <1>24, <1>25, <1>26, <1>27,
     <1>28, <1>29, <1>30
  DEF Next, CallerStep, WorkerStep, HandleTask, SchedulerStep

(* The metrics balance, for any number of workers, callers and deliveries: *)
(* no interleaving of calls, workers and the scheduler counts an enqueue,  *)
(* a request or an outcome twice or forgets one.                           *)
THEOREM MetricsBalanceAlways == Spec => []MetricsBalance
<1> DEFINE Books == RefusedInv /\ EnqueuesBalance /\ OutcomesBalance
<1>1. Init => Books
  <2> SUFFICES ASSUME Init PROVE Books
    OBVIOUS
  <2>1. Booked = {} /\ Refused = {} /\ \A u \in Terminal : Ended(u) = {}
    BY DEF Init, Booked, Refused, Ended, Ends, Settling, NoDelivery, Terminal
  <2>2. \A m \in MetricNames : metrics[m] = 0
    BY DEF Init
  <2>3. Sum(sends, Deliveries) = 0
    <3>1. \A d \in Deliveries : sends[d] = 0
      BY DEF Init
    <3>2. QED
      BY <3>1, FiniteAssumption, SumZero
  <2>4. RefusedInv
    BY DEF Init, RefusedInv
  <2>5. EnqueuesBalance /\ OutcomesBalance
    BY <2>1, <2>2, <2>3, FS_EmptySet DEF EnqueuesBalance, OutcomesBalance, MetricNames, Terminal
  <2>6. QED
    BY <2>4, <2>5
<1>2. IInv /\ Books /\ [Next]_vars => Books'
  BY RefusedInvStep, EnqueuesStep, OutcomesStep
<1>3. Books => MetricsBalance
  BY BalanceParts
<1>4. QED
  BY <1>1, <1>2, <1>3, SpecIInv, PTL DEF Spec
=============================================================================
