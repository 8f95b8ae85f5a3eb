----------------------------- MODULE WebhookOut -----------------------------
(***************************************************************************)
(* The outbound webhook service (pkg/net/webhookout): API calls that store *)
(* deliveries and enqueue tasks, the bounded queue, the worker goroutines, *)
(* the delay scheduler that brings retries back, and the in-memory store.  *)
(*                                                                         *)
(* A Task is its DeliveryID.  Time is abstract: the delay heap counts, for *)
(* each delivery, the items whose time has come (due) and the others       *)
(* (notDue); Elapse lets the time of an item come.  An atomic metric is    *)
(* updated in the same step as the store call or queue operation next to   *)
(* it.  One Start and one Stop, as in main.go.                             *)
(***************************************************************************)
EXTENDS Integers, Sequences, FiniteSetsExt, RetryPolicy

CONSTANTS
    Targets, Deliveries, EventTypes,
    Workers,            \* the worker goroutines (cfg.Workers of them)
    Callers,            \* goroutines inside TriggerEvent or ReplayDelivery
    Settings,           \* the target settings API callers may store
    Responses,          \* what sendOnce may return
    QueueSize, DropPolicy, BlockWait, DefaultMaxRetries, RetryOn429,
    RetryCap,           \* bound on the MaxRetries of every setting
    NoTarget, NoTask

DropPolicies == {"drop_newest", "block_timeout", "fail_fast"}

(* The fields of a Target the service looks at.  "*" in Events is the set  *)
(* of all the event types; RetryOn429 is a pointer, nil is "default".      *)
TargetRecord ==
    [enabled : BOOLEAN, events : SUBSET EventTypes,
     maxRetries : {n \in Int : n <= RetryCap},
     retryOn429 : {"default", "yes", "no"}]

Live == {"pending", "retrying"}
Terminal == {"success", "failed", "dead"}

(* A key that is not in the store's map of deliveries.                     *)
NoDelivery == [status |-> "none", attempt |-> 0, target |-> NoTarget, payload |-> FALSE]

DeliveryRecord ==
    [status : Live \cup Terminal, attempt : Nat, target : Targets, payload : BOOLEAN]

MetricNames == {"enqueued", "dropped", "sentOK", "sentFail", "retried", "dead"}

ASSUME ConfigAssumption ==
    /\ QueueSize \in Nat \ {0}
    /\ DropPolicy \in DropPolicies
    /\ BlockWait \in Nat
    /\ RetryOn429 \in BOOLEAN
    /\ RetryCap \in Nat
    /\ DefaultMaxRetries \in Int /\ DefaultMaxRetries <= RetryCap

ASSUME DomainAssumption ==
    /\ \A s \in Settings : s \in TargetRecord
    /\ \A r \in Responses : r \in [err : BOOLEAN, status : Nat]
    /\ NoTarget \notin Targets /\ NoTarget \notin TargetRecord
    /\ NoTask \notin Deliveries

(* The ids of the deliveries a run creates: as many as the calls made.     *)
ASSUME FiniteAssumption == IsFiniteSet(Deliveries)

VARIABLES
    targets,            \* MemStore.targets, NoTarget where there is none
    deliveries,         \* MemStore.deliveries
    queue,              \* Queue.ch
    notDue, due,        \* DelayScheduler.h
    wake,               \* a token is in DelayScheduler.wake
    spc, timer, hand,   \* the scheduler goroutine: Run and flushDue
    wpc, wtask, wattempt, wtarget, wverdict,    \* workerLoop and handleTask
    cpc, ctask, ctodo, cop, cpayload,           \* TriggerEvent, ReplayDelivery
    running, ctxDone,   \* Service.running; the service context is cancelled
    metrics,            \* Service.metrics
    sends,              \* history: requests sent for each delivery
    lost                \* history: where the task of a delivery was given up

store == <<targets, deliveries>>
scheduler == <<notDue, due, wake, spc, timer, hand>>
worker == <<wpc, wtask, wattempt, wtarget, wverdict>>
caller == <<cpc, ctask, ctodo, cop, cpayload>>
lifecycle == <<running, ctxDone>>
history == <<sends, lost>>
vars == <<store, queue, scheduler, worker, caller, lifecycle, metrics, history>>

Init ==
    /\ targets = [t \in Targets |-> NoTarget]
    /\ deliveries = [d \in Deliveries |-> NoDelivery]
    /\ queue = <<>>
    /\ notDue = [d \in Deliveries |-> 0]
    /\ due = [d \in Deliveries |-> 0]
    /\ wake = FALSE
    /\ spc = "off" /\ timer = "none" /\ hand = NoTask
    /\ wpc = [w \in Workers |-> "off"]
    /\ wtask = [w \in Workers |-> NoTask]
    /\ wattempt = [w \in Workers |-> 0]
    /\ wtarget = [w \in Workers |-> NoTarget]
    /\ wverdict = [w \in Workers |-> "none"]
    /\ cpc = [c \in Callers |-> "idle"]
    /\ ctask = [c \in Callers |-> NoTask]
    /\ ctodo = [c \in Callers |-> {}]
    /\ cop = [c \in Callers |-> "none"]
    /\ cpayload = [c \in Callers |-> FALSE]
    /\ running = FALSE /\ ctxDone = FALSE
    /\ metrics = [m \in MetricNames |-> 0]
    /\ sends = [d \in Deliveries |-> 0]
    /\ lost = [d \in Deliveries |-> "no"]

-----------------------------------------------------------------------------
(* The queue.                                                              *)

(* With block_timeout and a positive wait, Enqueue waits for room.         *)
Blocking == DropPolicy = "block_timeout" /\ BlockWait > 0

(* Mutant: room for one task too many. *)
HasRoom_OffByOne == Len(queue) <= QueueSize

HasRoom == Len(queue) < QueueSize

(* When Enqueue may return an error.  A blocked call may see its timer or  *)
(* its cancelled context even if there is room again: select picks any     *)
(* case that is ready.                                                     *)
EnqueueMayFail(cancelled) ==
    \/ Blocking
    \/ ~HasRoom
    \/ DropPolicy = "block_timeout" /\ cancelled

-----------------------------------------------------------------------------
(* API calls on targets.                                                   *)

WithDefaults(s) ==
    IF s.maxRetries = 0 THEN [s EXCEPT !.maxRetries = DefaultMaxRetries] ELSE s

CreateTarget(t, s) ==
    /\ targets[t] = NoTarget
    /\ targets' = [targets EXCEPT ![t] = WithDefaults(s)]
    /\ UNCHANGED <<deliveries, queue, scheduler, worker, caller, lifecycle, metrics, history>>

(* A patch may leave the target with any settings.                         *)
UpdateTarget(t, s) ==
    /\ targets[t] # NoTarget
    /\ targets' = [targets EXCEPT ![t] = s]
    /\ UNCHANGED <<deliveries, queue, scheduler, worker, caller, lifecycle, metrics, history>>

-----------------------------------------------------------------------------
(* TriggerEvent and ReplayDelivery.                                        *)

Matching(e) ==
    {t \in Targets : targets[t] # NoTarget /\ targets[t].enabled /\ e \in targets[t].events}

NewDelivery(t, payload) ==
    [status |-> "pending", attempt |-> 0, target |-> t, payload |-> payload]

(* TriggerEvent lists the targets once, then works through that snapshot.  *)
(* The payload is empty when the event cannot be marshalled.               *)
TriggerEvent(c, e, payload) ==
    /\ cpc[c] = "idle"
    /\ Matching(e) # {}
    /\ cpc' = [cpc EXCEPT ![c] = "create"]
    /\ ctodo' = [ctodo EXCEPT ![c] = Matching(e)]
    /\ cop' = [cop EXCEPT ![c] = "trigger"]
    /\ cpayload' = [cpayload EXCEPT ![c] = payload]
    /\ UNCHANGED <<store, queue, scheduler, worker, ctask, lifecycle, metrics, history>>

CreateDelivery(c, t, d) ==
    /\ cpc[c] = "create"
    /\ t \in ctodo[c]
    /\ deliveries[d] = NoDelivery
    /\ deliveries' = [deliveries EXCEPT ![d] = NewDelivery(t, cpayload[c])]
    /\ ctodo' = [ctodo EXCEPT ![c] = @ \ {t}]
    /\ ctask' = [ctask EXCEPT ![c] = d]
    /\ cpc' = [cpc EXCEPT ![c] = "enqueue"]
    /\ UNCHANGED <<targets, queue, scheduler, worker, cop, cpayload, lifecycle, metrics, history>>

(* A replay is a new delivery with the payload of an old one, whatever the *)
(* status of the old one.                                                  *)
ReplayDelivery(c, old, d) ==
    /\ cpc[c] = "idle"
    /\ deliveries[old] # NoDelivery /\ deliveries[old].payload
    /\ deliveries[d] = NoDelivery
    /\ deliveries' = [deliveries EXCEPT ![d] = NewDelivery(deliveries[old].target, TRUE)]
    /\ ctask' = [ctask EXCEPT ![c] = d]
    /\ cop' = [cop EXCEPT ![c] = "replay"]
    /\ cpc' = [cpc EXCEPT ![c] = "enqueue"]
    /\ UNCHANGED <<targets, queue, scheduler, worker, ctodo, cpayload, lifecycle, metrics, history>>

(* After one enqueue: the next target of the snapshot, or return.          *)
CallContinues(c) ==
    /\ ctask' = [ctask EXCEPT ![c] = NoTask]
    /\ cpc' = [cpc EXCEPT ![c] = IF ctodo[c] = {} THEN "idle" ELSE "create"]
    /\ cop' = [cop EXCEPT ![c] = IF ctodo[c] = {} THEN "none" ELSE @]
    /\ cpayload' = [cpayload EXCEPT ![c] = IF ctodo[c] = {} THEN FALSE ELSE @]
    /\ UNCHANGED ctodo

EnqueueOK(c) ==
    /\ cpc[c] = "enqueue"
    /\ HasRoom
    /\ queue' = Append(queue, ctask[c])
    /\ metrics' = [metrics EXCEPT !["enqueued"] = @ + 1]
    /\ CallContinues(c)
    /\ UNCHANGED <<store, scheduler, worker, lifecycle, history>>

(* Mutant: a dropped task is not counted. *)
EnqueueFails_Uncounted(c) ==
    /\ cpc[c] = "enqueue"
    /\ EnqueueMayFail(TRUE)
    /\ lost' = [lost EXCEPT ![ctask[c]] = cop[c]]
    /\ CallContinues(c)
    /\ UNCHANGED <<store, queue, scheduler, worker, lifecycle, metrics, sends>>

(* The caller's own context, a request's, may be cancelled at any time.    *)
(* TriggerEvent counts the loss, ReplayDelivery returns the error; the     *)
(* delivery stays pending in the store.                                    *)
EnqueueFails(c) ==
    /\ cpc[c] = "enqueue"
    /\ EnqueueMayFail(TRUE)
    /\ lost' = [lost EXCEPT ![ctask[c]] = cop[c]]
    /\ metrics' = IF cop[c] = "trigger" THEN [metrics EXCEPT !["dropped"] = @ + 1] ELSE metrics
    /\ CallContinues(c)
    /\ UNCHANGED <<store, queue, scheduler, worker, lifecycle, sends>>

-----------------------------------------------------------------------------
(* The workers: workerLoop and handleTask.                                 *)

MaxRetries(s) == IF s.maxRetries <= 0 THEN DefaultMaxRetries ELSE s.maxRetries
RetriesOn429(s) == IF s.retryOn429 = "default" THEN RetryOn429 ELSE s.retryOn429 = "yes"

(* handleTask returns to workerLoop.                                       *)
Return(w) ==
    /\ wpc' = [wpc EXCEPT ![w] = "idle"]
    /\ wtask' = [wtask EXCEPT ![w] = NoTask]
    /\ wattempt' = [wattempt EXCEPT ![w] = 0]
    /\ wtarget' = [wtarget EXCEPT ![w] = NoTarget]
    /\ wverdict' = [wverdict EXCEPT ![w] = "none"]

(* The select of workerLoop: a cancelled context does not take precedence  *)
(* over a queued task.                                                     *)
TakeTask(w) ==
    /\ wpc[w] = "idle"
    /\ queue # <<>>
    /\ queue' = Tail(queue)
    /\ wtask' = [wtask EXCEPT ![w] = Head(queue)]
    /\ wpc' = [wpc EXCEPT ![w] = "delivery"]
    /\ UNCHANGED <<store, scheduler, wattempt, wtarget, wverdict, caller, lifecycle, metrics, history>>

WorkerExit(w) ==
    /\ wpc[w] = "idle"
    /\ ctxDone
    /\ wpc' = [wpc EXCEPT ![w] = "exited"]
    /\ UNCHANGED <<store, queue, scheduler, wtask, wattempt, wtarget, wverdict, caller, lifecycle,
                   metrics, history>>

(* The snapshot of the delivery the rest of handleTask works on.           *)
LoadDelivery(w) ==
    /\ wpc[w] = "delivery"
    /\ deliveries[wtask[w]] # NoDelivery
    /\ wattempt' = [wattempt EXCEPT ![w] = deliveries[wtask[w]].attempt]
    /\ wpc' = [wpc EXCEPT ![w] = "target"]
    /\ UNCHANGED <<store, queue, scheduler, wtask, wtarget, wverdict, caller, lifecycle, metrics, history>>

TargetOf(d) == targets[deliveries[d].target]
Deliverable(d) == TargetOf(d) # NoTarget /\ TargetOf(d).enabled

(* The target is gone or disabled: the task is given up and the delivery   *)
(* keeps its status.                                                       *)
SkipTask(w) ==
    /\ wpc[w] = "target"
    /\ ~Deliverable(wtask[w])
    /\ lost' = [lost EXCEPT ![wtask[w]] = "target"]
    /\ Return(w)
    /\ UNCHANGED <<store, queue, scheduler, caller, lifecycle, metrics, sends>>

LoadTarget(w) ==
    /\ wpc[w] = "target"
    /\ Deliverable(wtask[w])
    /\ wtarget' = [wtarget EXCEPT ![w] = TargetOf(wtask[w])]
    /\ wpc' = [wpc EXCEPT ![w] = IF deliveries[wtask[w]].payload THEN "send" ELSE "empty"]
    /\ UNCHANGED <<store, queue, scheduler, wtask, wattempt, wverdict, caller, lifecycle, metrics, history>>

(* UpdateDelivery with a patch of the attempt number and the status.       *)
UpdateDelivery(d, attempt, status) ==
    deliveries' = [deliveries EXCEPT ![d] = [@ EXCEPT !.attempt = attempt, !.status = status]]

(* No payload to send: the delivery is dead.                               *)
BuryEmpty(w) ==
    /\ wpc[w] = "empty"
    /\ UpdateDelivery(wtask[w], wattempt[w] + 1, "dead")
    /\ metrics' = [metrics EXCEPT !["dead"] = @ + 1]
    /\ Return(w)
    /\ UNCHANGED <<targets, queue, scheduler, caller, lifecycle, history>>

(* sendOnce returns; handleTask classifies the outcome with the target it  *)
(* loaded before the request.                                              *)
SendOnce(w, r) ==
    LET attempt == wattempt[w] + 1
        max == MaxRetries(wtarget[w])
        verdict == Verdict(r, attempt, max, RetriesOn429(wtarget[w]))
    IN  /\ wpc[w] = "send"
        /\ sends' = [sends EXCEPT ![wtask[w]] = @ + 1]
        /\ wverdict' = [wverdict EXCEPT ![w] = verdict]
        /\ metrics' =
             CASE verdict = "retrying" -> [metrics EXCEPT !["retried"] = @ + 1]
               [] verdict = "success" -> [metrics EXCEPT !["sentOK"] = @ + 1]
               [] verdict = "failed" -> [metrics EXCEPT !["sentFail"] = @ + 1]
               [] verdict = "dead" -> [metrics EXCEPT !["sentFail"] = @ + 1, !["dead"] = @ + 1]
        /\ wpc' = [wpc EXCEPT ![w] = "store"]
        /\ UNCHANGED <<store, queue, scheduler, wtask, wattempt, wtarget, caller, lifecycle, lost>>

(* UpdateDelivery with a final status ends handleTask ...                  *)
StoreFinal(w) ==
    /\ wpc[w] = "store"
    /\ wverdict[w] # "retrying"
    /\ UpdateDelivery(wtask[w], wattempt[w] + 1, wverdict[w])
    /\ Return(w)
    /\ UNCHANGED <<targets, queue, scheduler, caller, lifecycle, metrics, history>>

(* Mutant: the retry is stored but never scheduled. *)
StoreRetry_NoSchedule(w) ==
    /\ wpc[w] = "store"
    /\ wverdict[w] = "retrying"
    /\ UpdateDelivery(wtask[w], wattempt[w] + 1, "retrying")
    /\ Return(w)
    /\ UNCHANGED <<targets, queue, scheduler, caller, lifecycle, metrics, history>>

(* ... and with "retrying" it comes before the push on the delay heap.     *)
StoreRetry(w) ==
    /\ wpc[w] = "store"
    /\ wverdict[w] = "retrying"
    /\ UpdateDelivery(wtask[w], wattempt[w] + 1, "retrying")
    /\ wpc' = [wpc EXCEPT ![w] = "push"]
    /\ UNCHANGED <<targets, queue, scheduler, wtask, wattempt, wtarget, wverdict, caller, lifecycle,
                   metrics, history>>

(* Schedule: push under the mutex, then a wake token unless one is there.  *)
SchedulePush(w) ==
    /\ wpc[w] = "push"
    /\ notDue' = [notDue EXCEPT ![wtask[w]] = @ + 1]
    /\ wpc' = [wpc EXCEPT ![w] = "wake"]
    /\ wtask' = [wtask EXCEPT ![w] = NoTask]
    /\ UNCHANGED <<store, queue, due, wake, spc, timer, hand, wattempt, wtarget, wverdict, caller,
                   lifecycle, metrics, history>>

ScheduleWake(w) ==
    /\ wpc[w] = "wake"
    /\ wake' = TRUE
    /\ Return(w)
    /\ UNCHANGED <<store, queue, notDue, due, spc, timer, hand, caller, lifecycle, metrics, history>>

-----------------------------------------------------------------------------
(* The delay scheduler: Run, nextWaitDuration and flushDue.                *)

(* The time of an item on the heap comes.                                  *)
Elapse(d) ==
    /\ notDue[d] > 0
    /\ notDue' = [notDue EXCEPT ![d] = @ - 1]
    /\ due' = [due EXCEPT ![d] = @ + 1]
    /\ UNCHANGED <<store, queue, wake, spc, timer, hand, worker, caller, lifecycle, metrics, history>>

SomeDue == \E d \in Deliveries : due[d] > 0
HeapEmpty == \A d \in Deliveries : due[d] = 0 /\ notDue[d] = 0

(* nextWaitDuration: one second on an empty heap, zero when the head is    *)
(* due, and Run makes no timer for a zero wait.                            *)
NextWait ==
    /\ spc = "compute"
    /\ timer' = IF HeapEmpty THEN "poll" ELSE IF SomeDue THEN "none" ELSE "head"
    /\ spc' = "select"
    /\ UNCHANGED <<store, queue, notDue, due, wake, hand, worker, caller, lifecycle, metrics, history>>

SelectWake ==
    /\ spc = "select"
    /\ wake
    /\ wake' = FALSE
    /\ spc' = "compute"
    /\ timer' = "none"
    /\ UNCHANGED <<store, queue, notDue, due, hand, worker, caller, lifecycle, metrics, history>>

(* The timer for the head cannot fire before the head is due.              *)
SelectTimer ==
    /\ spc = "select"
    /\ \/ timer = "poll"
       \/ timer = "head" /\ SomeDue
    /\ spc' = "flush"
    /\ timer' = "none"
    /\ UNCHANGED <<store, queue, notDue, due, wake, hand, worker, caller, lifecycle, metrics, history>>

(* ctx.Done and the stop channel: Stop makes both ready.                   *)
SelectDone ==
    /\ spc = "select"
    /\ ctxDone
    /\ spc' = "exited"
    /\ timer' = "none"
    /\ UNCHANGED <<store, queue, notDue, due, wake, hand, worker, caller, lifecycle, metrics, history>>

(* Mutant: the head is peeked at and never popped. *)
FlushPop_PeekOnly(d) ==
    /\ spc = "flush"
    /\ due[d] > 0
    /\ hand' = d
    /\ spc' = "requeue"
    /\ UNCHANGED <<store, queue, notDue, due, wake, timer, worker, caller, lifecycle, metrics, history>>

FlushPop(d) ==
    /\ spc = "flush"
    /\ due[d] > 0
    /\ due' = [due EXCEPT ![d] = @ - 1]
    /\ hand' = d
    /\ spc' = "requeue"
    /\ UNCHANGED <<store, queue, notDue, wake, timer, worker, caller, lifecycle, metrics, history>>

FlushDone ==
    /\ spc = "flush"
    /\ ~SomeDue
    /\ spc' = "compute"
    /\ UNCHANGED <<store, queue, notDue, due, wake, timer, hand, worker, caller, lifecycle, metrics, history>>

RequeueOK ==
    /\ spc = "requeue"
    /\ HasRoom
    /\ queue' = Append(queue, hand)
    /\ hand' = NoTask
    /\ spc' = "flush"
    /\ UNCHANGED <<store, notDue, due, wake, timer, worker, caller, lifecycle, metrics, history>>

(* Mutant: a task that finds no room goes back on the heap. *)
RequeueFails_PutsBack ==
    /\ spc = "requeue"
    /\ EnqueueMayFail(ctxDone)
    /\ due' = [due EXCEPT ![hand] = @ + 1]
    /\ hand' = NoTask
    /\ spc' = "flush"
    /\ UNCHANGED <<store, queue, notDue, wake, timer, worker, caller, lifecycle, metrics, history>>

(* The error of Enqueue is ignored: the delivery stays "retrying".         *)
RequeueFails ==
    /\ spc = "requeue"
    /\ EnqueueMayFail(ctxDone)
    /\ lost' = [lost EXCEPT ![hand] = "flush"]
    /\ hand' = NoTask
    /\ spc' = "flush"
    /\ UNCHANGED <<store, queue, notDue, due, wake, timer, worker, caller, lifecycle, metrics, sends>>

-----------------------------------------------------------------------------
(* Start and Stop.                                                         *)

Start ==
    /\ ~running /\ ~ctxDone
    /\ running' = TRUE
    /\ spc' = "compute"
    /\ wpc' = [w \in Workers |-> "idle"]
    /\ UNCHANGED <<store, queue, notDue, due, wake, timer, hand, wtask, wattempt, wtarget, wverdict,
                   caller, ctxDone, metrics, history>>

(* Stop cancels the context and closes the stop channel; then it waits for *)
(* the goroutines or DrainMax, which changes no state.                     *)
Stop ==
    /\ running
    /\ running' = FALSE
    /\ ctxDone' = TRUE
    /\ UNCHANGED <<store, queue, scheduler, worker, caller, metrics, history>>

-----------------------------------------------------------------------------
CallerStep(c) ==
    \/ \E e \in EventTypes, p \in BOOLEAN : TriggerEvent(c, e, p)
    \/ \E t \in Targets, d \in Deliveries : CreateDelivery(c, t, d)
    \/ \E old, d \in Deliveries : ReplayDelivery(c, old, d)
    \/ EnqueueOK(c)
    \/ EnqueueFails(c)

HandleTask(w) ==
    \/ LoadDelivery(w) \/ SkipTask(w) \/ LoadTarget(w) \/ BuryEmpty(w)
    \/ \E r \in Responses : SendOnce(w, r)
    \/ StoreFinal(w) \/ StoreRetry(w) \/ SchedulePush(w) \/ ScheduleWake(w)

WorkerStep(w) == TakeTask(w) \/ WorkerExit(w) \/ HandleTask(w)

SchedulerStep ==
    \/ NextWait \/ SelectWake \/ SelectTimer \/ SelectDone
    \/ \E d \in Deliveries : FlushPop(d)
    \/ FlushDone \/ RequeueOK \/ RequeueFails

Next ==
    \/ \E t \in Targets, s \in Settings : CreateTarget(t, s) \/ UpdateTarget(t, s)
    \/ \E c \in Callers : CallerStep(c)
    \/ \E w \in Workers : WorkerStep(w)
    \/ SchedulerStep
    \/ \E d \in Deliveries : Elapse(d)
    \/ Start
    \/ Stop

Spec == Init /\ [][Next]_vars

(* The goroutines run, requests return (the HTTP client has a timeout) and *)
(* time passes.  A select that keeps finding ctx.Done ready takes it at    *)
(* some point: Go chooses at random among the ready cases.  The API's      *)
(* callers and the operator owe nothing; only the enqueue of a call under  *)
(* way ends.                                                               *)
Fairness ==
    /\ \A w \in Workers : WF_vars(WorkerStep(w))
    /\ WF_vars(SchedulerStep) /\ SF_vars(SelectDone)
    /\ \A d \in Deliveries : WF_vars(Elapse(d))
    /\ \A c \in Callers : WF_vars(EnqueueOK(c) \/ EnqueueFails(c))

FairSpec == Spec /\ Fairness

-----------------------------------------------------------------------------
(* Properties.                                                             *)

(* The shape of the state; statuses and program counters take the values   *)
(* the code gives them.                                                    *)
StoreTypes ==
    /\ targets \in [Targets -> TargetRecord \cup {NoTarget}]
    /\ deliveries \in [Deliveries -> DeliveryRecord \cup {NoDelivery}]

QueueTypes == queue \in Seq(Deliveries) /\ Len(queue) <= QueueSize

SchedulerTypes ==
    /\ notDue \in [Deliveries -> Nat] /\ due \in [Deliveries -> Nat]
    /\ wake \in BOOLEAN
    /\ spc \in {"off", "compute", "select", "flush", "requeue", "exited"}
    /\ timer \in {"none", "poll", "head"}
    /\ hand \in Deliveries \cup {NoTask}

WorkerTypes ==
    /\ wpc \in [Workers -> {"off", "idle", "delivery", "target", "empty", "send", "store",
                             "push", "wake", "exited"}]
    /\ wtask \in [Workers -> Deliveries \cup {NoTask}]
    /\ wattempt \in [Workers -> Nat]
    /\ wtarget \in [Workers -> TargetRecord \cup {NoTarget}]
    /\ wverdict \in [Workers -> {"none", "retrying"} \cup Terminal]

CallerTypes ==
    /\ cpc \in [Callers -> {"idle", "create", "enqueue"}]
    /\ ctask \in [Callers -> Deliveries \cup {NoTask}]
    /\ ctodo \in [Callers -> SUBSET Targets]
    /\ cop \in [Callers -> {"none", "trigger", "replay"}]
    /\ cpayload \in [Callers -> BOOLEAN]

ServiceTypes ==
    /\ running \in BOOLEAN /\ ctxDone \in BOOLEAN
    /\ metrics \in [MetricNames -> Nat]
    /\ sends \in [Deliveries -> Nat]
    /\ lost \in [Deliveries -> {"no", "trigger", "replay", "target", "flush"}]

TypeOK ==
    StoreTypes /\ QueueTypes /\ SchedulerTypes /\ WorkerTypes /\ CallerTypes /\ ServiceTypes

(* The places a task can be in: a call about to enqueue it, the queue, a   *)
(* worker, the delay heap, the hand of the flushing scheduler.             *)
InCall(d) == \E c \in Callers : ctask[c] = d
InQueue(d) == d \in Range(queue)
InWork(d) == \E w \in Workers : wtask[w] = d
OnHeap(d) == notDue[d] + due[d] > 0
Held(d) == InCall(d) \/ InQueue(d) \/ InWork(d) \/ OnHeap(d) \/ hand = d

(* No place holds two tasks for one delivery ... *)
OncePerPlace ==
    /\ IsInjective(queue)
    /\ \A v, w \in Workers : wtask[v] = wtask[w] /\ wtask[v] # NoTask => v = w
    /\ \A b, c \in Callers : ctask[b] = ctask[c] /\ ctask[b] # NoTask => b = c
    /\ \A d \in Deliveries : notDue[d] + due[d] <= 1

(* ... and no two places hold one each. *)
OnePlace ==
    \A d \in Deliveries :
        /\ InCall(d) => ~InQueue(d) /\ ~InWork(d) /\ ~OnHeap(d) /\ hand # d
        /\ InQueue(d) => ~InWork(d) /\ ~OnHeap(d) /\ hand # d
        /\ InWork(d) => ~OnHeap(d) /\ hand # d
        /\ OnHeap(d) => hand # d

(* A delivery has at most one task, wherever it is, so no two workers ever *)
(* work on the same delivery and no retry is scheduled twice: nothing in   *)
(* handleTask or UpdateDelivery checks for another worker.                 *)
OneTask == OncePerPlace /\ OnePlace

(* A delivery the store shows as pending or retrying still has a task      *)
(* somewhere, or lost it at one of the three places the code gives one up: *)
(* a failed enqueue, a target gone or disabled, a failed flush of a retry. *)
NoSilentLoss ==
    \A d \in Deliveries :
        deliveries[d].status \in Live => Held(d) \/ lost[d] # "no"

(* An ended delivery has no task left that could send it once more.        *)
EndedHasNoTask == \A d \in Deliveries : deliveries[d].status \in Terminal => ~Held(d)

(* A delivery has one task at most while it lives, and none when it ended. *)
OneTaskUntilEnd == OneTask /\ EndedHasNoTask

(* The metrics balance.  Every delivery is accepted, dropped, refused to   *)
(* the caller of a replay, or in a call that has not enqueued it yet; each *)
(* outcome is counted once, when its request returns; every request sent   *)
(* is a retry, a success or a failure.                                     *)
Count(P(_)) == Cardinality({d \in Deliveries : P(d)})
Settling(d, verdict) == \E w \in Workers : wtask[w] = d /\ wpc[w] = "store" /\ wverdict[w] = verdict
Ends(d, verdict) == deliveries[d].status = verdict \/ Settling(d, verdict)

MetricsBalance ==
    /\ metrics["enqueued"] + metrics["dropped"] =
         Count(LAMBDA d : /\ deliveries[d] # NoDelivery
                          /\ lost[d] # "replay"
                          /\ \A c \in Callers : ctask[c] # d)
    /\ metrics["sentOK"] = Count(LAMBDA d : Ends(d, "success"))
    /\ metrics["sentFail"] = Count(LAMBDA d : Ends(d, "failed") \/ (Ends(d, "dead") /\ deliveries[d].payload))
    /\ metrics["dead"] = Count(LAMBDA d : Ends(d, "dead"))
    /\ metrics["retried"] + metrics["sentOK"] + metrics["sentFail"] =
         MapThenSumSet(LAMBDA d : sends[d], Deliveries)

(* "enqueue failure is accounted elsewhere" (delay_heap.go:114): a task    *)
(* lost by a failed enqueue of a call or of the flush is in Dropped.       *)
(* Violated: the error of the flush is discarded and nothing counts it.    *)
FlushFailureIsAccounted ==
    metrics["dropped"] = Count(LAMBDA d : lost[d] \in {"trigger", "flush"})

(* A delivery that ended stays as it ended: no late or duplicated task     *)
(* changes its status or its attempt number again.                         *)
EndedIsFinal ==
    [][\A d \in Deliveries :
          deliveries[d].status \in Terminal => deliveries'[d] = deliveries[d]]_vars

(* Each delivery goes through the abstract life cycle, one attempt a step, *)
(* even when settings change, requests race and the service stops.         *)
Lifecycle == INSTANCE DeliveryLifecycle WITH
    status <- [d \in Deliveries |-> deliveries[d].status],
    attempt <- [d \in Deliveries |-> deliveries[d].attempt]

RefinesLifecycle == Lifecycle!Spec

(* A queued task is taken and carried through: its delivery ends, waits    *)
(* for a retry or is given up, unless the service is stopped.  A worker    *)
(* never hangs on a task and none is passed over.                          *)
Settled(d) == deliveries[d].status \in Terminal \/ OnHeap(d) \/ lost[d] # "no"

QueuedIsSettled ==
    \A d \in Deliveries : (InQueue(d) /\ running) ~> (Settled(d) \/ ~running)

(* Stop ends every goroutine, whatever it was doing: also one inside a     *)
(* request, a blocked requeue or a flush of several retries.               *)
StopEndsAll == ctxDone ~> (spc = "exited" /\ \A w \in Workers : wpc[w] = "exited")

(* A retry leaves the heap, unless the scheduler waits without a timer:    *)
(* the wait that NextWait makes when it finds the head due already.        *)
Timerless == spc = "select" /\ timer = "none" /\ SomeDue

RetryFlushedOrTimerless ==
    \A d \in Deliveries : OnHeap(d) ~> (~OnHeap(d) \/ ctxDone \/ Timerless)

(* "task not delivered in time" (webhook_test.go:173): a scheduled task is *)
(* delivered once its time has come.  Violated: woken when the head is due *)
(* already, Run selects without a timer and waits for the next wake-up,    *)
(* which finds the head due again.                                         *)
ScheduledIsDelivered == \A d \in Deliveries : OnHeap(d) ~> (~OnHeap(d) \/ ctxDone)
=============================================================================
