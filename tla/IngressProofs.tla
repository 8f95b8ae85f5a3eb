---------------------------- MODULE IngressProofs ----------------------------
(***************************************************************************)
(* Proofs about Ingress, for every number of requests, events, routes and  *)
(* all limits.                                                             *)
(***************************************************************************)
EXTENDS Ingress, FoldProofs, SequenceTheorems, TLAPS

Queued == {r \in Requests : stage[r] \in {"waiting", "admitted", "limiting", "running"}}
Working == {r \in Requests : stage[r] \in {"admitted", "limiting", "running"}}

(* The handler is between the router's lock and its end. *)
Inside == {"routed", "adding", "verified", "making", "asking", "publishing"}

TokenInv ==
    /\ IsFiniteSet(Queued) /\ IsFiniteSet(Working)
    /\ queue = Cardinality(Queued) /\ sem = Cardinality(Working)

(* Where a request is, its handler and the locks it holds go together. *)
ControlInv ==
    \A r \in Requests :
        /\ stage[r] \notin {"running", "done"} => handler[r] = "none"
        /\ stage[r] = "done" /\ handler[r] \notin {"none", "end"} => withTimeout
        /\ handler[r] \in Inside => r \in reading
        /\ r \in adding => handler[r] = "adding"
        /\ handler[r] = "asking" => mine[r] \in Requests

(* TypeOK in parts. *)
RequestTypes ==
    /\ request \in [Requests -> Lookups \cup Asks \cup {NoRequest}]
    /\ stage \in [Requests -> Stages] /\ handler \in [Requests -> HandlerStages]
    /\ status \in [Requests -> Statuses] /\ buffered \in [Requests -> Statuses]
    /\ late \subseteq Requests

LimitTypes ==
    /\ now \in 0..MaxTime /\ started \in BOOLEAN /\ config \in Configs
    /\ queue \in 0..Depth /\ sem \in 0..config.workers

RateTypes ==
    /\ bucket \in Requests \cup {None}
    /\ buckets \in [Requests -> [tokens : Int, refill : 0..MaxTime, access : 0..MaxTime]]
    /\ held \in [Requests -> [of : Requests \cup {None}, time : 0..MaxTime, tokens : Int]]
    /\ overlap \in BOOLEAN /\ allowed \subseteq Requests

RouteTypes == table \subseteq Routes /\ reading \subseteq Requests /\ adding \subseteq reading

HookTypes ==
    /\ deduper \in Requests \cup {None} /\ mine \in [Requests -> Requests \cup {None}]
    /\ seen \in [Requests -> [Events -> Nat]]
    /\ published \cup lost \cup repeated \subseteq Events \cup {None}
    /\ busClosed \in BOOLEAN

(* The inductive invariant. *)
IInv == TypeOK /\ ControlInv /\ TokenInv

LEMMA TypeParts ==
  TypeOK <=> RequestTypes /\ LimitTypes /\ RateTypes /\ RouteTypes /\ HookTypes
  BY DEF TypeOK, RequestTypes, LimitTypes, RateTypes, RouteTypes, HookTypes

-----------------------------------------------------------------------------
(* Tokens.                                                                 *)

(* A request that moves joins or leaves those that hold a token. *)
LEMMA StageMoves ==
  ASSUME TypeOK, NEW r \in Requests, NEW s, GoTo(r, s)
  PROVE  /\ Queued' = IF s \in {"waiting", "admitted", "limiting", "running"}
                      THEN Queued \cup {r} ELSE Queued \ {r}
         /\ Working' = IF s \in {"admitted", "limiting", "running"}
                       THEN Working \cup {r} ELSE Working \ {r}
  BY DEF TypeOK, GoTo, Queued, Working

LEMMA StageStays == UNCHANGED stage => Queued' = Queued /\ Working' = Working
  BY DEF Queued, Working

(* One more and one less. *)
LEMMA CountMoves ==
  ASSUME NEW S, IsFiniteSet(S), NEW x
  PROVE  /\ IsFiniteSet(S \cup {x}) /\ IsFiniteSet(S \ {x})
         /\ Cardinality(S) \in Nat
         /\ x \notin S => Cardinality(S \cup {x}) = Cardinality(S) + 1
         /\ x \in S => Cardinality(S \ {x}) = Cardinality(S) - 1
         /\ x \in S => Cardinality(S) > 0
<1>1. IsFiniteSet(S \cup {x}) /\ (x \notin S => Cardinality(S \cup {x}) = Cardinality(S) + 1)
  BY FS_AddElement
<1>2. IsFiniteSet(S \ {x}) /\ (x \in S => Cardinality(S \ {x}) = Cardinality(S) - 1)
  BY FS_RemoveElement
<1>3. Cardinality(S) \in Nat /\ (x \in S => Cardinality(S) > 0)
  BY FS_CardinalityType, FS_EmptySet, SMT
<1>4. QED
  BY <1>1, <1>2, <1>3

LEMMA TokenInit == Init => TokenInv
<1> SUFFICES ASSUME Init PROVE TokenInv
  OBVIOUS
<1>1. Queued = {} /\ Working = {}
  BY DEF Init, All, Queued, Working
<1>2. QED
  BY <1>1, FS_EmptySet DEF Init, TokenInv

(* What a request does with the two channels is what its stage says. *)
LEMMA TokenStep == TypeOK /\ TokenInv /\ [Next]_vars => TokenInv'
<1> SUFFICES ASSUME TypeOK, TokenInv, [Next]_vars PROVE TokenInv'
  OBVIOUS
<1> USE DEF TokenInv
<1>1. CASE UNCHANGED <<stage, queue, sem>>
  BY <1>1, StageStays
<1>2. ASSUME NEW r \in Requests, Arrive(r) PROVE TokenInv'
  <2>1. Queued' = Queued \ {r} /\ Working' = Working \ {r} /\ r \notin Queued /\ r \notin Working
    BY <1>2, StageMoves DEF Arrive, At, Queued, Working
  <2>2. Queued' = Queued /\ Working' = Working
    BY <2>1
  <2>3. QED
    BY <1>2, <2>2 DEF Arrive, limits
<1>3. ASSUME NEW r \in Requests, EnterQueue(r) PROVE TokenInv'
  <2>1. Queued' = Queued \cup {r} /\ r \notin Queued /\ Working' = Working \ {r} /\ r \notin Working
    BY <1>3, StageMoves DEF EnterQueue, At, Queued, Working
  <2>2. Working' = Working
    BY <2>1
  <2>3. QED
    BY <1>3, <2>1, <2>2, CountMoves DEF EnterQueue
<1>4. ASSUME NEW r \in Requests, ServerBusy(r) PROVE TokenInv'
  <2>1. Queued' = Queued \ {r} /\ Working' = Working \ {r} /\ r \notin Queued /\ r \notin Working
    BY <1>4, StageMoves DEF ServerBusy, At, Queued, Working
  <2>2. Queued' = Queued /\ Working' = Working
    BY <2>1
  <2>3. QED
    BY <1>4, <2>2 DEF ServerBusy, limits
<1>5. ASSUME NEW r \in Requests, AcquireWorker(r) PROVE TokenInv'
  <2>1. Queued' = Queued \cup {r} /\ r \in Queued /\ Working' = Working \cup {r} /\ r \notin Working
    BY <1>5, StageMoves DEF AcquireWorker, At, Queued, Working
  <2>2. Queued' = Queued
    BY <2>1
  <2>3. QED
    BY <1>5, <2>1, <2>2, CountMoves DEF AcquireWorker
<1>6. ASSUME NEW r \in Requests, QueueTimeout(r) PROVE TokenInv'
  <2>1. Queued' = Queued \ {r} /\ r \in Queued /\ Working' = Working \ {r} /\ r \notin Working
    BY <1>6, StageMoves DEF QueueTimeout, At, Queued, Working
  <2>2. Working' = Working
    BY <2>1
  <2>3. QED
    BY <1>6, <2>1, <2>2, CountMoves DEF QueueTimeout
<1>7. ASSUME NEW r \in Requests, GetBucket(r) \/ Pass(r) PROVE TokenInv'
  <2>1. /\ Queued' = Queued \cup {r} /\ r \in Queued
        /\ Working' = Working \cup {r} /\ r \in Working
    BY <1>7, StageMoves DEF GetBucket, Pass, At, Queued, Working
  <2>2. Queued' = Queued /\ Working' = Working
    BY <2>1
  <2>3. QED
    BY <1>7, <2>2 DEF GetBucket, Pass, limits
<1>8. ASSUME NEW r \in Requests, Leave(r), stage[r] \in {"limiting", "running"} PROVE TokenInv'
  <2>1. /\ Queued' = Queued \ {r} /\ r \in Queued
        /\ Working' = Working \ {r} /\ r \in Working
    BY <1>8, StageMoves DEF Leave, Queued, Working
  <2>2. QED
    BY <1>8, <2>1, CountMoves DEF Leave
<1>9. ASSUME NEW r \in Requests, TooMany(r) \/ Finish(r) \/ TimeoutFires(r) PROVE TokenInv'
  BY <1>8, <1>9 DEF TooMany, Finish, TimeoutFires, At
<1>10. ASSUME NEW r \in Requests, HandlerNext(r) PROVE UNCHANGED <<stage, queue, sem>>
  BY <1>10 DEF HandlerNext, FindRoute, ServeOther, AddFromHandler, BadSignature, ReadBody,
               RefuseBody, GetDeduper, MakeDeduper, Unnamed, SeenNot, SeenBefore, Publish,
               PublishPanics, limits
<1>11. ASSUME NEW route \in Routes, AddRoute(route) PROVE UNCHANGED <<stage, queue, sem>>
  BY <1>11 DEF AddRoute, limits
<1>12. ASSUME Serve \/ Tick \/ CloseBus \/ Cleanup PROVE UNCHANGED <<stage, queue, sem>>
  BY <1>12 DEF Serve, Tick, CloseBus, Cleanup, limits
<1>13. ASSUME UNCHANGED vars PROVE UNCHANGED <<stage, queue, sem>>
  BY <1>13 DEF vars, limits
<1>14. QED
  BY <1>1, <1>2, <1>3, <1>4, <1>5, <1>6, <1>7, <1>9, <1>10, <1>11, <1>12, <1>13
  DEF Next, RequestNext

-----------------------------------------------------------------------------
(* Control.                                                                *)

LEMMA ControlInit == Init => ControlInv
  BY DEF Init, All, ControlInv, Inside

(* A request in the limits has no handler yet. *)
LEMMA ControlRequest ==
  ASSUME RequestTypes, ControlInv, NEW r \in Requests, RequestNext(r)
  PROVE  ControlInv'
<1> USE DEF RequestTypes, ControlInv, At, GoTo, HandlerGoesTo, HandlerAt, Inside, withTimeout
<1>1. CASE EnterQueue(r) \/ ServerBusy(r) \/ AcquireWorker(r) \/ QueueTimeout(r)
  BY <1>1 DEF EnterQueue, ServerBusy, AcquireWorker, QueueTimeout, routing, hooks, serving
<1>2. CASE GetBucket(r)
  BY <1>2 DEF GetBucket, routing, hooks, serving
<1>3. CASE Pass(r)
  BY <1>3 DEF Pass, routing, hooks, serving
<1>4. CASE TooMany(r)
  BY <1>4 DEF TooMany, Leave, routing, hooks, serving
<1>5. CASE Finish(r)
  BY <1>5 DEF Finish, Leave, routing, hooks, serving
<1>6. CASE TimeoutFires(r)
  BY <1>6 DEF TimeoutFires, Leave, routing, hooks, serving
<1>7. QED
  BY <1>1, <1>2, <1>3, <1>4, <1>5, <1>6 DEF RequestNext

(* A handler moves alone, and takes the read lock first and gives it back last. *)
LEMMA ControlHandler ==
  ASSUME RequestTypes, HookTypes, ControlInv, NEW r \in Requests, HandlerNext(r)
  PROVE  ControlInv'
<1> USE DEF RequestTypes, HookTypes, ControlInv, At, GoTo, HandlerGoesTo, HandlerAt, Inside,
            withTimeout
<1>1. CASE FindRoute(r)
  BY <1>1 DEF FindRoute, hooks, serving
<1>2. CASE ServeOther(r) \/ BadSignature(r) \/ RefuseBody(r)
  BY <1>2 DEF ServeOther, BadSignature, RefuseBody, EndHandler, hooks, serving
<1>3. CASE AddFromHandler(r)
  BY <1>3 DEF AddFromHandler, hooks, serving
<1>4. CASE ReadBody(r)
  BY <1>4 DEF ReadBody, hooks, serving, routing
<1>5. CASE GetDeduper(r) \/ MakeDeduper(r)
  BY <1>5 DEF GetDeduper, MakeDeduper, serving, routing
<1>6. CASE Unnamed(r) \/ SeenNot(r)
  BY <1>6 DEF Unnamed, SeenNot, Named, serving, routing, hooks
<1>7. CASE SeenBefore(r) \/ Publish(r) \/ PublishPanics(r)
  BY <1>7 DEF SeenBefore, Named, Publish, PublishPanics, EndHandler, serving, routing
<1>8. QED
  BY <1>1, <1>2, <1>3, <1>4, <1>5, <1>6, <1>7 DEF HandlerNext

LEMMA ControlStep == TypeOK /\ ControlInv /\ [Next]_vars => ControlInv'
<1> SUFFICES ASSUME TypeOK, ControlInv, [Next]_vars PROVE ControlInv'
  OBVIOUS
<1> USE TypeParts
<1>1. ASSUME NEW r \in Requests, Arrive(r) PROVE ControlInv'
  BY <1>1 DEF Arrive, At, GoTo, RequestTypes, ControlInv, Inside, withTimeout, routing, hooks
<1>2. CASE UNCHANGED <<config, stage, handler, reading, adding, mine>>
  BY <1>2 DEF ControlInv, withTimeout
<1>3. ASSUME NEW route \in Routes, AddRoute(route) PROVE ControlInv'
  BY <1>2, <1>3 DEF AddRoute, serving, hooks
<1>4. ASSUME Serve \/ Tick \/ CloseBus \/ Cleanup \/ UNCHANGED vars PROVE ControlInv'
  BY <1>2, <1>4 DEF Serve, Tick, CloseBus, Cleanup, vars, serving, routing, hooks
<1>5. QED
  BY <1>1, <1>3, <1>4, ControlRequest, ControlHandler DEF Next

-----------------------------------------------------------------------------
(* Types.                                                                  *)

LEMMA ConfigTypes ==
  ASSUME config \in Configs
  PROVE  config.workers \in Nat /\ Depth \in Nat
<1>1. config \in [timeout : BOOLEAN, workers : Nat \ {0}, depth : Nat]
  BY IngressAssumption
<1>2. QED
  BY <1>1 DEF Depth

LEMMA Numbers ==
  /\ MaxTime \in Nat /\ DedupTTL \in Nat /\ Rate \in Nat /\ Capacity \in Nat /\ MaxIdle \in Nat
  /\ None \notin Requests \cup Events
  BY IngressAssumption

LEMMA TypeInit == Init => TypeOK
<1> SUFFICES ASSUME Init PROVE TypeOK
  OBVIOUS
<1>1. RequestTypes
  BY DEF Init, All, RequestTypes, Stages, HandlerStages, Statuses
<1>2. LimitTypes
  <2>1. config \in Configs /\ now = 0 /\ queue = 0 /\ sem = 0 /\ started = FALSE
    BY DEF Init
  <2>2. config.workers \in Nat /\ Depth \in Nat /\ MaxTime \in Nat
    BY <2>1, ConfigTypes, Numbers
  <2>3. queue \in 0..Depth
    BY <2>1, <2>2
  <2>4. sem \in 0..config.workers
    BY <2>1, <2>2
  <2>5. now \in 0..MaxTime
    BY <2>1, <2>2
  <2>6. QED
    BY <2>1, <2>3, <2>4, <2>5, Zenon DEF LimitTypes
<1>3. RateTypes
  <2>1. /\ bucket = None /\ overlap = FALSE /\ allowed = {}
        /\ buckets = [r \in Requests |-> [tokens |-> 0, refill |-> 0, access |-> 0]]
        /\ held = [r \in Requests |-> [of |-> None, time |-> 0, tokens |-> 0]]
    BY DEF Init, All, NoBucket
  <2>2. 0 \in 0..MaxTime /\ 0 \in Int
    BY Numbers
  <2>3. QED
    BY <2>1, <2>2 DEF RateTypes
<1>4. RouteTypes /\ HookTypes
  BY DEF Init, All, RouteTypes, HookTypes
<1>5. QED
  BY <1>1, <1>2, <1>3, <1>4, TypeParts

(* A status is written once, one of those there are. *)
LEMMA WroteStatus ==
  ASSUME RequestTypes, NEW r \in Requests, NEW code \in Statuses
  PROVE  Wrote(r, code) \in [Requests -> Statuses]
  BY DEF RequestTypes, Wrote

LEMMA RequestTypesRequest ==
  ASSUME RequestTypes, NEW r \in Requests, RequestNext(r)
  PROVE  RequestTypes'
<1>1. {429, 503, 504, buffered[r]} \subseteq Statuses
  BY DEF RequestTypes, Statuses
<1>2. /\ Wrote(r, 429) \in [Requests -> Statuses] /\ Wrote(r, 503) \in [Requests -> Statuses]
      /\ Wrote(r, 504) \in [Requests -> Statuses]
      /\ Wrote(r, buffered[r]) \in [Requests -> Statuses]
  BY <1>1, WroteStatus
<1> HIDE DEF Wrote, Statuses
<1> USE DEF RequestTypes, GoTo, HandlerGoesTo, Stages, HandlerStages
<1>3. CASE EnterQueue(r) \/ AcquireWorker(r) \/ GetBucket(r)
  BY <1>3 DEF EnterQueue, AcquireWorker, GetBucket, answers, serving
<1>4. CASE ServerBusy(r) \/ QueueTimeout(r)
  BY <1>2, <1>4 DEF ServerBusy, QueueTimeout, serving
<1>5. CASE Pass(r)
  BY <1>5 DEF Pass, answers, serving
<1>6. CASE TooMany(r) \/ Finish(r) \/ TimeoutFires(r)
  BY <1>2, <1>6 DEF TooMany, Finish, TimeoutFires, Leave, serving
<1>7. QED
  BY <1>3, <1>4, <1>5, <1>6 DEF RequestNext

LEMMA AnswerTypes ==
  ASSUME RequestTypes, NEW r \in Requests, NEW code \in Statuses, Answer(r, code)
  PROVE  status' \in [Requests -> Statuses] /\ buffered' \in [Requests -> Statuses] /\ late' = late
<1>1. Wrote(r, code) \in [Requests -> Statuses]
  BY WroteStatus
<1>2. QED
  BY <1>1 DEF RequestTypes, Answer

LEMMA RequestTypesHandler ==
  ASSUME RequestTypes, NEW r \in Requests, HandlerNext(r)
  PROVE  RequestTypes'
<1>1. {200, 401, 404, 413, 500} \subseteq Statuses
  BY DEF Statuses
<1>2. \A code \in Statuses : Answer(r, code) =>
        status' \in [Requests -> Statuses] /\ buffered' \in [Requests -> Statuses] /\ late' = late
  BY AnswerTypes
<1>3. Wrote(r, 413) \in [Requests -> Statuses]
  BY <1>1, WroteStatus
<1> USE DEF RequestTypes, HandlerGoesTo, HandlerStages
<1>4. CASE FindRoute(r) \/ AddFromHandler(r) \/ ReadBody(r) \/ Unnamed(r) \/ SeenNot(r)
  BY <1>4 DEF FindRoute, AddFromHandler, ReadBody, Unnamed, SeenNot, answers, serving
<1>5. CASE GetDeduper(r) \/ MakeDeduper(r)
  BY <1>5 DEF GetDeduper, MakeDeduper, answers, serving
<1>6. CASE ServeOther(r) \/ BadSignature(r) \/ SeenBefore(r) \/ Publish(r) \/ PublishPanics(r)
  <2>1. \E code \in Statuses : Answer(r, code)
    BY <1>1, <1>6 DEF ServeOther, BadSignature, SeenBefore, Publish, PublishPanics
  <2>2. QED
    BY <1>2, <1>6, <2>1 DEF ServeOther, BadSignature, SeenBefore, Publish, PublishPanics,
                            EndHandler, serving
<1>7. CASE RefuseBody(r)
  BY <1>1, <1>3, <1>7 DEF RefuseBody, AnswerAtOnce, EndHandler, serving
<1>8. QED
  BY <1>4, <1>5, <1>6, <1>7 DEF HandlerNext

LEMMA RequestTypesStep == RequestTypes /\ [Next]_vars => RequestTypes'
<1> SUFFICES ASSUME RequestTypes, [Next]_vars PROVE RequestTypes'
  OBVIOUS
<1>1. ASSUME NEW r \in Requests, Arrive(r) PROVE RequestTypes'
  BY <1>1 DEF Arrive, GoTo, RequestTypes, Stages, answers
<1>2. ASSUME NEW route \in Routes, AddRoute(route) PROVE RequestTypes'
  BY <1>2 DEF AddRoute, RequestTypes, serving, answers
<1>3. CASE Serve \/ Tick \/ CloseBus \/ Cleanup \/ UNCHANGED vars
  BY <1>3 DEF Serve, Tick, CloseBus, Cleanup, vars, RequestTypes, serving, answers
<1>4. QED
  BY <1>1, <1>2, <1>3, RequestTypesRequest, RequestTypesHandler DEF Next

(* A step takes at most one token of a channel, and one that is there. *)
QueueMoves == queue' = queue \/ queue' = queue - 1 \/ (queue' = queue + 1 /\ queue < Depth)
SemMoves == sem' = sem \/ sem' = sem - 1 \/ (sem' = sem + 1 /\ sem < config.workers)
TimeMoves == now' = now \/ (now' = now + 1 /\ now < MaxTime)
LimitMoves == config' = config /\ started' \in BOOLEAN /\ QueueMoves /\ SemMoves /\ TimeMoves

LEMMA LimitsMove ==
  ASSUME started \in BOOLEAN, [Next]_vars
  PROVE  LimitMoves
<1> USE DEF LimitMoves, QueueMoves, SemMoves, TimeMoves, serving, limits
<1>1. ASSUME NEW r \in Requests, RequestNext(r) PROVE LimitMoves
  <2>1. CASE EnterQueue(r)
    BY <2>1 DEF EnterQueue
  <2>2. CASE AcquireWorker(r)
    BY <2>2 DEF AcquireWorker
  <2>3. CASE QueueTimeout(r)
    BY <2>3 DEF QueueTimeout
  <2>4. CASE ServerBusy(r) \/ GetBucket(r) \/ Pass(r)
    BY <2>4 DEF ServerBusy, GetBucket, Pass
  <2>5. CASE TooMany(r) \/ Finish(r) \/ TimeoutFires(r)
    BY <2>5 DEF TooMany, Finish, TimeoutFires, Leave
  <2>6. QED
    BY <1>1, <2>1, <2>2, <2>3, <2>4, <2>5 DEF RequestNext
<1>2. ASSUME NEW r \in Requests, HandlerNext(r) PROVE LimitMoves
  BY <1>2 DEF HandlerNext, FindRoute, ServeOther, AddFromHandler, BadSignature, ReadBody,
      RefuseBody, GetDeduper, MakeDeduper, Unnamed, SeenNot, SeenBefore, Publish, PublishPanics
<1>3. ASSUME NEW r \in Requests, Arrive(r) PROVE LimitMoves
  BY <1>3 DEF Arrive
<1>4. ASSUME NEW route \in Routes, AddRoute(route) PROVE LimitMoves
  BY <1>4 DEF AddRoute
<1>5. CASE Serve \/ Tick \/ CloseBus \/ Cleanup \/ UNCHANGED vars
  BY <1>5 DEF Serve, Tick, CloseBus, Cleanup, vars
<1>6. QED
  BY <1>1, <1>2, <1>3, <1>4, <1>5 DEF Next

LEMMA LimitTypesStep == LimitTypes /\ TokenInv' /\ [Next]_vars => LimitTypes'
<1> SUFFICES ASSUME LimitTypes, TokenInv', [Next]_vars PROVE LimitTypes'
  OBVIOUS
<1>1. queue' \in Nat /\ sem' \in Nat
  BY FS_CardinalityType DEF TokenInv
<1>2. LimitMoves
  BY LimitsMove DEF LimitTypes
<1>3. config.workers \in Nat /\ Depth \in Nat /\ MaxTime \in Nat
  BY ConfigTypes, Numbers DEF LimitTypes
<1>4. queue \in 0..Depth /\ sem \in 0..config.workers /\ now \in 0..MaxTime
  BY DEF LimitTypes
<1>5. config' = config /\ config' \in Configs /\ started' \in BOOLEAN /\ Depth' = Depth
  BY <1>2 DEF LimitMoves, LimitTypes, Depth
<1>6. queue' \in 0..Depth
  BY <1>1, <1>2, <1>3, <1>4 DEF LimitMoves, QueueMoves
<1>7. sem' \in 0..config.workers
  BY <1>1, <1>2, <1>3, <1>4 DEF LimitMoves, SemMoves
<1>8. now' \in 0..MaxTime
  BY <1>2, <1>3, <1>4 DEF LimitMoves, TimeMoves
<1>9. QED
  BY <1>5, <1>6, <1>7, <1>8, Zenon DEF LimitTypes

-----------------------------------------------------------------------------
Bucket == [tokens : Int, refill : 0..MaxTime, access : 0..MaxTime]

(* What refills a bucket is a number, and so is what is in it then. *)
LEMMA RefilledType ==
  ASSUME now \in 0..MaxTime, NEW b \in Bucket
  PROVE  Refilled(b) \in Int
<1>1. now - b.refill \in Int /\ b.tokens \in Int
  BY Numbers DEF Bucket
<1>2. Rate * (now - b.refill) \in Int /\ Capacity \in Int
  BY <1>1, Numbers
<1>3. QED
  BY <1>1, <1>2 DEF Refilled, Least

LEMMA RateTypesRequest ==
  ASSUME RateTypes, now \in 0..MaxTime, NEW r \in Requests, RequestNext(r)
  PROVE  RateTypes'
<1> USE DEF RateTypes
<1>1. CASE EnterQueue(r) \/ ServerBusy(r) \/ AcquireWorker(r) \/ QueueTimeout(r)
           \/ Finish(r) \/ TimeoutFires(r)
  BY <1>1 DEF EnterQueue, ServerBusy, AcquireWorker, QueueTimeout, Finish, TimeoutFires, rates
<1>2. CASE GetBucket(r)
  <2> DEFINE of == IF bucket = None THEN r ELSE bucket
             b == IF bucket = None THEN [tokens |-> Capacity, refill |-> now, access |-> now]
                  ELSE buckets[bucket]
  <2>1. of \in Requests
    BY Numbers
  <2>2. b \in Bucket
    BY Numbers DEF Bucket
  <2>3. Refilled(b) \in Int
    BY <2>2, RefilledType
  <2>4. /\ bucket' = of /\ buckets' = [buckets EXCEPT ![of] = b]
        /\ held' = [held EXCEPT ![r] = [of |-> of, time |-> now, tokens |-> Refilled(b)]]
        /\ overlap' = (overlap \/ \E x \in Requests : held[x].of = of) /\ allowed' = allowed
    BY <1>2 DEF GetBucket
  <2> HIDE DEF of, b
  <2>5. buckets' \in [Requests -> Bucket]
    BY <2>1, <2>2, <2>4 DEF Bucket
  <2>6. held' \in [Requests -> [of : Requests \cup {None}, time : 0..MaxTime, tokens : Int]]
    BY <2>1, <2>3, <2>4
  <2>7. overlap' \in BOOLEAN
    BY <2>4, Zenon
  <2>8. QED
    BY <2>1, <2>4, <2>5, <2>6, <2>7 DEF Bucket
<1>3. ASSUME held' = [held EXCEPT ![r] = NoBucket]
      PROVE  held' \in [Requests -> [of : Requests \cup {None}, time : 0..MaxTime, tokens : Int]]
  BY <1>3, Numbers DEF NoBucket
<1>4. CASE Pass(r)
  <2> DEFINE h == held[r]
  <2>1. h.tokens \in Int /\ h.time \in 0..MaxTime /\ h.of \in Requests \cup {None}
    OBVIOUS
  <2>2. PICK left \in {h.tokens - 1, buckets[h.of].tokens - 1} :
          buckets' = [buckets EXCEPT ![h.of] = [tokens |-> left, refill |-> h.time,
                                                access |-> h.time]]
    BY <1>4 DEF Pass
  <2>3. h.of \in Requests => left \in Int
    BY <2>1
  <2>4. buckets' \in [Requests -> Bucket]
    BY <2>1, <2>2, <2>3 DEF Bucket
  <2>5. QED
    BY <1>3, <1>4, <2>4 DEF Pass, Bucket
<1>5. CASE TooMany(r)
  <2> DEFINE h == held[r]
  <2>1. h.tokens \in Int /\ h.time \in 0..MaxTime
    OBVIOUS
  <2>2. buckets' = [buckets EXCEPT ![h.of] = [tokens |-> h.tokens, refill |-> h.time,
                                              access |-> h.time]]
    BY <1>5 DEF TooMany
  <2>3. buckets' \in [Requests -> Bucket]
    BY <2>1, <2>2 DEF Bucket
  <2>4. QED
    BY <1>3, <1>5, <2>3 DEF TooMany, Bucket
<1>6. QED
  BY <1>1, <1>2, <1>4, <1>5 DEF RequestNext

LEMMA RateTypesStep ==
  ASSUME RateTypes, now \in 0..MaxTime, [Next]_vars
  PROVE  RateTypes'
<1>1. CASE UNCHANGED rates
  BY <1>1 DEF RateTypes, rates
<1>2. ASSUME NEW r \in Requests, HandlerNext(r) PROVE UNCHANGED rates
  BY <1>2 DEF HandlerNext, FindRoute, ServeOther, AddFromHandler, BadSignature, ReadBody,
      RefuseBody, GetDeduper, MakeDeduper, Unnamed, SeenNot, SeenBefore, Publish, PublishPanics
<1>3. ASSUME NEW r \in Requests, Arrive(r) PROVE UNCHANGED rates
  BY <1>3 DEF Arrive
<1>4. ASSUME NEW route \in Routes, AddRoute(route) PROVE UNCHANGED rates
  BY <1>4 DEF AddRoute
<1>5. ASSUME Serve \/ Tick \/ CloseBus \/ UNCHANGED vars PROVE UNCHANGED rates
  BY <1>5 DEF Serve, Tick, CloseBus, vars
<1>6. CASE Cleanup
  <2>1. /\ bucket' = None /\ UNCHANGED <<buckets, held, allowed>>
        /\ overlap' = (overlap \/ \E x \in Requests : held[x].of = bucket)
    BY <1>6 DEF Cleanup
  <2>2. overlap' \in BOOLEAN
    BY <2>1, Zenon DEF RateTypes
  <2>3. QED
    BY <2>1, <2>2 DEF RateTypes
<1>7. QED
  BY <1>1, <1>2, <1>3, <1>4, <1>5, <1>6, RateTypesRequest DEF Next

-----------------------------------------------------------------------------
(* Only a handler that holds the read lock waits for the other. *)
LEMMA RouteTypesStep ==
  ASSUME RouteTypes, ControlInv, [Next]_vars
  PROVE  RouteTypes'
<1>1. CASE UNCHANGED <<table, reading, adding>>
  BY <1>1 DEF RouteTypes
<1>2. ASSUME NEW r \in Requests, RequestNext(r) PROVE UNCHANGED <<table, reading, adding>>
  BY <1>2 DEF RequestNext, EnterQueue, ServerBusy, AcquireWorker, QueueTimeout, GetBucket, Pass,
      TooMany, Finish, TimeoutFires, routing
<1>3. ASSUME NEW r \in Requests, HandlerNext(r) PROVE RouteTypes'
  <2>1. CASE FindRoute(r)
    BY <2>1 DEF FindRoute, RouteTypes
  <2>2. CASE AddFromHandler(r)
    BY <2>2 DEF AddFromHandler, RouteTypes, ControlInv, HandlerAt, Inside
  <2>3. CASE ReadBody(r) \/ GetDeduper(r) \/ MakeDeduper(r) \/ Unnamed(r) \/ SeenNot(r)
    BY <2>3 DEF ReadBody, GetDeduper, MakeDeduper, Unnamed, SeenNot, RouteTypes, routing
  <2>4. CASE ServeOther(r) \/ BadSignature(r) \/ RefuseBody(r) \/ SeenBefore(r) \/ Publish(r)
             \/ PublishPanics(r)
    <3>1. handler[r] # "adding" /\ reading' = reading \ {r} /\ UNCHANGED <<table, adding>>
      BY <2>4 DEF ServeOther, BadSignature, RefuseBody, SeenBefore, Publish, PublishPanics, Named,
                  EndHandler, HandlerAt
    <3>2. r \notin adding
      BY <3>1 DEF ControlInv
    <3>3. QED
      BY <3>1, <3>2 DEF RouteTypes
  <2>5. QED
    BY <1>3, <2>1, <2>2, <2>3, <2>4 DEF HandlerNext
<1>4. ASSUME NEW r \in Requests, Arrive(r) PROVE UNCHANGED <<table, reading, adding>>
  BY <1>4 DEF Arrive, routing
<1>5. ASSUME NEW route \in Routes, AddRoute(route) PROVE RouteTypes'
  BY <1>5 DEF AddRoute, RouteTypes
<1>6. ASSUME Serve \/ Tick \/ CloseBus \/ Cleanup \/ UNCHANGED vars
      PROVE  UNCHANGED <<table, reading, adding>>
  BY <1>6 DEF Serve, Tick, CloseBus, Cleanup, vars, routing
<1>7. QED
  BY <1>1, <1>2, <1>3, <1>4, <1>5, <1>6 DEF Next

-----------------------------------------------------------------------------
(* A request asks for an event there is, or for none. *)
LEMMA EventOf ==
  ASSUME RequestTypes, NEW r \in Requests
  PROVE  request[r].event \in Events \cup {None}
<1>1. \A a \in Lookups \cup Asks : a.event \in Events \cup {None}
  BY IngressAssumption
<1>2. NoRequest.event = None
  BY DEF NoRequest
<1>3. request[r] \in Lookups \cup Asks \cup {NoRequest}
  BY DEF RequestTypes
<1>4. QED
  BY <1>1, <1>2, <1>3

LEMMA HookTypesHandler ==
  ASSUME RequestTypes, HookTypes, now \in 0..MaxTime, NEW r \in Requests, HandlerNext(r)
  PROVE  HookTypes'
<1>1. request[r].event \in Events \cup {None}
  BY EventOf
<1> USE DEF HookTypes
<1>2. CASE FindRoute(r) \/ ServeOther(r) \/ AddFromHandler(r) \/ BadSignature(r) \/ ReadBody(r)
           \/ RefuseBody(r) \/ Unnamed(r)
  BY <1>2 DEF FindRoute, ServeOther, AddFromHandler, BadSignature, ReadBody, RefuseBody, Unnamed,
              hooks
<1>3. CASE GetDeduper(r) \/ MakeDeduper(r)
  BY <1>3 DEF GetDeduper, MakeDeduper
<1>4. CASE SeenNot(r)
  <2>1. now + DedupTTL \in Nat
    BY Numbers
  <2>2. seen' = [seen EXCEPT ![mine[r]][request[r].event] = now + DedupTTL]
        /\ UNCHANGED <<deduper, mine, busClosed, published, lost, repeated>>
    BY <1>4 DEF SeenNot
  <2>3. seen' \in [Requests -> [Events -> Nat]]
    BY <2>1, <2>2
  <2>4. QED
    BY <2>2, <2>3
<1>5. CASE SeenBefore(r)
  BY <1>1, <1>5 DEF SeenBefore
<1>6. CASE Publish(r) \/ PublishPanics(r)
  BY <1>1, <1>6 DEF Publish, PublishPanics
<1>7. QED
  BY <1>2, <1>3, <1>4, <1>5, <1>6 DEF HandlerNext

LEMMA HookTypesStep ==
  ASSUME RequestTypes, HookTypes, now \in 0..MaxTime, [Next]_vars
  PROVE  HookTypes'
<1>1. CASE UNCHANGED hooks
  BY <1>1 DEF HookTypes, hooks
<1>2. ASSUME NEW r \in Requests, RequestNext(r) PROVE UNCHANGED hooks
  BY <1>2 DEF RequestNext, EnterQueue, ServerBusy, AcquireWorker, QueueTimeout, GetBucket, Pass,
      TooMany, Finish, TimeoutFires
<1>3. ASSUME NEW r \in Requests, Arrive(r) PROVE UNCHANGED hooks
  BY <1>3 DEF Arrive
<1>4. ASSUME NEW route \in Routes, AddRoute(route) PROVE UNCHANGED hooks
  BY <1>4 DEF AddRoute
<1>5. ASSUME Serve \/ Tick \/ Cleanup \/ UNCHANGED vars PROVE UNCHANGED hooks
  BY <1>5 DEF Serve, Tick, Cleanup, vars
<1>6. CASE CloseBus
  BY <1>6 DEF CloseBus, HookTypes
<1>7. QED
  BY <1>1, <1>2, <1>3, <1>4, <1>5, <1>6, HookTypesHandler DEF Next

LEMMA TypeStep == IInv /\ TokenInv' /\ [Next]_vars => TypeOK'
<1> SUFFICES ASSUME IInv, TokenInv', [Next]_vars PROVE TypeOK'
  OBVIOUS
<1>1. RequestTypes /\ LimitTypes /\ RateTypes /\ RouteTypes /\ HookTypes /\ ControlInv
  BY TypeParts DEF IInv
<1>2. now \in 0..MaxTime
  BY <1>1 DEF LimitTypes
<1>3. RequestTypes' /\ LimitTypes' /\ RateTypes' /\ RouteTypes' /\ HookTypes'
  BY <1>1, <1>2, RequestTypesStep, LimitTypesStep, RateTypesStep, RouteTypesStep, HookTypesStep
<1>4. QED
  BY <1>3 DEF TypeOK, RequestTypes, LimitTypes, RateTypes, RouteTypes, HookTypes

LEMMA Inductive == Spec => []IInv
<1>1. Init => IInv
  BY TypeInit, ControlInit, TokenInit DEF IInv
<1>2. IInv /\ [Next]_vars => IInv'
  BY TypeStep, ControlStep, TokenStep DEF IInv
<1>3. QED
  BY <1>1, <1>2, PTL DEF Spec

-----------------------------------------------------------------------------
(* The variables have their types, whatever the limits: the queue and the  *)
(* workers are never over what the two channels hold, and no handler waits *)
(* to write the routes that does not read them.                            *)
THEOREM TypeCorrect == Spec => []TypeOK
<1>1. IInv => TypeOK
  BY DEF IInv
<1>2. QED
  BY <1>1, Inductive, PTL

(* Every exit of a request, in time or not, gives back the tokens of the    *)
(* concurrency limit it holds and no more: what is in the two channels is   *)
(* always the number of requests that have entered and not left.            *)
THEOREM TokensCorrect == Spec => []TokensHeld
<1>1. IInv => TokensHeld
  BY DEF IInv, TokenInv, TokensHeld, Queued, Working
<1>2. QED
  BY <1>1, Inductive, PTL

-----------------------------------------------------------------------------
(* What is written late. *)
LateInv ==
    \A r \in late : stage[r] = "done" /\ withTimeout /\ TooLarge(request[r].body)

LEMMA LateStep ==
  ASSUME RequestTypes, ControlInv, LateInv, [Next]_vars
  PROVE  LateInv'
<1> USE DEF LateInv, withTimeout, RequestTypes
<1>1. CASE UNCHANGED <<late, stage, config, request>>
  BY <1>1 DEF TooLarge
<1>2. ASSUME NEW r \in Requests, Arrive(r) PROVE LateInv'
  BY <1>2 DEF Arrive, At, GoTo, answers, TooLarge
<1>3. ASSUME NEW r \in Requests, RequestNext(r) PROVE LateInv'
  <2>1. /\ UNCHANGED <<late, config, request>>
        /\ stage[r] # "done" /\ \A x \in Requests \ {r} : stage'[x] = stage[x]
    BY <1>3 DEF RequestNext, EnterQueue, ServerBusy, AcquireWorker, QueueTimeout, GetBucket, Pass,
        TooMany, Finish, TimeoutFires, Leave, At, GoTo, serving, answers
  <2>2. QED
    BY <2>1 DEF TooLarge
<1>4. ASSUME NEW r \in Requests, RefuseBody(r) PROVE LateInv'
  <2>1. /\ UNCHANGED <<stage, config, request>> /\ handler[r] = "routed"
        /\ TooLarge(request[r].body)
        /\ late' = IF stage[r] = "done" THEN late \cup {r} ELSE late
    BY <1>4 DEF RefuseBody, AnswerAtOnce, HandlerAt, At, serving
  <2>2. stage[r] = "done" => config.timeout
    BY <2>1 DEF ControlInv
  <2>3. QED
    BY <2>1, <2>2 DEF TooLarge
<1>5. ASSUME NEW r \in Requests, HandlerNext(r), ~RefuseBody(r)
      PROVE  UNCHANGED <<late, stage, config, request>>
  BY <1>5 DEF HandlerNext, FindRoute, ServeOther, AddFromHandler, BadSignature, ReadBody,
     GetDeduper,
      MakeDeduper, Unnamed, SeenNot, SeenBefore, Publish, PublishPanics, Answer, serving,
      answers
<1>6. ASSUME NEW route \in Routes, AddRoute(route) PROVE UNCHANGED <<late, stage, config, request>>
  BY <1>6 DEF AddRoute, answers, serving
<1>7. ASSUME Serve \/ Tick \/ CloseBus \/ Cleanup \/ UNCHANGED vars
      PROVE  UNCHANGED <<late, stage, config, request>>
  BY <1>7 DEF Serve, Tick, CloseBus, Cleanup, vars, answers, serving
<1>8. QED
  BY <1>1, <1>2, <1>3, <1>4, <1>5, <1>6, <1>7 DEF Next

(* A request is written to after its end only by a body limit that is       *)
(* exceeded once the timeout has answered.                                  *)
THEOREM NothingLate == Spec => []NoLateWrite
<1>1. Init => LateInv
  BY DEF Init, LateInv
<1>2. IInv /\ LateInv /\ [Next]_vars => LateInv'
  BY LateStep, TypeParts DEF IInv
<1>3. LateInv => NoLateWrite
  BY DEF LateInv, NoLateWrite
<1>4. QED
  BY <1>1, <1>2, <1>3, Inductive, PTL DEF Spec

-----------------------------------------------------------------------------
(* An event that was accepted is marked in the deduper of its request. *)
Marked(a) ==
    /\ a.by \in Requests /\ a.event \in Events /\ a.time \in Nat
    /\ handler[a.by] \in {"publishing", "end"} /\ mine[a.by] \in Requests
    /\ seen[mine[a.by]][a.event] >= a.time + DedupTTL

MarkInv == \A a \in accepted : Marked(a)

(* A handler past the deduper keeps the one it has. *)
LEMMA MineStays ==
  ASSUME RequestTypes, HookTypes, ControlInv, [Next]_vars, NEW r \in Requests,
         handler[r] \in {"publishing", "end"}
  PROVE  handler'[r] \in {"publishing", "end"} /\ mine'[r] = mine[r]
<1> USE DEF RequestTypes, HookTypes, HandlerAt, HandlerGoesTo
<1>1. CASE UNCHANGED <<handler, mine>>
  BY <1>1
<1>2. ASSUME NEW x \in Requests, RequestNext(x), ~Pass(x) PROVE UNCHANGED <<handler, mine>>
  BY <1>2 DEF RequestNext, EnterQueue, ServerBusy, AcquireWorker, QueueTimeout, GetBucket,
      TooMany, Finish, TimeoutFires, hooks
<1>3. ASSUME NEW x \in Requests, Pass(x) PROVE x # r /\ mine' = mine /\ handler'[r] = handler[r]
  BY <1>3 DEF Pass, At, ControlInv, hooks
<1>4. ASSUME NEW x \in Requests, HandlerNext(x)
      PROVE  handler'[r] \in {"publishing", "end"} /\ mine'[r] = mine[r]
  <2>1. CASE FindRoute(x) \/ AddFromHandler(x) \/ ReadBody(x) \/ Unnamed(x) \/ SeenNot(x)
    BY <2>1 DEF FindRoute, AddFromHandler, ReadBody, Unnamed, SeenNot, Named, hooks
  <2>2. CASE ServeOther(x) \/ BadSignature(x) \/ RefuseBody(x) \/ SeenBefore(x) \/ Publish(x)
             \/ PublishPanics(x)
    BY <2>2 DEF ServeOther, BadSignature, RefuseBody, SeenBefore, Publish, PublishPanics, Named,
                EndHandler, hooks
  <2>3. CASE GetDeduper(x) \/ MakeDeduper(x)
    BY <2>3 DEF GetDeduper, MakeDeduper
  <2>4. QED
    BY <1>4, <2>1, <2>2, <2>3 DEF HandlerNext
<1>5. ASSUME NEW x \in Requests, Arrive(x) PROVE UNCHANGED <<handler, mine>>
  BY <1>5 DEF Arrive, hooks
<1>6. ASSUME NEW route \in Routes, AddRoute(route) PROVE UNCHANGED <<handler, mine>>
  BY <1>6 DEF AddRoute, hooks
<1>7. ASSUME Serve \/ Tick \/ CloseBus \/ Cleanup \/ UNCHANGED vars
      PROVE  UNCHANGED <<handler, mine>>
  BY <1>7 DEF Serve, Tick, CloseBus, Cleanup, vars, hooks
<1>8. QED
  BY <1>1, <1>2, <1>3, <1>4, <1>5, <1>6, <1>7 DEF Next

(* Only SeenNot marks. *)
LEMMA OnlySeenNotMarks ==
  ASSUME [Next]_vars, \A r \in Requests : ~SeenNot(r)
  PROVE  UNCHANGED <<accepted, seen>>
<1>1. ASSUME NEW r \in Requests, RequestNext(r) PROVE UNCHANGED <<accepted, seen>>
  BY <1>1 DEF RequestNext, EnterQueue, ServerBusy, AcquireWorker, QueueTimeout, GetBucket, Pass,
      TooMany, Finish, TimeoutFires, hooks
<1>2. ASSUME NEW r \in Requests, HandlerNext(r), ~SeenNot(r) PROVE UNCHANGED <<accepted, seen>>
  BY <1>2 DEF HandlerNext, FindRoute, ServeOther, AddFromHandler, BadSignature, ReadBody,
     RefuseBody,
      GetDeduper, MakeDeduper, Unnamed, SeenBefore, Publish, PublishPanics, hooks
<1>3. ASSUME NEW r \in Requests, Arrive(r) PROVE UNCHANGED <<accepted, seen>>
  BY <1>3 DEF Arrive, hooks
<1>4. ASSUME NEW route \in Routes, AddRoute(route) PROVE UNCHANGED <<accepted, seen>>
  BY <1>4 DEF AddRoute, hooks
<1>5. CASE Serve \/ Tick \/ CloseBus \/ Cleanup \/ UNCHANGED vars
  BY <1>5 DEF Serve, Tick, CloseBus, Cleanup, vars, hooks
<1>6. QED
  BY <1>1, <1>2, <1>3, <1>4, <1>5 DEF Next

LEMMA MarkStep ==
  ASSUME IInv, MarkInv, [Next]_vars
  PROVE  MarkInv'
<1>1. RequestTypes /\ HookTypes /\ ControlInv /\ now \in 0..MaxTime
  BY TypeParts DEF IInv, LimitTypes
<1>2. seen \in [Requests -> [Events -> Nat]] /\ mine \in [Requests -> Requests \cup {None}]
  BY <1>1 DEF HookTypes
<1>3. ASSUME NEW a \in accepted,
             \A d \in Requests, e \in Events : seen'[d][e] >= seen[d][e] /\ seen'[d][e] \in Nat
      PROVE  Marked(a)'
  <2>1. Marked(a)
    BY DEF MarkInv
  <2>2. handler'[a.by] \in {"publishing", "end"} /\ mine'[a.by] = mine[a.by]
    BY <1>1, <2>1, MineStays DEF Marked
  <2>3. seen'[mine[a.by]][a.event] >= a.time + DedupTTL
    BY <1>2, <1>3, <2>1, Numbers DEF Marked
  <2>4. QED
    BY <2>1, <2>2, <2>3 DEF Marked
<1>4. CASE UNCHANGED <<accepted, seen>>
  BY <1>2, <1>3, <1>4 DEF MarkInv
<1>5. ASSUME NEW r \in Requests, SeenNot(r) PROVE MarkInv'
  <2> DEFINE e == request[r].event
             c == [event |-> e, time |-> now, by |-> r]
  <2>1. /\ seen' = [seen EXCEPT ![mine[r]][e] = now + DedupTTL] /\ accepted' = accepted \cup {c}
        /\ handler' = [handler EXCEPT ![r] = "publishing"] /\ mine' = mine
        /\ now >= seen[mine[r]][e] /\ e # None /\ handler[r] = "asking"
    BY <1>5 DEF SeenNot, Named, Expiry, HandlerAt, HandlerGoesTo
  <2>2. e \in Events /\ mine[r] \in Requests /\ now \in Nat /\ now + DedupTTL \in Nat
    BY <1>1, <2>1, EventOf, Numbers DEF ControlInv
  <2> HIDE DEF e
  <2>3. now + DedupTTL >= seen[mine[r]][e]
    BY <1>2, <2>1, <2>2, Numbers
  <2>4. \A d \in Requests, x \in Events : seen'[d][x] >= seen[d][x] /\ seen'[d][x] \in Nat
    BY <1>2, <2>1, <2>2, <2>3
  <2>5. ASSUME NEW a, a = c PROVE Marked(a)'
    <3>1. handler'[r] = "publishing" /\ mine'[r] \in Requests
      BY <1>1, <2>1, <2>2 DEF RequestTypes
    <3>2. seen'[mine'[r]][e] = now + DedupTTL
      BY <1>2, <2>1, <2>2
    <3>3. a.by = r /\ a.event = e /\ a.time = now /\ now + DedupTTL >= now + DedupTTL
      BY <2>2, <2>5
    <3>4. QED
      BY <2>2, <3>1, <3>2, <3>3 DEF Marked
  <2>6. QED
    BY <1>3, <2>1, <2>4, <2>5 DEF MarkInv
<1>6. QED
  BY <1>4, <1>5, OnlySeenNotMarks

LEMMA OnceStep ==
  ASSUME IInv, MarkInv, AcceptedOnce, [Next]_vars
  PROVE  AcceptedOnce'
<1>1. RequestTypes /\ HookTypes /\ ControlInv /\ now \in 0..MaxTime
  BY TypeParts DEF IInv, LimitTypes
<1>2. seen \in [Requests -> [Events -> Nat]]
  BY <1>1 DEF HookTypes
<1>3. ASSUME NEW a \in accepted, NEW b \in accepted, a # b, a.event = b.event
      PROVE  \/ a.time >= b.time + DedupTTL \/ b.time >= a.time + DedupTTL
             \/ mine'[a.by] # mine'[b.by]
  <2>1. Marked(a) /\ Marked(b)
    BY DEF MarkInv
  <2>2. mine'[a.by] = mine[a.by] /\ mine'[b.by] = mine[b.by]
    BY <1>1, <2>1, MineStays DEF Marked
  <2>3. QED
    BY <1>3, <2>2 DEF AcceptedOnce
<1>4. CASE UNCHANGED <<accepted, seen>>
  BY <1>3, <1>4 DEF AcceptedOnce
<1>5. ASSUME NEW r \in Requests, SeenNot(r) PROVE AcceptedOnce'
  <2> DEFINE c == [event |-> request[r].event, time |-> now, by |-> r]
  <2>1. /\ accepted' = accepted \cup {c} /\ mine' = mine
        /\ now >= seen[mine[r]][request[r].event]
    BY <1>5 DEF SeenNot, Named, Expiry
  <2>2. ASSUME NEW b \in accepted, b.event = c.event
        PROVE  c.time >= b.time + DedupTTL \/ mine'[b.by] # mine'[c.by]
    <3>1. Marked(b)
      BY DEF MarkInv
    <3>2. CASE mine[b.by] = mine[r]
      <4>1. seen[mine[r]][request[r].event] >= b.time + DedupTTL
        BY <2>2, <3>1, <3>2 DEF Marked
      <4>2. seen[mine[r]][request[r].event] \in Nat
        BY <1>2, <2>2, <3>1, <3>2 DEF Marked
      <4>3. QED
        BY <1>1, <2>1, <3>1, <4>1, <4>2, Numbers DEF Marked
    <3>3. QED
      BY <2>1, <3>2
  <2>3. QED
    BY <1>3, <2>1, <2>2 DEF AcceptedOnce
<1>6. QED
  BY <1>4, <1>5, OnlySeenNotMarks

(* An event is accepted again only after its time, or in another deduper,   *)
(* which only first requests that come together make.                       *)
THEOREM DedupCorrect == Spec => []AcceptedOnce
<1>1. Init => MarkInv /\ AcceptedOnce
  BY DEF Init, MarkInv, AcceptedOnce
<1>2. IInv /\ MarkInv /\ AcceptedOnce /\ [Next]_vars => MarkInv' /\ AcceptedOnce'
  BY MarkStep, OnceStep
<1>3. QED
  BY <1>1, <1>2, Inductive, PTL DEF Spec

-----------------------------------------------------------------------------
(* The limiter.  A request is at a bucket while it is in the limiter, and   *)
(* it passes once.                                                          *)
LimiterInv ==
    /\ IsFiniteSet(allowed)
    /\ \A r \in Requests :
         /\ held[r].of # None <=> stage[r] = "limiting"
         /\ r \in allowed => stage[r] \in {"running", "done"}

(* A bucket in the map has not given out more than was put into it.        *)
BucketKept(b) ==
    /\ b.tokens >= 0 /\ b.refill = b.access /\ b.refill <= now
    /\ Cardinality(allowed) + b.tokens <= Capacity + Rate * b.refill

(* What a request read of it is still there. *)
HoldKept(h, b) ==
    /\ h.time >= b.refill /\ h.time <= now /\ h.tokens >= 0
    /\ h.tokens <= b.tokens + Rate * (h.time - b.refill)

Rest == (\A r \in Requests : held[r].of = None) /\ Cardinality(allowed) <= Rate * now

InUse ==
    /\ BucketKept(buckets[bucket])
    /\ \A r \in Requests :
         held[r].of # None =>
             /\ held[r].of = bucket /\ HoldKept(held[r], buckets[bucket])
             /\ \A x \in Requests : held[x].of # None => x = r

(* A bucket that is taken out for being idle would have been full. *)
FullWhenIdle == Rate * (MaxIdle + 1) >= Capacity

RateInv ==
    FullWhenIdle /\ ~overlap => IF bucket = None THEN Rest ELSE InUse

LEMMA Growth ==
  ASSUME NEW x \in Int, NEW y \in Int
  PROVE  /\ Rate * x \in Int /\ Rate * y \in Int
         /\ Rate * (x + y) = Rate * x + Rate * y
         /\ Rate * (x - y) = Rate * x - Rate * y
         /\ x <= y => Rate * x <= Rate * y
         /\ Rate * 0 = 0
  BY Numbers

LEMMA LimiterStep ==
  ASSUME RequestTypes, RateTypes, LimiterInv, [Next]_vars
  PROVE  LimiterInv'
<1> USE DEF RequestTypes, RateTypes, LimiterInv, At, GoTo
<1>1. CASE UNCHANGED <<stage, held, allowed>>
  BY <1>1
<1>2. ASSUME NEW r \in Requests, Arrive(r) PROVE LimiterInv'
  BY <1>2 DEF Arrive, rates
<1>3. ASSUME NEW r \in Requests, EnterQueue(r) \/ ServerBusy(r) \/ AcquireWorker(r) \/ QueueTimeout(r)
      PROVE  LimiterInv'
  BY <1>3 DEF EnterQueue, ServerBusy, AcquireWorker, QueueTimeout, rates
<1>4. ASSUME NEW r \in Requests, Finish(r) \/ TimeoutFires(r) PROVE LimiterInv'
  BY <1>4 DEF Finish, TimeoutFires, Leave, rates
<1>5. ASSUME NEW r \in Requests, GetBucket(r) PROVE LimiterInv'
  <2>1. PICK of \in Requests :
          \E k : held' = [held EXCEPT ![r] = [of |-> of, time |-> now, tokens |-> k]]
    <3>1. (IF bucket = None THEN r ELSE bucket) \in Requests
      OBVIOUS
    <3>2. QED
      BY <1>5, <3>1 DEF GetBucket
  <2>2. stage' = [stage EXCEPT ![r] = "limiting"] /\ allowed' = allowed /\ stage[r] = "admitted"
    BY <1>5 DEF GetBucket
  <2>3. held'[r].of = of /\ of # None /\ \A x \in Requests \ {r} : held'[x] = held[x]
    BY <2>1, Numbers
  <2>4. QED
    BY <2>2, <2>3
<1>6. ASSUME NEW r \in Requests, Pass(r) PROVE LimiterInv'
  <2>1. /\ held' = [held EXCEPT ![r] = NoBucket] /\ stage' = [stage EXCEPT ![r] = "running"]
        /\ allowed' = allowed \cup {r}
    BY <1>6 DEF Pass
  <2>2. IsFiniteSet(allowed')
    BY <2>1, CountMoves
  <2>3. QED
    BY <2>1, <2>2 DEF NoBucket
<1>7. ASSUME NEW r \in Requests, TooMany(r) PROVE LimiterInv'
  BY <1>7 DEF TooMany, Leave, NoBucket
<1>8. ASSUME NEW r \in Requests, HandlerNext(r) PROVE UNCHANGED <<stage, held, allowed>>
  BY <1>8 DEF HandlerNext, FindRoute, ServeOther, AddFromHandler, BadSignature, ReadBody,
      RefuseBody, GetDeduper, MakeDeduper, Unnamed, SeenNot, SeenBefore, Publish, PublishPanics,
      rates
<1>9. ASSUME NEW route \in Routes, AddRoute(route) PROVE UNCHANGED <<stage, held, allowed>>
  BY <1>9 DEF AddRoute, rates
<1>10. ASSUME Serve \/ Tick \/ CloseBus \/ Cleanup \/ UNCHANGED vars
       PROVE  UNCHANGED <<stage, held, allowed>>
  BY <1>10 DEF Serve, Tick, CloseBus, Cleanup, vars, rates
<1>11. QED
  BY <1>1, <1>2, <1>3, <1>4, <1>5, <1>6, <1>7, <1>8, <1>9, <1>10 DEF Next, RequestNext

(* Time alone puts nothing out of order. *)
LEMMA RateTick ==
  ASSUME RateTypes, LimiterInv, RateInv, now \in 0..MaxTime, now' \in 0..MaxTime, now <= now',
         UNCHANGED rates
  PROVE  RateInv'
<1>1. bucket' = bucket /\ buckets' = buckets /\ held' = held /\ allowed' = allowed
      /\ overlap' = overlap
  BY DEF rates
<1>2. CASE FullWhenIdle /\ ~overlap /\ bucket = None /\ Rest
  <2>1. Cardinality(allowed) \in Nat
    BY FS_CardinalityType DEF LimiterInv
  <2>2. now \in Int /\ now' \in Int
    BY Numbers
  <2>3. Rate * now <= Rate * now' /\ Rate * now \in Int /\ Rate * now' \in Int
    BY <2>2, Growth
  <2>4. Cardinality(allowed) <= Rate * now'
    BY <1>2, <2>1, <2>3 DEF Rest
  <2>5. QED
    BY <1>1, <1>2, <2>4 DEF RateInv, Rest
<1>3. CASE FullWhenIdle /\ ~overlap /\ bucket # None /\ InUse
  <2>1. BucketKept(buckets[bucket])'
    BY <1>1, <1>3, Numbers DEF InUse, BucketKept, RateTypes
  <2>2. ASSUME NEW r \in Requests, HoldKept(held[r], buckets[bucket])
        PROVE  HoldKept(held[r], buckets[bucket])'
    BY <1>1, <2>2, Numbers DEF HoldKept, RateTypes
  <2>3. QED
    BY <1>1, <1>3, <2>1, <2>2 DEF RateInv, InUse
<1>4. QED
  BY <1>1, <1>2, <1>3 DEF RateInv

(* A request that comes to the bucket, with no other there. *)
LEMMA RateGet ==
  ASSUME RateTypes, LimiterInv, RateInv, now \in 0..MaxTime, NEW r \in Requests, GetBucket(r)
  PROVE  RateInv'
<1> DEFINE of == IF bucket = None THEN r ELSE bucket
           b == IF bucket = None THEN [tokens |-> Capacity, refill |-> now, access |-> now]
                ELSE buckets[bucket]
           h == [of |-> of, time |-> now, tokens |-> Refilled(b)]
<1>1. /\ bucket' = of /\ buckets' = [buckets EXCEPT ![of] = b]
      /\ held' = [held EXCEPT ![r] = h]
      /\ overlap' = (overlap \/ \E x \in Requests : held[x].of = of)
      /\ allowed' = allowed /\ now' = now
  BY DEF GetBucket
<1> SUFFICES ASSUME FullWhenIdle, ~overlap' PROVE (bucket' # None /\ InUse')
  BY DEF RateInv
<1>2. ~overlap /\ \A x \in Requests : held[x].of # of
  BY <1>1
<1>3. of \in Requests /\ of # None /\ (bucket # None => of = bucket)
  BY Numbers DEF RateTypes
<1>4. b \in Bucket
  BY Numbers DEF RateTypes, Bucket
<1>5. Cardinality(allowed) \in Nat
  BY FS_CardinalityType DEF LimiterInv
<1>6. BucketKept(b)
  <2>1. CASE bucket = None
    <3>1. Cardinality(allowed) <= Rate * now /\ Rate * now \in Int
      BY <1>2, <2>1, Growth DEF RateInv, Rest
    <3>2. b.tokens = Capacity /\ b.refill = now /\ b.access = now
      BY <2>1
    <3>3. QED
      BY <1>5, <3>1, <3>2, Numbers DEF BucketKept
  <2>2. CASE bucket # None
    BY <1>2, <2>2 DEF RateInv, InUse
  <2>3. QED
    BY <2>1, <2>2
<1>7. \A x \in Requests : held[x].of = None
  BY <1>2, <1>3 DEF RateInv, Rest, InUse
<1> HIDE DEF b, of
<1>8. HoldKept(h, b)
  <2>1. b.tokens \in Int /\ b.refill \in Int /\ now \in Int /\ now - b.refill \in Nat
        /\ b.tokens >= 0 /\ b.refill <= now
    BY <1>4, <1>6, Numbers DEF Bucket, BucketKept
  <2>2. Rate * (now - b.refill) \in Int /\ Rate * (now - b.refill) >= 0
    <3>1. 0 \in Int /\ now - b.refill \in Int /\ 0 <= now - b.refill
      BY <2>1
    <3>2. QED
      BY <3>1, Growth
  <2>3. Refilled(b) >= 0 /\ Refilled(b) <= b.tokens + Rate * (now - b.refill)
    BY <2>1, <2>2, Numbers DEF Refilled, Least
  <2>4. h.time = now /\ h.tokens = Refilled(b)
    OBVIOUS
  <2>5. QED
    BY <2>1, <2>3, <2>4 DEF HoldKept
<1>9. buckets'[bucket'] = b /\ bucket' = of
  BY <1>1, <1>3 DEF RateTypes
<1>10. held'[r] = h /\ h.of = of /\ \A x \in Requests \ {r} : held'[x].of = None
  BY <1>1, <1>7 DEF RateTypes
<1>11. BucketKept(buckets[bucket])'
  BY <1>1, <1>6, <1>9 DEF BucketKept
<1>12. HoldKept(held[r], buckets[bucket])'
  BY <1>1, <1>8, <1>9, <1>10 DEF HoldKept
<1>13. QED
  BY <1>3, <1>9, <1>10, <1>11, <1>12 DEF InUse

(* A request that passes takes what it read. *)
LEMMA RatePass ==
  ASSUME RateTypes, RequestTypes, LimiterInv, RateInv, now \in 0..MaxTime,
         NEW r \in Requests, Pass(r) \/ TooMany(r)
  PROVE  RateInv'
<1> DEFINE h == held[r]
           b == buckets[bucket]
<1>1. /\ stage[r] = "limiting" /\ held' = [held EXCEPT ![r] = NoBucket]
      /\ bucket' = bucket /\ overlap' = overlap /\ now' = now
  BY DEF Pass, TooMany, At
<1> SUFFICES ASSUME FullWhenIdle, ~overlap PROVE (bucket' # None /\ InUse')
  BY <1>1 DEF RateInv
<1>2. h.of # None /\ r \notin allowed /\ IsFiniteSet(allowed)
  BY <1>1 DEF LimiterInv
<1>3. bucket # None /\ InUse
  BY <1>2 DEF RateInv, Rest
<1>4. bucket \in Requests /\ h.of = bucket
  BY <1>2, <1>3 DEF InUse, RateTypes
<1>5. BucketKept(b) /\ HoldKept(h, b)
  BY <1>2, <1>3 DEF InUse
<1> DEFINE Leaves(left) ==
             /\ left >= 0 /\ Cardinality(allowed') \in Int
             /\ Cardinality(allowed') + left = Cardinality(allowed) + h.tokens
             /\ buckets' = [buckets EXCEPT ![h.of] =
                               [tokens |-> left, refill |-> h.time, access |-> h.time]]
<1>6. PICK left \in Int : Leaves(left)
  <2>1. h.tokens \in Int /\ Cardinality(allowed) \in Nat
    BY <1>2, FS_CardinalityType DEF RateTypes
  <2>2. CASE Pass(r)
    <3>1. /\ h.tokens >= 1 /\ allowed' = allowed \cup {r}
          /\ buckets' = [buckets EXCEPT ![h.of] =
                          [tokens |-> h.tokens - 1, refill |-> h.time, access |-> h.time]]
      BY <2>2 DEF Pass
    <3>2. Cardinality(allowed') = Cardinality(allowed) + 1
      BY <1>2, <3>1, CountMoves
    <3>3. h.tokens - 1 \in Int /\ Leaves(h.tokens - 1)
      BY <2>1, <3>1, <3>2
    <3>4. QED
      BY <3>3, Zenon
  <2>3. CASE TooMany(r)
    <3>1. /\ allowed' = allowed
          /\ buckets' = [buckets EXCEPT ![h.of] =
                          [tokens |-> h.tokens, refill |-> h.time, access |-> h.time]]
      BY <2>3 DEF TooMany
    <3>2. h.tokens \in Int /\ Leaves(h.tokens)
      BY <1>5, <2>1, <3>1 DEF HoldKept
    <3>3. QED
      BY <3>2, Zenon
  <2>4. QED
    BY <2>2, <2>3
<1>7. buckets'[bucket'] = [tokens |-> left, refill |-> h.time, access |-> h.time]
  BY <1>1, <1>4, <1>6 DEF RateTypes
<1>8. \A x \in Requests : held'[x].of = None
  BY <1>1, <1>2, <1>3 DEF InUse, RateTypes, NoBucket
<1>9. BucketKept(buckets[bucket])'
  <2>1. /\ h.time \in Int /\ h.tokens \in Int /\ b.refill \in Int /\ b.tokens \in Int
        /\ Cardinality(allowed) \in Nat
    BY <1>2, <1>4, FS_CardinalityType, Numbers DEF RateTypes
  <2>2. Rate * (h.time - b.refill) = Rate * h.time - Rate * b.refill
        /\ Rate * h.time \in Int /\ Rate * b.refill \in Int
    BY <2>1, Growth
  <2>3. Cardinality(allowed) + b.tokens <= Capacity + Rate * b.refill
    BY <1>5 DEF BucketKept
  <2>4. h.tokens <= b.tokens + Rate * (h.time - b.refill) /\ h.time <= now
    BY <1>5 DEF HoldKept
  <2>5. Cardinality(allowed') + left <= Capacity + Rate * h.time
    BY <1>6, <2>1, <2>2, <2>3, <2>4, Numbers
  <2>6. QED
    BY <1>1, <1>6, <1>7, <2>1, <2>4, <2>5 DEF BucketKept
<1>10. QED
  BY <1>1, <1>3, <1>8, <1>9 DEF InUse

(* A bucket that is taken out with nobody at it was idle for long enough. *)
LEMMA RateCleanup ==
  ASSUME RateTypes, LimiterInv, RateInv, now \in 0..MaxTime, Cleanup
  PROVE  RateInv'
<1> DEFINE b == buckets[bucket]
<1>1. /\ bucket # None /\ now - b.access > MaxIdle /\ bucket' = None
      /\ overlap' = (overlap \/ \E x \in Requests : held[x].of = bucket)
      /\ UNCHANGED <<held, allowed, now>>
  BY DEF Cleanup
<1> SUFFICES ASSUME FullWhenIdle, ~overlap' PROVE Rest'
  BY <1>1 DEF RateInv
<1>2. ~overlap /\ \A x \in Requests : held[x].of # bucket
  BY <1>1
<1>3. InUse
  BY <1>1, <1>2 DEF RateInv
<1>4. \A x \in Requests : held[x].of = None
  BY <1>2, <1>3 DEF InUse
<1>5. BucketKept(b)
  BY <1>3 DEF InUse
<1>6. /\ b.refill \in Int /\ b.tokens \in Int /\ now \in Int /\ MaxIdle + 1 \in Int
      /\ now - b.refill \in Int /\ MaxIdle + 1 <= now - b.refill
  <2>1. b \in Bucket
    BY <1>1 DEF RateTypes, Bucket
  <2>2. b.access = b.refill
    BY <1>5 DEF BucketKept
  <2>3. QED
    BY <1>1, <2>1, <2>2, Numbers DEF Bucket
<1>7. Cardinality(allowed) \in Nat
  BY FS_CardinalityType DEF LimiterInv
<1>8. /\ Rate * (MaxIdle + 1) <= Rate * (now - b.refill)
      /\ Rate * (MaxIdle + 1) \in Int /\ Rate * (now - b.refill) \in Int
  BY <1>6, Growth
<1>9. /\ Rate * (now - b.refill) = Rate * now - Rate * b.refill
      /\ Rate * now \in Int /\ Rate * b.refill \in Int
  BY <1>6, Growth
<1>10. Cardinality(allowed) <= Rate * now
  BY <1>5, <1>6, <1>7, <1>8, <1>9, Numbers DEF BucketKept, FullWhenIdle
<1>11. QED
  BY <1>1, <1>4, <1>10 DEF Rest

LEMMA RateStep ==
  ASSUME IInv, LimiterInv, RateInv, [Next]_vars, now' \in 0..MaxTime
  PROVE  RateInv'
<1>1. RequestTypes /\ RateTypes /\ now \in 0..MaxTime
  BY TypeParts DEF IInv, LimitTypes
<1>2. now <= now'
  <2>1. now' = now \/ now' = now + 1
    BY LimitsMove, TypeParts DEF IInv, LimitTypes, LimitMoves, TimeMoves
  <2>2. now \in Int
    BY <1>1, Numbers
  <2>3. QED
    BY <2>1, <2>2
<1>3. CASE UNCHANGED rates
  BY <1>1, <1>2, <1>3, RateTick
<1>4. ASSUME NEW r \in Requests, RequestNext(r) PROVE RateInv'
  <2>1. CASE GetBucket(r)
    BY <1>1, <2>1, RateGet
  <2>2. CASE Pass(r) \/ TooMany(r)
    BY <1>1, <2>2, RatePass
  <2>3. CASE EnterQueue(r) \/ ServerBusy(r) \/ AcquireWorker(r) \/ QueueTimeout(r) \/ Finish(r)
             \/ TimeoutFires(r)
    BY <1>3, <2>3 DEF EnterQueue, ServerBusy, AcquireWorker, QueueTimeout, Finish, TimeoutFires
  <2>4. QED
    BY <1>4, <2>1, <2>2, <2>3 DEF RequestNext
<1>5. ASSUME NEW r \in Requests, HandlerNext(r) PROVE UNCHANGED rates
  BY <1>5 DEF HandlerNext, FindRoute, ServeOther, AddFromHandler, BadSignature, ReadBody,
      RefuseBody, GetDeduper, MakeDeduper, Unnamed, SeenNot, SeenBefore, Publish, PublishPanics
<1>6. ASSUME NEW r \in Requests, Arrive(r) PROVE UNCHANGED rates
  BY <1>6 DEF Arrive
<1>7. ASSUME NEW route \in Routes, AddRoute(route) PROVE UNCHANGED rates
  BY <1>7 DEF AddRoute
<1>8. ASSUME Serve \/ Tick \/ CloseBus \/ UNCHANGED vars PROVE UNCHANGED rates
  BY <1>8 DEF Serve, Tick, CloseBus, vars
<1>9. CASE Cleanup
  BY <1>1, <1>9, RateCleanup
<1>10. QED
  BY <1>3, <1>4, <1>5, <1>6, <1>7, <1>8, <1>9 DEF Next

LEMMA RateInit == Init => LimiterInv /\ RateInv
<1> SUFFICES ASSUME Init PROVE LimiterInv /\ RateInv
  OBVIOUS
<1>1. /\ allowed = {} /\ now = 0 /\ bucket = None /\ stage = [r \in Requests |-> "none"]
      /\ \A r \in Requests : held[r].of = None
  BY DEF Init, All, NoBucket
<1>2. IsFiniteSet(allowed) /\ Cardinality(allowed) = 0
  BY <1>1, FS_EmptySet
<1>3. Rate * now = 0
  <2>1. 0 \in Int /\ Rate * 0 = 0
    BY Growth
  <2>2. QED
    BY <1>1, <2>1
<1>4. QED
  BY <1>1, <1>2, <1>3 DEF LimiterInv, RateInv, Rest

(* While no two requests are at one bucket at a time and cleanup takes none *)
(* out that is in use, no more requests pass the limiter than the bucket    *)
(* held and what was added to it since, for every rate, capacity and time.  *)
THEOREM RateCorrect == Spec => []RateKept
<1>1. Init => LimiterInv /\ RateInv
  BY RateInit
<1>2. IInv /\ IInv' /\ LimiterInv /\ RateInv /\ [Next]_vars => LimiterInv' /\ RateInv'
  <2> SUFFICES ASSUME IInv, IInv', LimiterInv, RateInv, [Next]_vars
               PROVE  LimiterInv' /\ RateInv'
    OBVIOUS
  <2>1. RequestTypes /\ RateTypes
    BY TypeParts DEF IInv
  <2>2. now' \in 0..MaxTime
    BY DEF IInv, TypeOK
  <2>3. QED
    BY <2>1, <2>2, LimiterStep, RateStep
<1>3. IInv /\ LimiterInv /\ RateInv => RateKept
  <2> SUFFICES ASSUME IInv, LimiterInv, RateInv, ~overlap, FullWhenIdle
               PROVE  Cardinality(allowed) <= Capacity + Rate * now
    BY DEF RateKept, FullWhenIdle
  <2>1. RateTypes /\ now \in Int
    BY TypeParts, Numbers DEF IInv, LimitTypes
  <2>2. Cardinality(allowed) \in Nat
    BY FS_CardinalityType DEF LimiterInv
  <2>3. Rate * now \in Int
    BY <2>1, Growth
  <2>4. CASE bucket = None
    BY <2>2, <2>3, <2>4, Numbers DEF RateInv, Rest
  <2>5. CASE bucket # None
    <3> DEFINE b == buckets[bucket]
    <3>1. BucketKept(b)
      BY <2>5 DEF RateInv, InUse
    <3>2. b.refill \in Int /\ b.tokens \in Int
      BY <2>1, <2>5, Numbers DEF RateTypes
    <3>3. Rate * b.refill <= Rate * now /\ Rate * b.refill \in Int
      BY <2>1, <3>1, <3>2, Growth DEF BucketKept
    <3>4. QED
      BY <2>2, <2>3, <3>1, <3>2, <3>3, Numbers DEF BucketKept
  <2>6. QED
    BY <2>4, <2>5
<1>4. QED
  BY <1>1, <1>2, <1>3, Inductive, PTL DEF Spec
-----------------------------------------------------------------------------
(* The router: segments and the trie.                                      *)

(* What a node's path is made of: the provers take a quoted text for no     *)
(* member of STRING.                                                       *)
Text == STRING \cup {":", "*"}

LEMMA PathText == ASSUME NEW parts \in Seq(STRING) PROVE parts \in Seq(Text)
  BY DEF Text

LEMMA SegmentFacts ==
  ASSUME NEW t \in Seq(Segment)
  PROVE  /\ Len(t) \in Nat /\ DOMAIN t = 1..Len(t)
         /\ \A i \in 1..Len(t) :
              /\ t[i].kind \in {"static", "param", "wild"} /\ t[i].name \in Text
              /\ SegValue(t[i]) \in Text
              /\ SegValue(t[i]) = ":" <=> t[i].kind = "param"
              /\ SegValue(t[i]) = "*" <=> t[i].kind = "wild"
              /\ t[i].kind = "static" => SegValue(t[i]) = t[i].name
              /\ Rank(t[i]) = IF SegValue(t[i]) = ":" THEN 2 ELSE IF SegValue(t[i]) = "*" THEN 3 ELSE 1
<1>1. Len(t) \in Nat /\ DOMAIN t = 1..Len(t)
  BY LenProperties
<1>2. ASSUME NEW i \in 1..Len(t)
      PROVE  /\ t[i].kind \in {"static", "param", "wild"} /\ t[i].name \in Text
             /\ t[i].kind = "static" => t[i].name \notin {":", "*"}
  <2>1. t[i] \in Segment
    BY ElementOfSeq
  <2>2. QED
    BY <2>1 DEF Segment, Text
<1>3. ASSUME NEW i \in 1..Len(t)
      PROVE  /\ SegValue(t[i]) \in Text
             /\ SegValue(t[i]) = ":" <=> t[i].kind = "param"
             /\ SegValue(t[i]) = "*" <=> t[i].kind = "wild"
             /\ t[i].kind = "static" => SegValue(t[i]) = t[i].name
             /\ Rank(t[i]) = IF SegValue(t[i]) = ":" THEN 2 ELSE IF SegValue(t[i]) = "*" THEN 3 ELSE 1
  <2> DEFINE seg == t[i]
  <2>1. /\ seg.kind \in {"static", "param", "wild"} /\ seg.name \in Text
        /\ seg.kind = "static" => seg.name \notin {":", "*"}
    BY <1>2
  <2>2. /\ SegValue(seg) = IF seg.kind = "param" THEN ":"
                          ELSE IF seg.kind = "wild" THEN "*" ELSE seg.name
        /\ Rank(seg) = IF seg.kind = "static" THEN 1 ELSE IF seg.kind = "param" THEN 2 ELSE 3
    BY <2>1 DEF SegValue, Rank
  <2> HIDE DEF seg
  <2>3. CASE seg.kind = "static"
    BY <2>1, <2>2, <2>3 DEF seg
  <2>4. CASE seg.kind = "param"
    BY <2>2, <2>4 DEF seg, Text
  <2>5. CASE seg.kind = "wild"
    BY <2>2, <2>5 DEF seg, Text
  <2>6. QED
    BY <2>1, <2>3, <2>4, <2>5
<1>4. QED
  BY <1>1, <1>2, <1>3

LEMMA NodeFacts ==
  ASSUME NEW t \in Seq(Segment)
  PROVE  /\ NodeOf(t) \in Seq(Text) /\ Len(NodeOf(t)) = Len(t)
         /\ \A i \in 1..Len(t) : NodeOf(t)[i] = SegValue(t[i])
<1>1. Len(t) \in Nat /\ DOMAIN t = 1..Len(t) /\ \A i \in 1..Len(t) : SegValue(t[i]) \in Text
  BY SegmentFacts
<1>2. NodeOf(t) = [i \in 1..Len(t) |-> SegValue(t[i])]
  BY <1>1 DEF NodeOf
<1>3. QED
  BY <1>1, <1>2

(* The node that agrees with a walk's up to j - 1 has a child called v. *)
Agrees(t, node, j) == \A i \in 1..j : SegValue(t[i]) = node[i]

Child(routes, node, j, v) ==
    \E q \in routes :
        j <= Len(q.template) /\ SegValue(q.template[j]) = v /\ Agrees(q.template, node, j - 1)

Templates(routes) == \A q \in routes : q.template \in Seq(Segment)

LEMMA InTrie ==
  ASSUME NEW routes, Templates(routes), NEW node \in Seq(Text)
  PROVE  node \in Nodes(routes) <=>
            \E q \in routes : Len(node) <= Len(q.template) /\ Agrees(q.template, node, Len(node))
<1>1. Len(node) \in Nat
  BY LenProperties
<1>2. ASSUME NEW q \in routes, NEW l \in 0..Len(q.template)
      PROVE  node = SubSeq(NodeOf(q.template), 1, l) <=> l = Len(node) /\ Agrees(q.template, node, l)
  <2> DEFINE t == q.template
             n == NodeOf(t)
             s == SubSeq(n, 1, l)
  <2>1. /\ n \in Seq(Text) /\ Len(n) = Len(t) /\ Len(t) \in Nat
        /\ \A i \in 1..Len(t) : n[i] = SegValue(t[i]) /\ n[i] \in Text
    BY NodeFacts, SegmentFacts DEF Templates
  <2> HIDE DEF n, t
  <2>2. s \in Seq(Text) /\ Len(s) = l /\ \A i \in 1..l : s[i] = n[i]
    <3>1. l \in Int /\ 1 \in Int /\ \A i \in 1..l : n[i] \in Text
      BY <2>1 DEF t
    <3>2. /\ s \in Seq(Text) /\ Len(s) = IF 1 <= l THEN l - 1 + 1 ELSE 0
          /\ \A i \in 1..(l - 1 + 1) : s[i] = n[1 + i - 1]
      BY <3>1, SubSeqProperties
    <3>3. l \in Nat
      BY <2>1 DEF t
    <3>4. QED
      BY <3>2, <3>3
  <2> HIDE DEF s
  <2>3. l \in 0..Len(t)
    BY DEF t
  <2>4. ASSUME l = Len(node), Agrees(t, node, l) PROVE node = s
    <3>1. \A i \in 1..Len(node) : node[i] = s[i]
      BY <1>1, <2>1, <2>2, <2>3, <2>4 DEF Agrees
    <3>2. QED
      BY <2>2, <2>4, <3>1, SeqEqual
  <2>5. ASSUME node = s PROVE l = Len(node) /\ Agrees(t, node, l)
    BY <2>1, <2>2, <2>3, <2>5 DEF Agrees
  <2>6. QED
    BY <2>4, <2>5 DEF s, n, t
<1>3. \A q \in routes : Len(NodeOf(q.template)) = Len(q.template) /\ Len(q.template) \in Nat
  BY NodeFacts, SegmentFacts DEF Templates
<1>4. node \in Nodes(routes) <=>
        \E q \in routes : \E l \in 0..Len(q.template) : node = SubSeq(NodeOf(q.template), 1, l)
  BY <1>3 DEF Nodes, Prefixes
<1>5. QED
  BY <1>1, <1>2, <1>3, <1>4

LEMMA AgreesAppend ==
  ASSUME NEW node \in Seq(Text), NEW v \in Text, NEW t
  PROVE  /\ \A j \in 0..Len(node) : Agrees(t, Append(node, v), j) <=> Agrees(t, node, j)
         /\ Agrees(t, Append(node, v), Len(node) + 1) <=>
               Agrees(t, node, Len(node)) /\ SegValue(t[Len(node) + 1]) = v
<1>1. /\ Len(node) \in Nat
      /\ \A i \in 1..Len(node) : Append(node, v)[i] = node[i]
      /\ Append(node, v)[Len(node) + 1] = v
  BY AppendProperties, LenProperties
<1>2. ASSUME NEW j \in 0..Len(node) PROVE Agrees(t, Append(node, v), j) <=> Agrees(t, node, j)
  <2>1. \A i \in 1..j : i \in 1..Len(node)
    BY <1>1
  <2>2. QED
    BY <1>1, <2>1 DEF Agrees
<1>3. \A i \in 1..(Len(node) + 1) : i \in 1..Len(node) \/ i = Len(node) + 1
  BY <1>1
<1>4. 1..Len(node) \subseteq 1..(Len(node) + 1) /\ Len(node) + 1 \in 1..(Len(node) + 1)
  BY <1>1
<1>5. QED
  BY <1>1, <1>2, <1>3, <1>4 DEF Agrees

LEMMA ChildInTrie ==
  ASSUME NEW routes, Templates(routes), NEW node \in Seq(Text), NEW v \in Text
  PROVE  Append(node, v) \in Nodes(routes) <=> Child(routes, node, Len(node) + 1, v)
<1>1. Append(node, v) \in Seq(Text) /\ Len(Append(node, v)) = Len(node) + 1 /\ Len(node) \in Nat
  BY AppendProperties, LenProperties
<1>2. Append(node, v) \in Nodes(routes) <=>
         \E q \in routes : /\ Len(node) + 1 <= Len(q.template)
                           /\ Agrees(q.template, Append(node, v), Len(node) + 1)
  BY <1>1, InTrie
<1>3. (Len(node) + 1) - 1 = Len(node)
  BY <1>1
<1>4. QED
  BY <1>2, <1>3, AgreesAppend DEF Child

LEMMA ChildAppend ==
  ASSUME NEW routes, NEW node \in Seq(Text), NEW v \in Text, NEW x,
         NEW j \in 1..(Len(node) + 1)
  PROVE  Child(routes, Append(node, v), j, x) <=> Child(routes, node, j, x)
<1>1. j - 1 \in 0..Len(node)
  BY LenProperties
<1>2. QED
  BY <1>1, AgreesAppend DEF Child

-----------------------------------------------------------------------------
(* The router: the walk.                                                   *)

WalkState == [at : {"inside", "end", "lost"}, node : Seq(Text), values : Seq(Seq(Text))]

(* A step of a walk that is inside the trie, and the child it takes. *)
Takes(nodes, w, d, v, at, values) ==
    /\ Append(w.node, v) \in nodes
    /\ d.at = at /\ d.node = Append(w.node, v) /\ d.values = values

DownIs(nodes, parts, i, w, d) ==
    /\ w.at # "inside" => d = w
    /\ w.at = "inside" =>
         \/ Takes(nodes, w, d, parts[i], "inside", w.values)
         \/ /\ Append(w.node, parts[i]) \notin nodes
            /\ Takes(nodes, w, d, ":", "inside", Append(w.values, <<parts[i]>>))
         \/ /\ Append(w.node, parts[i]) \notin nodes /\ Append(w.node, ":") \notin nodes
            /\ Takes(nodes, w, d, "*", "end", Append(w.values, SubSeq(parts, i, Len(parts))))
         \/ /\ Append(w.node, parts[i]) \notin nodes /\ Append(w.node, ":") \notin nodes
            /\ Append(w.node, "*") \notin nodes
            /\ d.at = "lost" /\ d.node = w.node /\ d.values = w.values

LEMMA DownSteps ==
  ASSUME NEW nodes, NEW parts \in Seq(Text), NEW i \in 1..Len(parts), NEW w \in WalkState
  PROVE  /\ Down(nodes, parts, i, w) \in WalkState
         /\ DownIs(nodes, parts, i, w, Down(nodes, parts, i, w))
<1> DEFINE d == Down(nodes, parts, i, w)
<1>1. /\ w.at \in {"inside", "end", "lost"} /\ w.node \in Seq(Text) /\ w.values \in Seq(Seq(Text))
      /\ w = [at |-> w.at, node |-> w.node, values |-> w.values]
  BY DEF WalkState
<1>2. parts[i] \in Text /\ ":" \in Text /\ "*" \in Text
  BY ElementOfSeq DEF Text
<1>3. <<parts[i]>> \in Seq(Text) /\ SubSeq(parts, i, Len(parts)) \in Seq(Text)
  <2>1. Len(parts) \in Nat
    BY LenProperties
  <2>2. i \in Int /\ Len(parts) \in Int /\ \A j \in i..Len(parts) : parts[j] \in Text
    BY <2>1, ElementOfSeq
  <2>3. SubSeq(parts, i, Len(parts)) \in Seq(Text)
    BY <2>2, SubSeqProperties
  <2>4. QED
    BY <1>2, <2>3
<1>4. /\ \A v \in Text : Append(w.node, v) \in Seq(Text)
      /\ \A x \in Seq(Text) : Append(w.values, x) \in Seq(Seq(Text))
  BY <1>1, AppendProperties
<1>5. CASE w.at # "inside"
  BY <1>5 DEF Down, DownIs
<1>6. CASE w.at = "inside" /\ Append(w.node, parts[i]) \in nodes
  <2>1. d = [at |-> w.at, node |-> Append(w.node, parts[i]), values |-> w.values]
    BY <1>1, <1>6 DEF Down
  <2>2. QED
    BY <1>1, <1>2, <1>4, <1>6, <2>1 DEF WalkState, Takes, DownIs
<1>7. CASE w.at = "inside" /\ Append(w.node, parts[i]) \notin nodes /\ Append(w.node, ":") \in nodes
  <2>1. d = [at |-> w.at, node |-> Append(w.node, ":"), values |-> Append(w.values, <<parts[i]>>)]
    BY <1>1, <1>7 DEF Down
  <2>2. QED
    BY <1>1, <1>2, <1>3, <1>4, <1>7, <2>1 DEF WalkState, Takes, DownIs
<1>8. CASE /\ w.at = "inside" /\ Append(w.node, parts[i]) \notin nodes
           /\ Append(w.node, ":") \notin nodes /\ Append(w.node, "*") \in nodes
  <2> DEFINE rest == SubSeq(parts, i, Len(parts))
  <2>1. rest \in Seq(Text)
    BY <1>3
  <2>2. d = [at |-> "end", node |-> Append(w.node, "*"), values |-> Append(w.values, rest)]
    BY <1>8 DEF Down
  <2> HIDE DEF rest
  <2>3. d \in WalkState /\ Takes(nodes, w, d, "*", "end", Append(w.values, rest))
    BY <1>1, <1>2, <1>4, <1>8, <2>1, <2>2 DEF WalkState, Takes, DownIs
  <2>4. QED
    BY <1>8, <2>3 DEF rest, DownIs
<1>9. CASE /\ w.at = "inside" /\ Append(w.node, parts[i]) \notin nodes
           /\ Append(w.node, ":") \notin nodes /\ Append(w.node, "*") \notin nodes
  <2>1. d = [at |-> "lost", node |-> w.node, values |-> w.values]
    BY <1>1, <1>9 DEF Down
  <2>2. QED
    BY <1>1, <1>9, <2>1 DEF WalkState, DownIs
<1>10. QED
  BY <1>5, <1>6, <1>7, <1>8, <1>9

LEMMA WalkIs ==
  ASSUME NEW nodes, NEW parts \in Seq(Text)
  PROVE  \E g \in [0..Len(parts) -> WalkState] :
            /\ g[0] = WalkStart /\ Walk(nodes, parts) = g[Len(parts)]
            /\ \A i \in 1..Len(parts) : g[i] = Down(nodes, parts, i, g[i - 1])
<1> DEFINE n == Len(parts)
           F == [a \in (1..n) \X WalkState |-> Down(nodes, parts, a[1], a[2])]
           IsWalk(g) == g = [i \in 0..n |-> IF i = 0 THEN WalkStart
                                            ELSE Down(nodes, parts, i, g[i - 1])]
           walk == CHOOSE g : IsWalk(g)
<1>1. n \in Nat
  BY LenProperties
<1>2. WalkStart \in WalkState
  BY EmptySeq DEF WalkStart, WalkState
<1>3. \A i \in 1..n, w \in WalkState : Down(nodes, parts, i, w) \in WalkState
  BY DownSteps
<1>4. Walk(nodes, parts) = walk[n]
  BY DEF Walk
<1>5. PICK g \in [0..n -> WalkState] : g[0] = WalkStart /\ \A i \in 1..n : g[i] = F[<<i, g[i - 1]>>]
  <2>1. StaysIn(WalkState, n, F)
    BY <1>3 DEF StaysIn
  <2> HIDE DEF F, n
  <2>2. QED
    BY <1>1, <1>2, <2>1, StepsExist
<1> HIDE DEF n
<1>6. \A i \in 1..n : i - 1 \in 0..n /\ g[i] = Down(nodes, parts, i, g[i - 1])
  <2>1. ASSUME NEW i \in 1..n PROVE i - 1 \in 0..n /\ g[i - 1] \in WalkState
    BY <1>1, <1>5
  <2>2. QED
    BY <1>5, <2>1
<1> HIDE DEF F
<1>7. IsWalk(g)
  BY <1>1, <1>5, <1>6
<1>8. IsWalk(walk)
  BY <1>7
<1> HIDE DEF walk
<1>9. walk[0] = WalkStart /\ \A i \in 1..n : walk[i] = Down(nodes, parts, i, walk[i - 1])
  <2>1. 0 \in 0..n /\ \A i \in 1..n : i \in 0..n /\ i # 0
    BY <1>1
  <2>2. QED
    BY <1>8, <2>1
<1>10. walk \in [0..n -> WalkState]
  <2> DEFINE C == {i \in 0..n : walk[i] \in WalkState}
  <2>1. 0 \in C
    BY <1>1, <1>2, <1>9
  <2>2. \A i \in 1..n : i - 1 \in C => i \in C
    BY <1>1, <1>3, <1>9
  <2> HIDE DEF C
  <2>3. 0..n \subseteq C
    BY <1>1, <2>1, <2>2, StepsUpTo
  <2>4. QED
    BY <1>8, <2>3 DEF C
<1>11. QED
  BY <1>4, <1>9, <1>10 DEF n

(* The child that the walk took at a part is the first there is. *)
Chosen(routes, parts, w, j) ==
    LET child(v) == Child(routes, w.node, j, v) IN
    \/ w.node[j] = parts[j] /\ child(parts[j])
    \/ w.node[j] = ":" /\ child(":") /\ ~child(parts[j])
    \/ /\ w.node[j] = "*" /\ w.at = "end" /\ j = Len(w.node)
       /\ child("*") /\ ~child(parts[j]) /\ ~child(":")

AtChild(routes, w, v) == Child(routes, w.node, Len(w.node) + 1, v)

WalkInv(routes, parts, w, i) ==
    /\ w.at = "inside" => Len(w.node) = i
    /\ w.at = "end" => Len(w.node) \in 1..i /\ w.node[Len(w.node)] = "*"
    /\ w.at = "lost" =>
          /\ Len(w.node) < i
          /\ ~AtChild(routes, w, parts[Len(w.node) + 1])
          /\ ~AtChild(routes, w, ":") /\ ~AtChild(routes, w, "*")
    /\ \A j \in 1..Len(w.node) : Chosen(routes, parts, w, j)

LEMMA WalkTakes ==
  ASSUME NEW routes, Templates(routes), NEW parts \in Seq(Text), NEW w \in WalkState,
         w.at = "inside", \A j \in 1..Len(w.node) : Chosen(routes, parts, w, j),
         NEW d \in WalkState, NEW v \in Text, NEW at, NEW values,
         Takes(Nodes(routes), w, d, v, at, values),
         LET part == parts[Len(w.node) + 1] IN
         \/ v = part
         \/ v = ":" /\ ~AtChild(routes, w, part)
         \/ v = "*" /\ at = "end" /\ ~AtChild(routes, w, part) /\ ~AtChild(routes, w, ":")
  PROVE  /\ Len(d.node) = Len(w.node) + 1 /\ d.node[Len(d.node)] = v
         /\ \A j \in 1..Len(d.node) : Chosen(routes, parts, d, j)
<1> DEFINE l == Len(w.node)
<1>1. w.node \in Seq(Text) /\ l \in Nat
  BY LenProperties DEF WalkState
<1>2. d.node = Append(w.node, v) /\ d.at = at /\ AtChild(routes, w, v)
  BY <1>1, ChildInTrie DEF Takes, AtChild
<1>3. Len(d.node) = l + 1 /\ d.node[l + 1] = v /\ \A j \in 1..l : d.node[j] = w.node[j]
  BY <1>1, <1>2, AppendProperties
<1>4. \A j \in 1..(l + 1) : \A x : Child(routes, d.node, j, x) <=> Child(routes, w.node, j, x)
  BY <1>1, <1>2, ChildAppend
<1>5. ASSUME NEW j \in 1..l PROVE Chosen(routes, parts, d, j)
  <2>1. j \in 1..(l + 1) /\ d.node[j] = w.node[j] /\ Chosen(routes, parts, w, j)
    BY <1>1, <1>3
  <2>2. \A x : Child(routes, d.node, j, x) <=> Child(routes, w.node, j, x)
    BY <1>4, <2>1
  <2>3. QED
    BY <2>1, <2>2 DEF Chosen
<1>6. Chosen(routes, parts, d, l + 1)
  <2>1. \A x : Child(routes, d.node, l + 1, x) <=> AtChild(routes, w, x)
    <3>1. l + 1 \in 1..(l + 1)
      BY <1>1
    <3>2. QED
      BY <1>4, <3>1 DEF AtChild
  <2>2. QED
    BY <1>2, <1>3, <2>1 DEF Chosen
<1>7. \A j \in 1..(l + 1) : j \in 1..l \/ j = l + 1
  BY <1>1
<1>8. QED
  BY <1>3, <1>5, <1>6, <1>7

LEMMA WalkStep ==
  ASSUME NEW routes, Templates(routes), NEW parts \in Seq(Text), NEW i \in 1..Len(parts),
         NEW w \in WalkState, WalkInv(routes, parts, w, i - 1),
         NEW d, d = Down(Nodes(routes), parts, i, w)
  PROVE  WalkInv(routes, parts, d, i)
<1> DEFINE nodes == Nodes(routes)
<1>1. /\ Len(parts) \in Nat /\ w.node \in Seq(Text) /\ Len(w.node) \in Nat
      /\ w.at \in {"inside", "end", "lost"}
      /\ parts[i] \in Text /\ ":" \in Text /\ "*" \in Text
  BY LenProperties, ElementOfSeq DEF WalkState, Text
<1>2. d \in WalkState /\ DownIs(nodes, parts, i, w, d)
  BY DownSteps
<1>3. \A v \in Text : Append(w.node, v) \in nodes <=> AtChild(routes, w, v)
  BY <1>1, ChildInTrie DEF AtChild
<1>4. CASE w.at # "inside"
  <2>1. d = w
    BY <1>2, <1>4 DEF DownIs
  <2>2. QED
    BY <1>1, <1>4, <2>1 DEF WalkInv
<1>5. CASE w.at = "inside"
  <2>1. /\ Len(w.node) = i - 1 /\ parts[Len(w.node) + 1] = parts[i]
        /\ \A j \in 1..Len(w.node) : Chosen(routes, parts, w, j)
    BY <1>1, <1>5 DEF WalkInv
  <2>2. CASE Takes(nodes, w, d, parts[i], "inside", w.values)
    <3>1. Len(d.node) = Len(w.node) + 1 /\ \A j \in 1..Len(d.node) : Chosen(routes, parts, d, j)
      BY <1>1, <1>2, <1>5, <2>1, <2>2, WalkTakes
    <3>2. d.at = "inside"
      BY <2>2 DEF Takes
    <3>3. QED
      BY <2>1, <3>1, <3>2 DEF WalkInv
  <2>3. CASE /\ Append(w.node, parts[i]) \notin nodes
             /\ Takes(nodes, w, d, ":", "inside", Append(w.values, <<parts[i]>>))
    <3>1. ~AtChild(routes, w, parts[i])
      BY <1>1, <1>3, <2>3
    <3>2. Len(d.node) = Len(w.node) + 1 /\ \A j \in 1..Len(d.node) : Chosen(routes, parts, d, j)
      BY <1>1, <1>2, <1>5, <2>1, <2>3, <3>1, WalkTakes
    <3>3. d.at = "inside"
      BY <2>3 DEF Takes
    <3>4. QED
      BY <2>1, <3>2, <3>3 DEF WalkInv
  <2>4. CASE /\ Append(w.node, parts[i]) \notin nodes /\ Append(w.node, ":") \notin nodes
             /\ Takes(nodes, w, d, "*", "end", Append(w.values, SubSeq(parts, i, Len(parts))))
    <3>1. ~AtChild(routes, w, parts[i]) /\ ~AtChild(routes, w, ":")
      BY <1>1, <1>3, <2>4
    <3>2. /\ Len(d.node) = Len(w.node) + 1 /\ d.node[Len(d.node)] = "*"
          /\ \A j \in 1..Len(d.node) : Chosen(routes, parts, d, j)
      BY <1>1, <1>2, <1>5, <2>1, <2>4, <3>1, WalkTakes
    <3>3. d.at = "end"
      BY <2>4 DEF Takes
    <3>4. Len(d.node) \in 1..i
      BY <1>1, <2>1, <3>2
    <3>5. QED
      BY <3>2, <3>3, <3>4 DEF WalkInv
  <2>5. CASE /\ Append(w.node, parts[i]) \notin nodes /\ Append(w.node, ":") \notin nodes
             /\ Append(w.node, "*") \notin nodes
             /\ d.at = "lost" /\ d.node = w.node
    <3>1. ~AtChild(routes, w, parts[i]) /\ ~AtChild(routes, w, ":") /\ ~AtChild(routes, w, "*")
      BY <1>1, <1>3, <2>5
    <3>2. \A v : AtChild(routes, d, v) <=> AtChild(routes, w, v)
      BY <2>5 DEF AtChild
    <3>3. \A j \in 1..Len(d.node) : Chosen(routes, parts, d, j)
      <4>1. \A j \in 1..Len(w.node) : d.node = w.node /\ Chosen(routes, parts, w, j)
        BY <2>1, <2>5
      <4>2. \A j \in 1..Len(w.node) : w.at # "end" /\ Chosen(routes, parts, w, j)
        BY <1>5, <2>1
      <4>3. QED
        BY <2>5, <4>1, <4>2 DEF Chosen
    <3>4. Len(d.node) < i /\ parts[Len(d.node) + 1] = parts[i]
      BY <1>1, <2>1, <2>5
    <3>5. QED
      BY <2>5, <3>1, <3>2, <3>3, <3>4 DEF WalkInv
  <2>6. QED
    BY <1>2, <1>5, <2>2, <2>3, <2>4, <2>5 DEF DownIs
<1>6. QED
  BY <1>4, <1>5

LEMMA WalkRight ==
  ASSUME NEW routes, Templates(routes), NEW parts \in Seq(Text)
  PROVE  /\ Walk(Nodes(routes), parts) \in WalkState
         /\ WalkInv(routes, parts, Walk(Nodes(routes), parts), Len(parts))
<1> DEFINE n == Len(parts)
<1>1. PICK g \in [0..n -> WalkState] :
         /\ g[0] = WalkStart /\ Walk(Nodes(routes), parts) = g[n]
         /\ \A i \in 1..n : g[i] = Down(Nodes(routes), parts, i, g[i - 1])
  BY WalkIs
<1>2. n \in Nat
  BY LenProperties
<1> DEFINE C == {i \in 0..n : WalkInv(routes, parts, g[i], i)}
<1>3. 0 \in C
  <2>1. WalkInv(routes, parts, WalkStart, 0)
    BY EmptySeq DEF WalkInv, WalkStart
  <2>2. QED
    BY <1>1, <1>2, <2>1
<1>4. ASSUME NEW i \in 1..n, i - 1 \in C PROVE i \in C
  <2>1. i - 1 \in 0..n /\ i \in 0..n /\ g[i - 1] \in WalkState /\ WalkInv(routes, parts, g[i - 1], i - 1)
    BY <1>1, <1>2, <1>4
  <2>2. WalkInv(routes, parts, g[i], i)
    BY <1>1, <2>1, WalkStep
  <2>3. QED
    BY <2>1, <2>2
<1> HIDE DEF C
<1>5. 0..n \subseteq C
  BY <1>2, <1>3, <1>4, StepsUpTo
<1>6. n \in 0..n
  BY <1>2
<1>7. QED
  BY <1>1, <1>5, <1>6 DEF C

-----------------------------------------------------------------------------
(* The router: the values met on the way.                                  *)

KeysUpTo(t) ==
    CHOOSE keys : keys = [i \in 0..Len(t) |->
        IF i = 0 THEN <<>>
        ELSE IF t[i].kind = "static" THEN keys[i - 1]
        ELSE Append(keys[i - 1], t[i].name)]

KeyStep(t, i, keys) == IF t[i].kind = "static" THEN keys ELSE Append(keys, t[i].name)

LEMMA KeysAre ==
  ASSUME NEW t \in Seq(Segment)
  PROVE  /\ ParamKeys(t) = KeysUpTo(t)[Len(t)] /\ KeysUpTo(t)[0] = <<>>
         /\ \A i \in 1..Len(t) : KeysUpTo(t)[i] = KeyStep(t, i, KeysUpTo(t)[i - 1])
         /\ \A i \in 0..Len(t) : KeysUpTo(t)[i] \in Seq(Text)
<1> DEFINE n == Len(t)
           F == [a \in (1..n) \X Seq(Text) |-> KeyStep(t, a[1], a[2])]
           IsKeys(g) == g = [i \in 0..n |-> IF i = 0 THEN <<>> ELSE KeyStep(t, i, g[i - 1])]
           keys == KeysUpTo(t)
           start == <<>>
<1>1. n \in Nat /\ start \in Seq(Text)
  BY SegmentFacts, EmptySeq
<1>2. \A i \in 1..n, k \in Seq(Text) : KeyStep(t, i, k) \in Seq(Text)
  BY SegmentFacts, AppendProperties DEF KeyStep
<1>3. keys = CHOOSE g : IsKeys(g)
  BY DEF KeysUpTo, KeyStep
<1>4. ParamKeys(t) = keys[n]
  BY DEF ParamKeys, KeysUpTo
<1>5. PICK g \in [0..n -> Seq(Text)] : g[0] = <<>> /\ \A i \in 1..n : g[i] = F[<<i, g[i - 1]>>]
  <2>1. StaysIn(Seq(Text), n, F)
    BY <1>2 DEF StaysIn
  <2> DEFINE D == Seq(Text)
  <2>2. start \in D /\ n \in Nat /\ StaysIn(D, n, F)
    BY <1>1, <2>1
  <2> HIDE DEF F, n, D, start
  <2>3. \E g \in [0..n -> D] : g[0] = start /\ \A i \in 1..n : g[i] = F[<<i, g[i - 1]>>]
    BY <2>2, StepsExist
  <2>4. QED
    BY <2>3 DEF D, start
<1> HIDE DEF n
<1>6. \A i \in 1..n : i - 1 \in 0..n /\ g[i] = KeyStep(t, i, g[i - 1])
  <2>1. ASSUME NEW i \in 1..n PROVE i - 1 \in 0..n /\ g[i - 1] \in Seq(Text)
    BY <1>1, <1>5
  <2>2. QED
    BY <1>5, <2>1
<1> HIDE DEF F, keys
<1>7. IsKeys(g)
  BY <1>1, <1>5, <1>6
<1>8. IsKeys(keys)
  BY <1>3, <1>7
<1>9. keys[0] = <<>> /\ \A i \in 1..n : keys[i] = KeyStep(t, i, keys[i - 1])
  <2>1. 0 \in 0..n /\ \A i \in 1..n : i \in 0..n /\ i # 0
    BY <1>1
  <2>2. QED
    BY <1>8, <2>1
<1>10. \A i \in 0..n : keys[i] \in Seq(Text)
  <2> DEFINE C == {i \in 0..n : keys[i] \in Seq(Text)}
  <2>1. 0 \in C
    <3>1. keys[0] = start /\ 0 \in 0..n
      BY <1>1, <1>9
    <3> HIDE DEF start
    <3>2. QED
      BY <1>1, <3>1
  <2>2. \A i \in 1..n : i - 1 \in C => i \in C
    BY <1>1, <1>2, <1>9
  <2> HIDE DEF C
  <2>3. 0..n \subseteq C
    BY <1>1, <2>1, <2>2, StepsUpTo
  <2>4. QED
    BY <2>3 DEF C
<1>11. QED
  BY <1>4, <1>9, <1>10 DEF n, keys

Paired(keys, values) == {<<keys[j], values[j]>> : j \in 1..Len(values)}

LEMMA PairedAppend ==
  ASSUME NEW keys \in Seq(Text), NEW values \in Seq(Seq(Text)), Len(keys) = Len(values),
         NEW x \in Text, NEW y \in Seq(Text)
  PROVE  /\ Paired(Append(keys, x), Append(values, y)) = Paired(keys, values) \cup {<<x, y>>}
         /\ Len(Append(keys, x)) = Len(Append(values, y))
<1> DEFINE k == Append(keys, x)
           v == Append(values, y)
           l == Len(values)
<1>1. l \in Nat
  BY LenProperties
<1>2. /\ Len(k) = l + 1 /\ Len(v) = l + 1 /\ k[l + 1] = x /\ v[l + 1] = y
      /\ \A j \in 1..l : k[j] = keys[j] /\ v[j] = values[j]
  BY AppendProperties
<1>3. 1..(l + 1) = 1..l \cup {l + 1}
  BY <1>1
<1> HIDE DEF k, v
<1>4. Paired(k, v) = {<<k[j], v[j]>> : j \in 1..l} \cup {<<k[l + 1], v[l + 1]>>}
  BY <1>2, <1>3 DEF Paired
<1>5. {<<k[j], v[j]>> : j \in 1..l} = Paired(keys, values)
  BY <1>2 DEF Paired
<1>6. QED
  BY <1>2, <1>4, <1>5 DEF k, v

(* The parameters of a template up to its segment l.                       *)
MetUpTo(t, parts, l) ==
    {<<t[i].name, ValueAt(t, parts, i)>> : i \in {j \in 1..l : t[j].kind # "static"}}

ValuesFor(t, parts, w) ==
    LET keys == KeysUpTo(t)[Len(w.node)] IN
    Len(keys) = Len(w.values) /\ Paired(keys, w.values) = MetUpTo(t, parts, Len(w.node))

(* The values a walk has are those of any template that leads the same way. *)
ValuesInv(parts, w) ==
    \A t \in Seq(Segment) :
        Len(w.node) <= Len(t) /\ Agrees(t, w.node, Len(w.node)) => ValuesFor(t, parts, w)

LEMMA ValuesTake ==
  ASSUME NEW parts \in Seq(Text), NEW w \in WalkState, ValuesInv(parts, w), NEW d \in WalkState,
         NEW v \in Text, NEW nodes, NEW at, NEW values, Takes(nodes, w, d, v, at, values),
         LET l == Len(w.node) IN
         \/ v \notin {":", "*"} /\ values = w.values
         \/ v = ":" /\ values = Append(w.values, <<parts[l + 1]>>) /\ <<parts[l + 1]>> \in Seq(Text)
         \/ /\ v = "*" /\ values = Append(w.values, SubSeq(parts, l + 1, Len(parts)))
            /\ SubSeq(parts, l + 1, Len(parts)) \in Seq(Text)
  PROVE  ValuesInv(parts, d)
<1> SUFFICES ASSUME NEW t \in Seq(Segment),
                    Len(d.node) <= Len(t), Agrees(t, d.node, Len(d.node))
             PROVE  ValuesFor(t, parts, d)
  BY DEF ValuesInv
<1> DEFINE l == Len(w.node)
           i == l + 1
           seg == t[i]
           keys == KeysUpTo(t)
<1>1. /\ w.node \in Seq(Text) /\ l \in Nat /\ w.values \in Seq(Seq(Text))
      /\ d.node = Append(w.node, v) /\ d.values = values
  BY LenProperties DEF WalkState, Takes
<1>2. Len(d.node) = l + 1 /\ Len(t) \in Nat
  BY <1>1, AppendProperties, SegmentFacts
<1>3. i \in 1..Len(t) /\ l \in 0..Len(t) /\ i - 1 = l
  BY <1>1, <1>2
<1>4. Agrees(t, w.node, l) /\ SegValue(seg) = v
  BY <1>1, <1>2, AgreesAppend
<1>5. ValuesFor(t, parts, w)
  BY <1>1, <1>3, <1>4 DEF ValuesInv
<1>6. keys[i] = IF seg.kind = "static" THEN keys[l] ELSE Append(keys[l], seg.name)
  BY <1>3, KeysAre DEF KeyStep
<1>7. keys[l] \in Seq(Text) /\ Len(keys[l]) = Len(w.values)
  BY <1>3, <1>5, KeysAre DEF ValuesFor
<1>8. /\ seg.name \in Text
      /\ seg.kind = "param" <=> v = ":"
      /\ seg.kind = "wild" <=> v = "*"
      /\ seg.kind \in {"static", "param", "wild"}
  BY <1>3, <1>4, SegmentFacts
<1>9. MetUpTo(t, parts, i) =
         MetUpTo(t, parts, l) \cup
            (IF seg.kind = "static" THEN {} ELSE {<<seg.name, ValueAt(t, parts, i)>>})
  <2>1. {j \in 1..i : t[j].kind # "static"} =
           {j \in 1..l : t[j].kind # "static"} \cup (IF seg.kind = "static" THEN {} ELSE {i})
    BY <1>1
  <2>2. QED
    BY <2>1 DEF MetUpTo
<1> HIDE DEF i, seg, keys, l
<1>10. CASE v \notin {":", "*"} /\ values = w.values
  <2>1. seg.kind = "static"
    BY <1>8, <1>10
  <2>2. keys[i] = keys[l] /\ MetUpTo(t, parts, i) = MetUpTo(t, parts, l) /\ d.values = w.values
    BY <1>1, <1>6, <1>9, <1>10, <2>1
  <2>3. QED
    BY <1>2, <1>5, <2>2 DEF ValuesFor, keys, l, i
<1>11. ASSUME NEW y \in Seq(Text), values = Append(w.values, y), seg.kind # "static",
              ValueAt(t, parts, i) = y
       PROVE  ValuesFor(t, parts, d)
  <2>1. keys[i] = Append(keys[l], seg.name)
    BY <1>6, <1>11
  <2> DEFINE k == keys[l]
             x == seg.name
  <2>2. k \in Seq(Text) /\ w.values \in Seq(Seq(Text)) /\ Len(k) = Len(w.values) /\ x \in Text
    BY <1>1, <1>7, <1>8
  <2>3. keys[i] = Append(k, x) /\ d.values = Append(w.values, y)
    BY <1>1, <1>11, <2>1
  <2> HIDE DEF k, x
  <2>4. /\ Paired(Append(k, x), Append(w.values, y)) = Paired(k, w.values) \cup {<<x, y>>}
        /\ Len(Append(k, x)) = Len(Append(w.values, y))
    BY <1>11, <2>2, PairedAppend
  <2>5. MetUpTo(t, parts, i) = MetUpTo(t, parts, l) \cup {<<x, y>>}
    BY <1>9, <1>11 DEF x
  <2>6. Paired(k, w.values) = MetUpTo(t, parts, l)
    BY <1>5 DEF ValuesFor, keys, l, k
  <2>7. QED
    BY <1>2, <2>3, <2>4, <2>5, <2>6 DEF ValuesFor, keys, i
<1>12. CASE /\ v = ":" /\ values = Append(w.values, <<parts[i]>>) /\ <<parts[i]>> \in Seq(Text)
  <2>1. seg.kind = "param"
    BY <1>8, <1>12
  <2>2. ValueAt(t, parts, i) = <<parts[i]>>
    BY <2>1 DEF ValueAt, seg
  <2>3. QED
    BY <1>11, <1>12, <2>1, <2>2
<1>13. CASE /\ v = "*" /\ values = Append(w.values, SubSeq(parts, i, Len(parts)))
            /\ SubSeq(parts, i, Len(parts)) \in Seq(Text)
  <2>1. seg.kind = "wild"
    BY <1>8, <1>13
  <2>2. ValueAt(t, parts, i) = SubSeq(parts, i, Len(parts))
    BY <2>1 DEF ValueAt, seg
  <2>3. QED
    BY <1>11, <1>13, <2>1, <2>2
<1>14. QED
  BY <1>10, <1>12, <1>13 DEF i, l

LEMMA ValuesStep ==
  ASSUME NEW routes, NEW parts \in Seq(Text), NEW i \in 1..Len(parts),
         parts[i] \notin {":", "*"},
         NEW w \in WalkState, WalkInv(routes, parts, w, i - 1), ValuesInv(parts, w),
         NEW d, d = Down(Nodes(routes), parts, i, w)
  PROVE  ValuesInv(parts, d)
<1> DEFINE nodes == Nodes(routes)
<1>1. d \in WalkState /\ DownIs(nodes, parts, i, w, d)
  BY DownSteps
<1>2. /\ parts[i] \in Text /\ ":" \in Text /\ "*" \in Text /\ Len(parts) \in Nat
      /\ <<parts[i]>> \in Seq(Text)
  BY LenProperties, ElementOfSeq DEF Text
<1>3. SubSeq(parts, i, Len(parts)) \in Seq(Text)
  <2>1. i \in Int /\ Len(parts) \in Int /\ \A j \in i..Len(parts) : parts[j] \in Text
    BY <1>2, ElementOfSeq
  <2>2. QED
    BY <2>1, SubSeqProperties
<1>4. CASE w.at # "inside"
  BY <1>1, <1>4 DEF DownIs
<1>5. CASE w.at = "inside"
  <2>1. Len(w.node) + 1 = i
    BY <1>5, LenProperties DEF WalkInv, WalkState
  <2>2. CASE Takes(nodes, w, d, parts[i], "inside", w.values)
    BY <1>1, <1>2, <2>1, <2>2, ValuesTake
  <2>3. CASE Takes(nodes, w, d, ":", "inside", Append(w.values, <<parts[i]>>))
    BY <1>1, <1>2, <2>1, <2>3, ValuesTake
  <2>4. CASE Takes(nodes, w, d, "*", "end", Append(w.values, SubSeq(parts, i, Len(parts))))
    BY <1>1, <1>2, <1>3, <2>1, <2>4, ValuesTake
  <2>5. CASE d.node = w.node /\ d.values = w.values
    BY <2>5 DEF ValuesInv, ValuesFor
  <2>6. QED
    BY <1>1, <1>5, <2>2, <2>3, <2>4, <2>5 DEF DownIs
<1>6. QED
  BY <1>4, <1>5

LEMMA ValuesRight ==
  ASSUME NEW routes, Templates(routes), NEW parts \in Seq(Text),
         NoPart("*", parts), NoPart(":", parts)
  PROVE  ValuesInv(parts, Walk(Nodes(routes), parts))
<1> DEFINE n == Len(parts)
<1>1. PICK g \in [0..n -> WalkState] :
         /\ g[0] = WalkStart /\ Walk(Nodes(routes), parts) = g[n]
         /\ \A i \in 1..n : g[i] = Down(Nodes(routes), parts, i, g[i - 1])
  BY WalkIs
<1>2. n \in Nat /\ DOMAIN parts = 1..n
  BY LenProperties
<1> DEFINE C == {i \in 0..n : WalkInv(routes, parts, g[i], i) /\ ValuesInv(parts, g[i])}
<1>3. 0 \in C
  <2>1. WalkInv(routes, parts, WalkStart, 0)
    BY EmptySeq DEF WalkInv, WalkStart
  <2>2. ASSUME NEW t \in Seq(Segment) PROVE ValuesFor(t, parts, WalkStart)
    <3>1. KeysUpTo(t)[0] = <<>>
      BY KeysAre
    <3>2. Len(WalkStart.node) = 0 /\ WalkStart.values = <<>>
      BY DEF WalkStart
    <3>3. Paired(<<>>, <<>>) = {} /\ MetUpTo(t, parts, 0) = {}
      BY DEF Paired, MetUpTo
    <3>4. QED
      BY <3>1, <3>2, <3>3 DEF ValuesFor
  <2>3. QED
    BY <1>1, <1>2, <2>1, <2>2 DEF ValuesInv
<1>4. ASSUME NEW i \in 1..n, i - 1 \in C PROVE i \in C
  <2>1. /\ i - 1 \in 0..n /\ i \in 0..n /\ g[i - 1] \in WalkState
        /\ WalkInv(routes, parts, g[i - 1], i - 1) /\ ValuesInv(parts, g[i - 1])
    BY <1>1, <1>2, <1>4
  <2>2. parts[i] \notin {":", "*"}
    BY <1>2 DEF NoPart
  <2>3. g[i] = Down(Nodes(routes), parts, i, g[i - 1])
    BY <1>1
  <2>4. WalkInv(routes, parts, g[i], i)
    BY <2>1, <2>3, WalkStep
  <2>5. ValuesInv(parts, g[i])
    BY <2>1, <2>2, <2>3, ValuesStep
  <2>6. QED
    BY <2>1, <2>4, <2>5
<1> HIDE DEF C
<1>5. 0..n \subseteq C
  BY <1>2, <1>3, <1>4, StepsUpTo
<1>6. n \in 0..n
  BY <1>2
<1>7. QED
  BY <1>1, <1>5, <1>6 DEF C

-----------------------------------------------------------------------------
(* The router: what is found.                                              *)

LEMMA FitsIs ==
  ASSUME NEW t \in Seq(Segment), NEW parts \in Seq(Text)
  PROVE  /\ Len(t) \in Nat /\ Len(parts) \in Nat
         /\ Fits(t, parts) =>
              /\ Len(t) <= Len(parts) /\ (Len(t) = 0 <=> Len(parts) = 0)
              /\ \A i \in 1..Len(t) :
                   /\ t[i].kind = "static" => SegValue(t[i]) = parts[i]
                   /\ t[i].kind = "wild" => i = Len(t)
              /\ Len(parts) > Len(t) => Len(t) > 0 /\ t[Len(t)].kind = "wild"
<1>1. Len(t) \in Nat /\ Len(parts) \in Nat /\ DOMAIN t = 1..Len(t)
  BY LenProperties
<1>2. (t = <<>> <=> Len(t) = 0) /\ (parts = <<>> <=> Len(parts) = 0)
  BY EmptySeq
<1>3. ASSUME Fits(t, parts)
      PROVE  /\ Len(t) = 0 <=> Len(parts) = 0
             /\ \A i \in 1..Len(t) :
                  /\ i <= Len(parts)
                  /\ t[i].kind = "static" => t[i].name = parts[i]
                  /\ t[i].kind = "wild" => i = Len(t)
             /\ Len(parts) > Len(t) => t # <<>> /\ t[Len(t)].kind = "wild"
  BY <1>1, <1>2, <1>3 DEF Fits
<1>4. ASSUME Fits(t, parts) PROVE Len(t) <= Len(parts)
  <2>1. CASE Len(t) = 0
    BY <1>1, <2>1
  <2>2. CASE Len(t) # 0
    <3>1. Len(t) \in 1..Len(t)
      BY <1>1, <2>2
    <3>2. QED
      BY <1>3, <1>4, <3>1
  <2>3. QED
    BY <2>1, <2>2
<1>5. \A i \in 1..Len(t) : t[i].kind = "static" => SegValue(t[i]) = t[i].name
  BY SegmentFacts
<1>6. ASSUME Fits(t, parts)
      PROVE  /\ \A i \in 1..Len(t) :
                  /\ t[i].kind = "static" => SegValue(t[i]) = parts[i]
                  /\ t[i].kind = "wild" => i = Len(t)
             /\ Len(parts) > Len(t) => Len(t) > 0 /\ t[Len(t)].kind = "wild"
  <2>1. \A i \in 1..Len(t) :
           /\ t[i].kind = "static" => SegValue(t[i]) = parts[i]
           /\ t[i].kind = "wild" => i = Len(t)
    BY <1>3, <1>5, <1>6
  <2>2. Len(parts) > Len(t) => Len(t) # 0 /\ t[Len(t)].kind = "wild"
    BY <1>2, <1>3, <1>6
  <2> DEFINE m == Len(t)
  <2>3. m \in Nat /\ (m # 0 => m > 0)
    BY <1>1
  <2> HIDE DEF m
  <2>4. m # 0 => m > 0
    BY <2>3
  <2>5. QED
    BY <2>1, <2>2, <2>4 DEF m
<1>7. QED
  BY <1>1, <1>3, <1>4, <1>6

(* The converse. *)
LEMMA FitsWhen ==
  ASSUME NEW t \in Seq(Segment), NEW parts \in Seq(Text),
         Len(t) <= Len(parts), Len(t) = 0 <=> Len(parts) = 0,
         \A i \in 1..Len(t) :
             /\ t[i].kind = "static" => SegValue(t[i]) = parts[i]
             /\ t[i].kind = "wild" => i = Len(t),
         Len(parts) > Len(t) => Len(t) > 0 /\ t[Len(t)].kind = "wild"
  PROVE  Fits(t, parts)
<1>1. Len(t) \in Nat /\ Len(parts) \in Nat /\ DOMAIN t = 1..Len(t)
  BY LenProperties
<1>2. (t = <<>> <=> Len(t) = 0) /\ (parts = <<>> <=> Len(parts) = 0)
  BY EmptySeq
<1>3. \A i \in 1..Len(t) : t[i].kind = "static" => SegValue(t[i]) = t[i].name
  BY SegmentFacts
<1>4. ASSUME NEW i \in 1..Len(t)
      PROVE  /\ i <= Len(parts)
             /\ t[i].kind = "static" => t[i].name = parts[i]
             /\ t[i].kind = "wild" => i = Len(t)
  <2> DEFINE m == Len(t)
             n == Len(parts)
  <2>1. m \in Nat /\ n \in Nat /\ m <= n /\ i \in 1..m
    BY <1>1
  <2> HIDE DEF m, n
  <2>2. i <= n
    BY <2>1
  <2>3. QED
    BY <1>3, <2>2 DEF n
<1>5. Len(parts) > Len(t) => t # <<>> /\ t[Len(t)].kind = "wild"
  <2>1. \A m \in Nat : m > 0 => m # 0
    OBVIOUS
  <2>2. Len(parts) > Len(t) => Len(t) > 0 /\ t[Len(t)].kind = "wild"
    OBVIOUS
  <2>3. Len(t) > 0 => Len(t) # 0
    BY <1>1, <2>1, Zenon
  <2>4. QED
    BY <1>2, <2>2, <2>3, Zenon
<1>6. t = <<>> <=> parts = <<>>
  BY <1>2
<1>7. QED
  BY <1>1, <1>4, <1>5, <1>6 DEF Fits

(* The route whose node the walk has reached: its template fits, and no     *)
(* other that fits is preferred.                                            *)
LEMMA ReachedRight ==
  ASSUME NEW routes, Templates(routes), NEW parts \in Seq(Text), NoPart("*", parts),
         NEW w \in WalkState, WalkInv(routes, parts, w, Len(parts)), w.at # "lost",
         NEW t \in Seq(Segment), NodeOf(t) = w.node
  PROVE  /\ Fits(t, parts)
         /\ \A p \in routes : Fits(p.template, parts) => ~Preferred(p.template, t)
<1> DEFINE n == Len(parts)
           l == Len(t)
<1>1. /\ n \in Nat /\ l \in Nat /\ DOMAIN t = 1..l /\ DOMAIN parts = 1..n
      /\ w.at \in {"inside", "end"}
  BY LenProperties DEF WalkState
<1>2. Len(w.node) = l /\ \A i \in 1..l : w.node[i] = SegValue(t[i])
  BY NodeFacts
<1>3. /\ w.at = "inside" => l = n
      /\ w.at = "end" => l \in 1..n /\ w.node[l] = "*"
      /\ \A j \in 1..l : Chosen(routes, parts, w, j)
  BY <1>2 DEF WalkInv
<1> HIDE DEF n, l
<1>4. l <= n /\ (l = 0 <=> n = 0) /\ \A j \in 1..l : j \in 1..n /\ parts[j] # "*"
  <2>1. l = n \/ l \in 1..n
    BY <1>1, <1>3
  <2>2. l <= n /\ (l = 0 <=> n = 0) /\ \A j \in 1..l : j \in 1..n
    BY <1>1, <2>1
  <2>3. QED
    BY <1>1, <2>2 DEF NoPart
<1>5. \A i \in 1..l :
         /\ t[i].kind \in {"static", "param", "wild"}
         /\ SegValue(t[i]) = ":" <=> t[i].kind = "param"
         /\ SegValue(t[i]) = "*" <=> t[i].kind = "wild"
         /\ Rank(t[i]) = IF SegValue(t[i]) = ":" THEN 2 ELSE IF SegValue(t[i]) = "*" THEN 3 ELSE 1
  BY SegmentFacts DEF l
<1>6. \A i \in 1..l : t[i].kind = "static" => SegValue(t[i]) = parts[i]
  BY <1>2, <1>3, <1>5 DEF Chosen
<1>7. \A i \in 1..l : t[i].kind = "wild" => i = l
  <2>1. \A i \in 1..l : t[i].kind = "wild" => w.node[i] = "*" /\ parts[i] # "*"
    BY <1>2, <1>4, <1>5
  <2>2. QED
    BY <1>2, <1>3, <2>1 DEF Chosen
<1>8. n > l => l > 0 /\ t[l].kind = "wild"
  <2>1. n > l => w.at = "end"
    BY <1>1, <1>3
  <2>2. w.at = "end" => l \in 1..l /\ SegValue(t[l]) = "*" /\ l > 0
    BY <1>1, <1>2, <1>3
  <2>3. QED
    BY <1>5, <2>1, <2>2
<1>9. Fits(t, parts)
  BY <1>4, <1>6, <1>7, <1>8, FitsWhen DEF l, n
<1>10. ASSUME NEW p \in routes, Fits(p.template, parts), Preferred(p.template, t) PROVE FALSE
  <2> DEFINE u == p.template
  <2>1. u \in Seq(Segment) /\ DOMAIN u = 1..Len(u) /\ Len(u) \in Nat
    BY LenProperties DEF Templates
  <2>2. PICK i \in 1..l : /\ i \in 1..Len(u) /\ Rank(u[i]) < Rank(t[i])
                          /\ \A j \in 1..(i - 1) : SegValue(u[j]) = SegValue(t[j])
    BY <1>1, <1>10, <2>1 DEF Preferred, PreferredWithin
  <2>3. Child(routes, w.node, i, SegValue(u[i]))
    <3>1. \A j \in 1..(i - 1) : j \in 1..l
      BY <1>1
    <3>2. Agrees(u, w.node, i - 1)
      BY <1>2, <2>2, <3>1 DEF Agrees
    <3>3. i <= Len(u)
      BY <2>1, <2>2
    <3>4. QED
      BY <3>2, <3>3 DEF Child
  <2>4. /\ Rank(u[i]) = IF SegValue(u[i]) = ":" THEN 2 ELSE IF SegValue(u[i]) = "*" THEN 3 ELSE 1
        /\ u[i].kind \in {"static", "param", "wild"}
        /\ SegValue(u[i]) = ":" <=> u[i].kind = "param"
        /\ SegValue(u[i]) = "*" <=> u[i].kind = "wild"
    BY <2>1, <2>2, SegmentFacts
  <2>5. u[i].kind = "static" => SegValue(u[i]) = parts[i]
    BY <1>10, <2>1, <2>2, FitsIs
  <2>6. Chosen(routes, parts, w, i) /\ w.node[i] = SegValue(t[i]) /\ parts[i] # "*"
    BY <1>2, <1>3, <1>4
  <2>7. Rank(t[i]) = IF SegValue(t[i]) = ":" THEN 2 ELSE IF SegValue(t[i]) = "*" THEN 3 ELSE 1
    BY <1>5
  <2> DEFINE x == SegValue(u[i])
             y == SegValue(t[i])
  <2>8. \/ x \notin {":", "*"} /\ y \in {":", "*"}
        \/ x = ":" /\ y = "*"
    BY <2>2, <2>4, <2>7
  <2>9. CASE x \notin {":", "*"} /\ y \in {":", "*"}
    <3>1. x = parts[i]
      BY <2>4, <2>5, <2>9
    <3>2. QED
      BY <2>3, <2>6, <2>9, <3>1 DEF Chosen
  <2>10. CASE x = ":" /\ y = "*"
    BY <2>3, <2>6, <2>10 DEF Chosen
  <2>11. QED
    BY <2>8, <2>9, <2>10
<1>11. QED
  BY <1>9, <1>10

(* Where the walk first leaves a template that fits, another one leads it  *)
(* away.                                                                    *)
LEMMA LeavesAt ==
  ASSUME NEW routes, Templates(routes), NEW parts \in Seq(Text), NoPart("*", parts),
         NEW w \in WalkState, NEW u \in Seq(Segment), Fits(u, parts), NEW q \in routes, q.template = u,
         NEW d \in 1..Len(parts), d <= Len(u), Chosen(routes, parts, w, d),
         Agrees(u, w.node, d - 1), w.node[d] # SegValue(u[d])
  PROVE  \E p \in routes : LeadsAway(p.template, u, parts)
<1>1. /\ Len(parts) \in Nat /\ Len(u) \in Nat /\ DOMAIN u = 1..Len(u) /\ DOMAIN parts = 1..Len(parts)
      /\ d \in 1..Len(u)
  BY LenProperties
<1>2. parts[d] # "*"
  BY <1>1 DEF NoPart
<1> DEFINE x == SegValue(u[d])
           child(v) == Child(routes, w.node, d, v)
<1>3. child(x)
  BY DEF Child
<1>4. x \notin {":", "*"} => x = parts[d]
  <2>1. x \notin {":", "*"} => u[d].kind = "static"
    BY <1>1, SegmentFacts
  <2>2. QED
    BY <1>1, <2>1, FitsIs
<1>5. ASSUME NEW v, child(v), v \notin {":", "*"} \/ (v = ":" /\ x = "*"),
             v # x, v \notin {":", "*"} => v = parts[d]
      PROVE  \E p \in routes : LeadsAway(p.template, u, parts)
  <2>1. PICK p \in routes : d <= Len(p.template) /\ SegValue(p.template[d]) = v
                            /\ Agrees(p.template, w.node, d - 1)
    BY <1>5 DEF Child
  <2> DEFINE t == p.template
  <2>2. t \in Seq(Segment) /\ Len(t) \in Nat /\ DOMAIN t = 1..Len(t) /\ d \in 1..Len(t)
    BY <2>1, LenProperties DEF Templates
  <2>3. \A j \in 1..(d - 1) : SegValue(t[j]) = SegValue(u[j])
    BY <2>1 DEF Agrees
  <2>4. Rank(t[d]) < Rank(u[d])
    <3>1. /\ Rank(t[d]) = IF v = ":" THEN 2 ELSE IF v = "*" THEN 3 ELSE 1
          /\ Rank(u[d]) = IF x = ":" THEN 2 ELSE IF x = "*" THEN 3 ELSE 1
      BY <1>1, <2>1, <2>2, SegmentFacts
    <3>2. v \notin {":", "*"} => x \in {":", "*"}
      BY <1>4, <1>5
    <3>3. QED
      BY <1>5, <3>1, <3>2
  <2>5. ASSUME NEW i \in 1..d, t[i].kind = "static" PROVE t[i].name = parts[i]
    <3>1. i \in 1..Len(t) /\ i \in 1..Len(u) /\ d \in Nat
      BY <1>1, <2>2
    <3>2. SegValue(t[i]) = t[i].name /\ SegValue(t[i]) \notin {":", "*"}
      BY <2>2, <2>5, <3>1, SegmentFacts
    <3>3. CASE i = d
      BY <1>5, <2>1, <3>2, <3>3
    <3>4. CASE i # d
      <4>1. SegValue(u[i]) = SegValue(t[i])
        <5>1. i \in 1..(d - 1)
          BY <3>1, <3>4
        <5>2. QED
          BY <2>3, <5>1
      <4>2. u[i].kind = "static"
        BY <3>1, <3>2, <4>1, SegmentFacts
      <4>3. SegValue(u[i]) = parts[i]
        BY <3>1, <4>2, FitsIs
      <4>4. QED
        BY <3>2, <4>1, <4>3
    <3>5. QED
      BY <3>3, <3>4
  <2>6. PreferredWithin(t, u, d)
    <3>1. d \in DOMAIN t \cap DOMAIN u /\ d <= d
      BY <1>1, <2>2
    <3>2. QED
      BY <2>3, <2>4, <3>1 DEF PreferredWithin
  <2>7. LeadsAway(t, u, parts)
    BY <2>1, <2>5, <2>6 DEF LeadsAway
  <2>8. QED
    BY <2>7
<1>6. CASE w.node[d] = parts[d] /\ child(parts[d])
  <2>1. parts[d] # x
    BY <1>6
  <2>2. parts[d] = ":" => x = "*"
    BY <1>4, <2>1
  <2>3. QED
    BY <1>2, <1>5, <1>6, <2>1, <2>2
<1>7. CASE w.node[d] = ":" /\ child(":") /\ ~child(parts[d])
  <2>1. x = "*"
    BY <1>3, <1>4, <1>7
  <2>2. QED
    BY <1>5, <1>7, <2>1
<1>8. CASE w.node[d] = "*" /\ ~child(parts[d]) /\ ~child(":")
  BY <1>3, <1>4, <1>8
<1>9. QED
  BY <1>6, <1>7, <1>8 DEF Chosen

LEMMA MissedRight ==
  ASSUME NEW routes, Templates(routes), NEW parts \in Seq(Text), NoPart("*", parts),
         NEW w \in WalkState, WalkInv(routes, parts, w, Len(parts)),
         NEW q \in routes, Fits(q.template, parts),
         w.at = "lost" \/ NodeOf(q.template) # w.node
  PROVE  \E p \in routes : LeadsAway(p.template, q.template, parts)
<1> DEFINE u == q.template
           n == Len(parts)
           m == Len(u)
           l == Len(w.node)
<1>1. /\ u \in Seq(Segment) /\ n \in Nat /\ m \in Nat /\ l \in Nat
      /\ DOMAIN parts = 1..n /\ w.node \in Seq(Text) /\ w.at \in {"inside", "end", "lost"}
  BY LenProperties DEF Templates, WalkState
<1>2. /\ m <= n /\ (m = 0 <=> n = 0)
      /\ \A i \in 1..m : /\ u[i].kind = "static" => SegValue(u[i]) = parts[i]
                         /\ u[i].kind = "wild" => i = m
      /\ n > m => m > 0 /\ u[m].kind = "wild"
  BY <1>1, FitsIs
<1>3. /\ w.at = "inside" => l = n
      /\ w.at = "end" => l \in 1..n /\ w.node[l] = "*"
      /\ w.at = "lost" =>
            /\ l < n
            /\ ~AtChild(routes, w, parts[l + 1])
            /\ ~AtChild(routes, w, ":") /\ ~AtChild(routes, w, "*")
      /\ \A j \in 1..l : Chosen(routes, parts, w, j)
  BY DEF WalkInv
<1>4. l <= n
  BY <1>1, <1>3
<1>5. \A i \in 1..m :
         /\ u[i].kind \in {"static", "param", "wild"}
         /\ SegValue(u[i]) = ":" <=> u[i].kind = "param"
         /\ SegValue(u[i]) = "*" <=> u[i].kind = "wild"
  BY <1>1, SegmentFacts
<1> HIDE DEF u, n, m, l
<1>6. CASE \E d \in 1..l : d <= m /\ w.node[d] # SegValue(u[d])
  <2> DEFINE D == {d \in 1..l : d <= m /\ w.node[d] # SegValue(u[d])}
  <2>1. PICK d \in D : \A e \in D : e >= d
    <3>1. D # {} /\ D \subseteq Nat
      BY <1>1, <1>6
    <3> HIDE DEF D
    <3>2. PICK d \in D : \A e \in D : <<e, d>> \notin NatPairs
      BY <3>1, NatPairsWellFounded, WFMin
    <3>3. \A e \in D : ~(e < d)
      BY <3>1, <3>2 DEF NatPairs
    <3>4. \A e \in D : e >= d
      BY <3>1, <3>3
    <3>5. QED
      BY <3>4
  <2>2. d \in 1..l /\ d <= m /\ w.node[d] # SegValue(u[d]) /\ d \in 1..n
    BY <1>1, <1>4, <2>1
  <2>3. Agrees(u, w.node, d - 1)
    <3>1. ASSUME NEW i \in 1..(d - 1) PROVE SegValue(u[i]) = w.node[i]
      <4>1. i \in 1..l /\ i <= m /\ ~(i >= d)
        BY <1>1, <2>2
      <4>2. QED
        BY <2>1, <4>1
    <3>2. QED
      BY <3>1 DEF Agrees
  <2>4. Chosen(routes, parts, w, d)
    BY <1>3, <2>2
  <2>5. QED
    BY <1>1, <2>2, <2>3, <2>4, LeavesAt DEF u, n, m
<1>7. CASE \A d \in 1..l : d <= m => w.node[d] = SegValue(u[d])
  <2>1. CASE l > m
    <3>1. n > m /\ m > 0 /\ m \in 1..m /\ m \in 1..l /\ m \in 1..n
      BY <1>1, <1>2, <1>4, <2>1
    <3>2. w.node[m] = "*" /\ parts[m] # "*" /\ m # l
      BY <1>1, <1>2, <1>5, <1>7, <2>1, <3>1 DEF NoPart
    <3>3. Chosen(routes, parts, w, m)
      BY <1>3, <3>1
    <3>4. QED
      BY <3>2, <3>3 DEF Chosen, l
  <2>2. CASE l = m
    <3>1. NodeOf(u) = w.node
      <4>1. NodeOf(u) \in Seq(Text) /\ Len(NodeOf(u)) = l /\ \A i \in 1..l : NodeOf(u)[i] = SegValue(u[i])
        BY <1>1, <2>2, NodeFacts DEF m
      <4>2. \A i \in 1..l : w.node[i] = NodeOf(u)[i]
        BY <1>1, <1>7, <2>2, <4>1
      <4>3. QED
        BY <1>1, <4>1, <4>2, SeqEqual DEF l
    <3>2. w.at = "lost" /\ l < n
      BY <1>3, <3>1 DEF u
    <3>3. m > 0 /\ u[m].kind = "wild" /\ m \in 1..m /\ m \in 1..l /\ m \in 1..n
      BY <1>1, <1>2, <2>2, <3>2
    <3>4. w.node[m] = "*" /\ parts[m] # "*"
      BY <1>1, <1>5, <1>7, <2>2, <3>3 DEF NoPart
    <3>5. Chosen(routes, parts, w, m)
      BY <1>3, <3>3
    <3>6. QED
      BY <3>2, <3>4, <3>5 DEF Chosen
  <2>3. CASE l < m
    <3>1. l + 1 \in 1..m /\ l + 1 <= m /\ l < n
      BY <1>1, <1>2, <2>3
    <3>2. AtChild(routes, w, SegValue(u[l + 1]))
      <4>1. \A i \in 1..l : SegValue(u[i]) = w.node[i]
        BY <1>1, <1>7, <2>3
      <4>2. (l + 1) - 1 = l
        BY <1>1
      <4>3. Agrees(u, w.node, (l + 1) - 1)
        BY <4>1, <4>2 DEF Agrees
      <4>4. QED
        BY <3>1, <4>3 DEF AtChild, Child, u, l, m
    <3>3. w.at = "lost"
      <4>1. w.at = "end" => l \in 1..m /\ u[l].kind = "wild"
        BY <1>1, <1>3, <1>5, <1>7, <2>3
      <4>2. QED
        BY <1>1, <1>2, <1>3, <2>3, <3>1, <4>1
    <3>4. SegValue(u[l + 1]) \in {parts[l + 1], ":", "*"}
      BY <1>2, <1>5, <3>1
    <3>5. QED
      BY <1>3, <3>2, <3>3, <3>4
  <2>4. QED
    BY <1>1, <2>1, <2>2, <2>3
<1>8. QED
  BY <1>6, <1>7 DEF u

LEMMA ParamsAre ==
  ASSUME NEW t \in Seq(Segment), NEW parts, NEW w \in WalkState, NodeOf(t) = w.node,
         ValuesInv(parts, w), NEW f, f = Params(t, w.values)
  PROVE  {f[i] : i \in DOMAIN f} = ParamsOf(t, parts)
<1> DEFINE l == Len(t)
           keys == ParamKeys(t)
           n == Len(w.values)
<1>1. l \in Nat /\ DOMAIN t = 1..l /\ Len(w.node) = l /\ keys = KeysUpTo(t)[l] /\ n \in Nat
  BY NodeFacts, SegmentFacts, KeysAre, LenProperties DEF WalkState
<1>2. Agrees(t, w.node, l)
  BY NodeFacts DEF Agrees
<1>3. Len(keys) = n /\ Paired(keys, w.values) = MetUpTo(t, parts, l)
  <2>1. Len(w.node) <= Len(t)
    BY <1>1
  <2>2. ValuesFor(t, parts, w)
    BY <1>1, <1>2, <2>1 DEF ValuesInv
  <2>3. QED
    BY <1>1, <2>2 DEF ValuesFor
<1>4. MetUpTo(t, parts, l) = ParamsOf(t, parts)
  BY <1>1 DEF MetUpTo, ParamsOf
<1>5. f = [i \in 1..n |-> <<keys[i], w.values[i]>>]
  BY <1>1, <1>3 DEF Params
<1>6. {f[i] : i \in DOMAIN f} = Paired(keys, w.values)
  BY <1>5 DEF Paired
<1>7. QED
  BY <1>3, <1>4, <1>6

(* What the search of a tree finds. *)
FoundRight(routes, parts, f) ==
    /\ f = NotFound =>
          \A q \in routes : Fits(q.template, parts) =>
              \E p \in routes : LeadsAway(p.template, q.template, parts)
    /\ f # NotFound =>
          \E q \in routes :
              /\ q.template = f.template /\ Fits(q.template, parts)
              /\ NoPart(":", parts) =>
                     {f.params[i] : i \in DOMAIN f.params} = ParamsOf(f.template, parts)
              /\ \A p \in routes : Fits(p.template, parts) => ~Preferred(p.template, f.template)

LEMMA MatchRight ==
  ASSUME NEW routes, Templates(routes), NEW parts \in Seq(STRING), NoPart("*", parts)
  PROVE  FoundRight(routes, parts, Match(routes, parts))
<1> DEFINE w == Walk(Nodes(routes), parts)
           reached == {route \in routes : w.at # "lost" /\ NodeOf(route.template) = w.node}
           f == Match(routes, parts)
<1>1. parts \in Seq(Text) /\ w \in WalkState /\ WalkInv(routes, parts, w, Len(parts))
  BY PathText, WalkRight
<1>2. ASSUME reached = {} PROVE FoundRight(routes, parts, f)
  <2>1. f = NotFound
    BY <1>2 DEF Match
  <2> HIDE DEF w, f
  <2>2. ASSUME NEW q \in routes, Fits(q.template, parts)
        PROVE  \E p \in routes : LeadsAway(p.template, q.template, parts)
    <3>1. w.at = "lost" \/ NodeOf(q.template) # w.node
      BY <1>2
    <3>2. QED
      BY <1>1, <2>2, <3>1, MissedRight
  <2>3. QED
    BY <2>1, <2>2 DEF FoundRight
<1>3. ASSUME reached # {} PROVE FoundRight(routes, parts, f)
  <2> DEFINE q == CHOOSE route \in reached : TRUE
             t == q.template
  <2>1. f = [template |-> t, params |-> Params(t, w.values)]
    BY <1>3 DEF Match
  <2>2. q \in reached
    BY <1>3
  <2> HIDE DEF q
  <2>3. q \in routes /\ w.at # "lost" /\ NodeOf(t) = w.node /\ t \in Seq(Segment)
    BY <2>2 DEF Templates
  <2> HIDE DEF w, f, reached, t
  <2>4. f.template = t /\ f.params = Params(t, w.values)
    BY <2>1
  <2>5. f # NotFound
    <3> SUFFICES ASSUME t = NotFound.template PROVE FALSE
      BY <2>4
    <3>1. Len(t) = 1 /\ t[1].kind = "none"
      BY DEF NotFound
    <3>2. t[1] \in Segment
      BY <2>3, <3>1, ElementOfSeq
    <3>3. QED
      BY <3>1, <3>2 DEF Segment
  <2>6. /\ Fits(t, parts)
        /\ \A p \in routes : Fits(p.template, parts) => ~Preferred(p.template, t)
    BY <1>1, <2>3, ReachedRight
  <2>7. ASSUME NoPart(":", parts)
        PROVE  {f.params[i] : i \in DOMAIN f.params} = ParamsOf(t, parts)
    <3>1. ValuesInv(parts, w)
      BY <1>1, <2>7, ValuesRight DEF w
    <3>2. \A g : g = Params(t, w.values) => {g[i] : i \in DOMAIN g} = ParamsOf(t, parts)
      BY <1>1, <2>3, <3>1, ParamsAre
    <3>3. QED
      BY <2>4, <3>2
  <2>8. QED
    BY <2>3, <2>4, <2>5, <2>6, <2>7 DEF FoundRight, t
<1>4. QED
  BY <1>2, <1>3

(* What a request is told, for every table and path. *)
LEMMA RouteRight ==
  ASSUME NEW routes, Templates(routes), NEW parts \in Seq(STRING), NoPart("*", parts), NEW method,
         NEW f, f = Route(routes, method, parts)
  PROVE  LET tree(m) == Of(routes, m)
             candidates == {q \in tree(method) \cup tree(AnyMethod) : Fits(q.template, parts)}
         IN IF f # NotFound
            THEN \E q \in candidates :
                   /\ q.template = f.template
                   /\ NoPart(":", parts) =>
                          {f.params[i] : i \in DOMAIN f.params} = ParamsOf(f.template, parts)
                   /\ \A p \in candidates : p.method = q.method => ~Preferred(p.template, f.template)
            ELSE \A q \in candidates :
                   \/ \E p \in tree(q.method) : LeadsAway(p.template, q.template, parts)
                   \/ parts = <<>> /\ q.method = AnyMethod /\ tree(method) # {}
<1> DEFINE tree(m) == Of(routes, m)
           candidates == {q \in tree(method) \cup tree(AnyMethod) : Fits(q.template, parts)}
           m1 == IF tree(method) # {} THEN method ELSE AnyMethod
           first == Match(tree(m1), parts)
           any == Match(tree(AnyMethod), parts)
<1>1. f = IF first = NotFound /\ parts # <<>> THEN any ELSE first
  BY DEF Route
<1>2. \A m, q : q \in tree(m) <=> q \in routes /\ q.method = m
  BY DEF Of
<1>3. \A m : FoundRight(tree(m), parts, Match(tree(m), parts))
  <2>1. \A m : Templates(tree(m))
    BY <1>2 DEF Templates
  <2> HIDE DEF tree
  <2>2. QED
    BY <2>1, MatchRight
<1> HIDE DEF tree
<1>4. CASE f # NotFound
  <2>1. PICK m \in {method, AnyMethod} : f = Match(tree(m), parts)
    BY <1>1
  <2>2. PICK q \in tree(m) :
           /\ q.template = f.template /\ Fits(q.template, parts)
           /\ NoPart(":", parts) =>
                  {f.params[i] : i \in DOMAIN f.params} = ParamsOf(f.template, parts)
           /\ \A p \in tree(m) : Fits(p.template, parts) => ~Preferred(p.template, f.template)
    BY <1>3, <1>4, <2>1 DEF FoundRight
  <2>3. q \in candidates /\ q.method = m
    BY <1>2, <2>2
  <2>4. \A p \in candidates : p.method = q.method => p \in tree(m) /\ Fits(p.template, parts)
    BY <1>2, <2>3
  <2>5. QED
    BY <1>4, <2>2, <2>3, <2>4 DEF tree
<1>5. CASE f = NotFound
  <2>1. first = NotFound
    BY <1>1, <1>5
  <2>2. parts # <<>> => any = NotFound
    BY <1>1, <1>5, <2>1
  <2>3. ASSUME NEW q \in candidates
        PROVE  \/ \E p \in tree(q.method) : LeadsAway(p.template, q.template, parts)
               \/ parts = <<>> /\ q.method = AnyMethod /\ tree(method) # {}
    <3>1. q \in tree(q.method) /\ q.method \in {method, AnyMethod} /\ Fits(q.template, parts)
      BY <1>2
    <3>2. ASSUME Match(tree(q.method), parts) = NotFound
          PROVE  \E p \in tree(q.method) : LeadsAway(p.template, q.template, parts)
      BY <1>3, <3>1, <3>2 DEF FoundRight
    <3>3. CASE q.method = m1
      BY <2>1, <3>2, <3>3
    <3>4. CASE q.method # m1
      <4>1. q.method = AnyMethod /\ tree(method) # {}
        BY <3>1, <3>4
      <4>2. CASE parts = <<>>
        BY <4>1, <4>2
      <4>3. CASE parts # <<>>
        BY <2>2, <3>2, <4>1, <4>3
      <4>4. QED
        BY <4>2, <4>3
    <3>5. QED
      BY <3>3, <3>4
  <2>4. QED
    BY <1>5, <2>3 DEF tree
<1>6. QED
  BY <1>4, <1>5

-----------------------------------------------------------------------------
(* What a handler has found is still what the router finds.                *)
RouteInv ==
    /\ DOMAIN found = Requests
    /\ \A r \in Requests :
         /\ stage[r] # "none" => started
         /\ handler[r] = "routed" =>
                found[r] = Route(table, request[r].method, request[r].path)

LEMMA OnlyFindRoute ==
  ASSUME RequestTypes, DOMAIN found = Requests, NEW r \in Requests, HandlerNext(r), ~FindRoute(r)
  PROVE  /\ UNCHANGED <<started, stage, table, request>> /\ DOMAIN found' = DOMAIN found
         /\ \A x \in Requests : handler'[x] = "routed" => handler[x] = "routed" /\ found'[x] = found[x]
<1> USE DEF RequestTypes, HandlerAt, HandlerGoesTo, serving, routing
<1>1. CASE AddFromHandler(r) \/ ReadBody(r) \/ Unnamed(r) \/ SeenNot(r) \/ MakeDeduper(r)
  BY <1>1 DEF AddFromHandler, ReadBody, Unnamed, SeenNot, Named, MakeDeduper
<1>2. CASE GetDeduper(r)
  BY <1>2 DEF GetDeduper
<1>3. CASE ServeOther(r) \/ BadSignature(r) \/ RefuseBody(r) \/ SeenBefore(r) \/ Publish(r)
           \/ PublishPanics(r)
  <2>1. EndHandler(r) /\ UNCHANGED <<started, stage, table, request>>
    BY <1>3 DEF ServeOther, BadSignature, RefuseBody, SeenBefore, Publish, PublishPanics, Named
  <2>2. \A x \in Requests : handler'[x] = "routed" => x # r /\ handler[x] = "routed"
    BY <2>1 DEF EndHandler
  <2>3. DOMAIN found' = DOMAIN found /\ \A x \in DOMAIN found : x # r => found'[x] = found[x]
    BY <2>1 DEF EndHandler
  <2>4. QED
    BY <2>1, <2>2, <2>3
<1>4. QED
  BY <1>1, <1>2, <1>3 DEF HandlerNext

LEMMA RouteStep ==
  ASSUME RequestTypes, ControlInv, RouteInv, [Next]_vars
  PROVE  RouteInv'
<1> USE DEF RequestTypes, RouteInv
<1>1. ASSUME UNCHANGED <<started, stage, table, request>>, DOMAIN found' = DOMAIN found,
             \A x \in Requests : handler'[x] = "routed" => handler[x] = "routed" /\ found'[x] = found[x]
      PROVE  RouteInv'
  BY <1>1
<1>2. ASSUME NEW r \in Requests, Arrive(r) PROVE RouteInv'
  <2>1. /\ started /\ UNCHANGED <<started, handler, table, found>> /\ handler[r] # "routed"
        /\ \A x \in Requests : x # r => request'[x] = request[x]
    BY <1>2 DEF Arrive, At, ControlInv, routing
  <2>2. QED
    BY <2>1
<1>3. ASSUME NEW r \in Requests, RequestNext(r) PROVE RouteInv'
  <2>1. UNCHANGED <<started, table, request, found>> /\ stage[r] # "none"
    BY <1>3 DEF RequestNext, EnterQueue, ServerBusy, AcquireWorker, QueueTimeout, GetBucket, Pass,
        TooMany, Finish, TimeoutFires, At, serving, routing
  <2>2. \A x \in Requests : stage'[x] # "none" => stage[x] # "none"
    BY <1>3, <2>1 DEF RequestNext, EnterQueue, ServerBusy, AcquireWorker, QueueTimeout, GetBucket,
        Pass, TooMany, Finish, TimeoutFires, Leave, GoTo
  <2>3. \A x \in Requests : handler'[x] = "routed" => handler[x] = "routed"
    BY <1>3 DEF RequestNext, EnterQueue, ServerBusy, AcquireWorker, QueueTimeout, GetBucket, Pass,
        TooMany, Finish, TimeoutFires, HandlerGoesTo
  <2>4. QED
    BY <2>1, <2>2, <2>3
<1>4. ASSUME NEW r \in Requests, FindRoute(r) PROVE RouteInv'
  <2>1. /\ UNCHANGED <<started, stage, table, request>>
        /\ \A x \in Requests : x # r => handler'[x] = handler[x]
    BY <1>4 DEF FindRoute, HandlerGoesTo, serving
  <2>2. found' = [found EXCEPT ![r] = Route(table, request[r].method, request[r].path)]
    BY <1>4 DEF FindRoute
  <2>3. DOMAIN found' = DOMAIN found /\ \A x \in DOMAIN found : x # r => found'[x] = found[x]
    BY <2>2
  <2>4. found'[r] = Route(table, request[r].method, request[r].path)
    BY <2>2
  <2>5. QED
    BY <2>1, <2>3, <2>4
<1>5. ASSUME NEW r \in Requests, HandlerNext(r), ~FindRoute(r) PROVE RouteInv'
  BY <1>1, <1>5, OnlyFindRoute
<1>6. ASSUME NEW route \in Routes, AddRoute(route) PROVE RouteInv'
  <2>1. ~started /\ UNCHANGED <<started, stage, handler, found>>
    BY <1>6 DEF AddRoute, serving
  <2>2. \A r \in Requests : stage[r] = "none"
    BY <2>1
  <2>3. \A r \in Requests : handler[r] # "routed"
    BY <2>2 DEF ControlInv
  <2>4. QED
    BY <2>1, <2>2, <2>3
<1>7. CASE Serve
  BY <1>7 DEF Serve, routing
<1>8. CASE Tick \/ CloseBus \/ Cleanup \/ UNCHANGED vars
  BY <1>1, <1>8 DEF Tick, CloseBus, Cleanup, vars, serving, routing
<1>9. QED
  BY <1>2, <1>3, <1>4, <1>5, <1>6, <1>7, <1>8 DEF Next

LEMMA RoutedFollows == RequestTypes /\ RouteTypes /\ RouteInv => RoutedRight
<1> SUFFICES ASSUME RequestTypes, RouteTypes, RouteInv,
                    NEW r \in Requests, handler[r] = "routed", NoPart("*", request[r].path)
             PROVE  LET parts == request[r].path
                        tree(m) == Of(table, m)
                        t == found[r].template
                        candidates == {q \in tree(request[r].method) \cup tree(AnyMethod) :
                                          Fits(q.template, parts)}
                    IN IF found[r] # NotFound
                       THEN \E q \in candidates :
                              /\ q.template = t
                              /\ NoPart(":", parts) =>
                                     {found[r].params[i] : i \in DOMAIN found[r].params}
                                         = ParamsOf(t, parts)
                              /\ \A p \in candidates :
                                    p.method = q.method => ~Preferred(p.template, t)
                       ELSE \A q \in candidates :
                              \/ \E p \in tree(q.method) : LeadsAway(p.template, q.template, parts)
                              \/ parts = <<>> /\ q.method = AnyMethod /\ tree(request[r].method) # {}
  BY DEF RoutedRight
<1>1. Templates(table)
  BY RoutingAssumption DEF RouteTypes, Templates
<1>2. request[r].path \in Seq(STRING)
  <2>1. request[r] \in Lookups \cup Asks \cup {NoRequest}
    BY DEF RequestTypes
  <2>2. NoRequest.path \in Seq(STRING)
    BY EmptySeq DEF NoRequest
  <2>3. QED
    BY <2>1, <2>2, RoutingAssumption
<1>3. found[r] = Route(table, request[r].method, request[r].path)
  BY DEF RouteInv
<1>4. QED
  BY <1>1, <1>2, <1>3, RouteRight

(* The router finds the route that the templates say, with its parameters, *)
(* whatever the route table and the path; no route is missed but for a     *)
(* dead end that a preferred one leads to, and for the root.               *)
THEOREM RoutingCorrect == Spec => []RoutedRight
<1>1. Init => RouteInv
  BY DEF Init, All, RouteInv
<1>2. IInv /\ RouteInv /\ [Next]_vars => RouteInv'
  BY RouteStep, TypeParts DEF IInv
<1>3. IInv /\ RouteInv => RoutedRight
  BY RoutedFollows, TypeParts DEF IInv
<1>4. QED
  BY <1>1, <1>2, <1>3, Inductive, PTL DEF Spec
=============================================================================
