------------------------------ MODULE Ingress ------------------------------
(***************************************************************************)
(* The way of a request through the server: the body limit and the         *)
(* concurrency limit that pkg/core puts first, the rate limiter, perhaps a *)
(* timeout, the router, and the receiver of webhooks, which publishes each *)
(* event once.                                                             *)
(*                                                                         *)
(* A request has a stage, and its handler another: under the timeout the   *)
(* handler runs in a goroutine of its own, which goes on after the answer  *)
(* 504.  Time passes in ticks, and a timer that is set can fire.           *)
(***************************************************************************)
EXTENDS Router, FiniteSets, Integers

CONSTANTS
    Requests, Events,
    Lookups,            \* what one request alone may ask, of any route table
    Asks,               \* what requests may ask together, of one route table
    Routes,             \* what can be registered
    HookRoute,          \* the route of the inbound webhooks
    AddingRoute,        \* a route whose handler registers a route
    MaxBytes,           \* of the body limit
    Configs,            \* [timeout, workers, depth]: whether Timeout is among the
                        \* middleware, and the arguments of the concurrency limit
    Rate, Capacity, MaxIdle,        \* of the rate limiter: tokens per tick, tokens, ticks
    DedupTTL,           \* in ticks
    MaxRoutes, MaxTime, \* bounds of the model
    None

ASSUME IngressAssumption ==
    /\ MaxBytes \in Nat \ {0}
    /\ \A a \in Lookups \cup Asks :
         a.event \in Events \cup {None} /\ a.body \in [size : Nat, eof : {"with data", "alone"}]
    /\ Configs \subseteq [timeout : BOOLEAN, workers : Nat \ {0}, depth : Nat]
    /\ Rate \in Nat /\ Capacity \in Nat /\ MaxIdle \in Nat /\ DedupTTL \in Nat
    /\ MaxRoutes \in Nat /\ MaxTime \in Nat
    /\ None \notin Requests \cup Events

ASSUME RoutingAssumption ==
    /\ \A route \in Routes : route.template \in Seq(Segment)
    /\ \A a \in Lookups \cup Asks : a.path \in Seq(STRING)

NoBucket == [of |-> None, time |-> 0, tokens |-> 0]
NoRequest == [method |-> "GET", path |-> <<>>, event |-> None, body |-> None]

VARIABLES
    now, started,
    config,
    request,            \* what each request asks for
    stage, handler,     \* of each request and of its handler
    status,             \* the first status written, 0 before
    buffered,           \* the status in the timeoutResponseWriter
    queue, sem,         \* tokens in the two channels of the concurrency limit
    bucket,             \* whose bucket is in the limiter's map
    buckets,            \* [tokens, refill, access], by the request that made it
    held,               \* the bucket a request is at, the time and tokens it read
    table,              \* the routes registered
    found,              \* what the router found for each request
    reading, adding,    \* who holds the router's read lock, who waits to write
    deduper, mine,      \* webhookInDeduper, and the one a handler got; named as buckets
    seen,               \* when the entry of an event ends, by deduper
    busClosed,
    accepted,           \* history: [event, time, by] of what was not seen before
    published, lost,    \* history: events published; events Publish refused or panicked on
    repeated,           \* history: events answered as seen before
    allowed, overlap,   \* history: who passed the limiter; two were at one bucket
    late                \* history: requests written to after their end

serving == <<started, config, request>>
answers == <<status, buffered, late>>
limits == <<queue, sem>>
rates == <<bucket, buckets, held, allowed, overlap>>
routing == <<table, found, reading, adding>>
hooks == <<deduper, mine, seen, busClosed, accepted, published, lost, repeated>>
vars == <<now, serving, stage, handler, answers, limits, rates, routing, hooks>>

All(x) == [r \in Requests |-> x]

Init ==
    /\ now = 0 /\ started = FALSE /\ config \in Configs
    /\ request = All(NoRequest) /\ stage = All("none") /\ handler = All("none")
    /\ status = All(0) /\ buffered = All(0) /\ late = {}
    /\ queue = 0 /\ sem = 0
    /\ bucket = None /\ buckets = All([tokens |-> 0, refill |-> 0, access |-> 0])
    /\ held = All(NoBucket) /\ allowed = {} /\ overlap = FALSE
    /\ table = {} /\ found = All(NotFound) /\ reading = {} /\ adding = {}
    /\ deduper = None /\ mine = All(None) /\ seen = All([e \in Events |-> 0])
    /\ busClosed = FALSE
    /\ accepted = {} /\ published = {} /\ lost = {} /\ repeated = {}

withTimeout == config.timeout
(* The concurrency limit never queues fewer than it lets run. *)
Depth == IF config.depth < config.workers THEN config.workers ELSE config.depth

At(r, s) == stage[r] = s
GoTo(r, s) == stage' = [stage EXCEPT ![r] = s]
HandlerAt(r, s) == handler[r] = s
HandlerGoesTo(r, s) == handler' = [handler EXCEPT ![r] = s]

-----------------------------------------------------------------------------
(* Before the first request.                                               *)

(* A second handler for a route ends the program; what was registered      *)
(* before stays as it is.                                                  *)
AddRoute(route) ==
    /\ ~started /\ Cardinality(table) < MaxRoutes
    /\ ~Duplicate(table, route)
    /\ table' = table \cup {route}
    /\ UNCHANGED <<now, serving, stage, handler, answers, limits, rates, found, reading,
                   adding, hooks>>

(* Bound of the model: there are several requests, time passes and the      *)
(* configurations differ only with the one route table.                    *)
Crowded == table = {HookRoute, AddingRoute}

Serve ==
    /\ Crowded \/ config = CHOOSE c \in Configs : ~c.timeout
    /\ ~started /\ started' = TRUE
    /\ UNCHANGED <<now, config, request, stage, handler, answers, limits, rates, routing,
                   hooks>>

Tick ==
    /\ started /\ Crowded /\ now < MaxTime /\ now' = now + 1
    /\ UNCHANGED <<serving, stage, handler, answers, limits, rates, routing, hooks>>

(* Only Publish looks at the bus, so it may as well be closed then. *)
CloseBus ==
    /\ \E r \in Requests : HandlerAt(r, "publishing")
    /\ ~busClosed /\ busClosed' = TRUE
    /\ UNCHANGED <<now, serving, stage, handler, answers, limits, rates, routing, deduper,
                   mine, seen, accepted, published, lost, repeated>>

Arrive(r) ==
    /\ started /\ At(r, "none")
    /\ Crowded \/ r = CHOOSE x \in Requests : TRUE
    /\ \E ask \in IF Crowded THEN Asks ELSE Lookups : request' = [request EXCEPT ![r] = ask]
    /\ GoTo(r, "arrived")
    /\ UNCHANGED <<now, started, config, handler, answers, limits, rates, routing, hooks>>

-----------------------------------------------------------------------------
(* Answers.                                                                *)

Wrote(r, code) == IF status[r] = 0 THEN [status EXCEPT ![r] = code] ELSE status

(* A handler's answer goes to the timeout's buffer or to the connection.   *)
(* Mutant: it goes to the connection.                                      *)
Answer_Unbuffered(r, code) ==
    /\ status' = Wrote(r, code)
    /\ late' = IF At(r, "done") THEN late \cup {r} ELSE late
    /\ UNCHANGED buffered

Answer(r, code) ==
    IF withTimeout
    THEN buffered' = [buffered EXCEPT ![r] = code] /\ UNCHANGED <<status, late>>
    ELSE status' = Wrote(r, code) /\ UNCHANGED <<buffered, late>>

(* The body limit answers at once, past whatever is between. *)
AnswerAtOnce(r, code) ==
    /\ status' = Wrote(r, code)
    /\ late' = IF At(r, "done") THEN late \cup {r} ELSE late

-----------------------------------------------------------------------------
(* The limits.                                                             *)

EnterQueue(r) ==
    /\ At(r, "arrived") /\ queue < Depth
    /\ queue' = queue + 1
    /\ GoTo(r, "waiting")
    /\ UNCHANGED <<now, serving, handler, answers, sem, rates, routing, hooks>>

ServerBusy(r) ==
    /\ At(r, "arrived") /\ queue >= Depth
    /\ status' = Wrote(r, 503)
    /\ GoTo(r, "done")
    /\ UNCHANGED <<now, serving, handler, buffered, late, limits, rates, routing, hooks>>

AcquireWorker(r) ==
    /\ At(r, "waiting") /\ sem < config.workers
    /\ sem' = sem + 1
    /\ GoTo(r, "admitted")
    /\ UNCHANGED <<now, serving, handler, answers, queue, rates, routing, hooks>>

(* Mutant: a worker's token is given back that was not taken. *)
QueueTimeout_Both(r) ==
    /\ At(r, "waiting")
    /\ queue' = queue - 1 /\ sem' = sem - 1
    /\ status' = Wrote(r, 503)
    /\ GoTo(r, "done")
    /\ UNCHANGED <<now, serving, handler, buffered, late, rates, routing, hooks>>

(* Mutant: the token of the queue is kept. *)
QueueTimeout_Kept(r) ==
    /\ At(r, "waiting")
    /\ status' = Wrote(r, 503)
    /\ GoTo(r, "done")
    /\ UNCHANGED <<now, serving, handler, buffered, late, limits, rates, routing, hooks>>

QueueTimeout(r) ==
    /\ At(r, "waiting")
    /\ queue' = queue - 1
    /\ status' = Wrote(r, 503)
    /\ GoTo(r, "done")
    /\ UNCHANGED <<now, serving, handler, buffered, late, sem, rates, routing, hooks>>

(* The deferred receives of the concurrency limit. *)
Leave(r) == queue' = queue - 1 /\ sem' = sem - 1 /\ GoTo(r, "done")

Least(a, b) == IF a < b THEN a ELSE b

Refilled(b) == Least(Capacity, b.tokens + Rate * (now - b.refill))

(* getBucket, under the mutex; Allow reads the bucket without it. *)
GetBucket(r) ==
    /\ At(r, "admitted")
    /\ LET of == IF bucket = None THEN r ELSE bucket
           b == IF bucket = None THEN [tokens |-> Capacity, refill |-> now, access |-> now]
                ELSE buckets[bucket]
       IN /\ bucket' = of
          /\ buckets' = [buckets EXCEPT ![of] = b]
          /\ held' = [held EXCEPT ![r] = [of |-> of, time |-> now, tokens |-> Refilled(b)]]
          /\ overlap' = (overlap \/ \E x \in Requests : held[x].of = of)
    /\ GoTo(r, "limiting")
    /\ UNCHANGED <<now, serving, handler, answers, limits, routing, hooks, allowed>>

(* Allow takes a token of what it read: a request at the same bucket may   *)
(* have taken the same one, or its own may come off what that one left.    *)
Pass(r) ==
    LET h == held[r] IN
    /\ At(r, "limiting") /\ h.tokens >= 1
    /\ \E left \in {h.tokens - 1, buckets[h.of].tokens - 1} :
         /\ ~overlap => left = h.tokens - 1
         /\ buckets' = [buckets EXCEPT ![h.of] =
                           [tokens |-> left, refill |-> h.time, access |-> h.time]]
    /\ held' = [held EXCEPT ![r] = NoBucket]
    /\ allowed' = allowed \cup {r}
    /\ GoTo(r, "running") /\ HandlerGoesTo(r, "routing")
    /\ UNCHANGED <<now, serving, answers, limits, bucket, overlap, routing, hooks>>

TooMany(r) ==
    LET h == held[r] IN
    /\ At(r, "limiting") /\ h.tokens < 1
    /\ buckets' = [buckets EXCEPT ![h.of] =
                      [tokens |-> h.tokens, refill |-> h.time, access |-> h.time]]
    /\ held' = [held EXCEPT ![r] = NoBucket]
    /\ status' = Wrote(r, 429)
    /\ Leave(r)
    /\ UNCHANGED <<now, serving, handler, buffered, late, bucket, allowed, overlap, routing,
                   hooks>>

(* Mutant: a bucket just used is idle. *)
Cleanup_NotIdle ==
    /\ bucket # None /\ now - buckets[bucket].access >= MaxIdle
    /\ overlap' = (overlap \/ \E x \in Requests : held[x].of = bucket)
    /\ bucket' = None
    /\ UNCHANGED <<now, serving, stage, handler, answers, limits, buckets, held, allowed,
                   routing, hooks>>

(* cleanup may take a bucket out that a request is at. *)
Cleanup ==
    /\ bucket # None /\ now - buckets[bucket].access > MaxIdle
    /\ overlap' = (overlap \/ \E x \in Requests : held[x].of = bucket)
    /\ bucket' = None
    /\ UNCHANGED <<now, serving, stage, handler, answers, limits, buckets, held, allowed,
                   routing, hooks>>

(* The handler is done: what it wrote to the buffer is written now. *)
Finish(r) ==
    /\ At(r, "running") /\ HandlerAt(r, "end")
    /\ status' = IF withTimeout THEN Wrote(r, buffered[r]) ELSE status
    /\ Leave(r)
    /\ UNCHANGED <<now, serving, handler, buffered, late, rates, routing, hooks>>

(* Mutant: it waits for the handler before it answers. *)
TimeoutFires_Waits(r) ==
    /\ withTimeout /\ At(r, "running") /\ HandlerAt(r, "end")
    /\ status' = Wrote(r, 504)
    /\ Leave(r)
    /\ UNCHANGED <<now, serving, handler, buffered, late, rates, routing, hooks>>

(* The timeout answers and the handler goes on; both may be ready at once. *)
TimeoutFires(r) ==
    /\ withTimeout /\ At(r, "running")
    /\ status' = Wrote(r, 504)
    /\ Leave(r)
    /\ UNCHANGED <<now, serving, handler, buffered, late, rates, routing, hooks>>

-----------------------------------------------------------------------------
(* The router.  A waiting writer keeps new readers out.                    *)

EndHandler(r) ==
    /\ HandlerGoesTo(r, "end")
    /\ reading' = reading \ {r} /\ found' = [found EXCEPT ![r] = NotFound]

(* ServeHTTP holds the read lock until the handler returns. *)
FindRoute(r) ==
    /\ HandlerAt(r, "routing") /\ adding = {}
    /\ found' = [found EXCEPT ![r] = Route(table, request[r].method, request[r].path)]
    /\ reading' = reading \cup {r}
    /\ HandlerGoesTo(r, "routed")
    /\ UNCHANGED <<now, serving, stage, answers, limits, rates, table, adding, hooks>>

Runs(r, route) == found[r].template = route.template

ServeOther(r) ==
    /\ HandlerAt(r, "routed") /\ ~Runs(r, HookRoute) /\ ~Runs(r, AddingRoute)
    /\ Answer(r, IF found[r] = NotFound THEN 404 ELSE 200)
    /\ EndHandler(r)
    /\ UNCHANGED <<now, serving, stage, limits, rates, table, adding, hooks>>

(* The handler waits for the lock its own goroutine holds. *)
AddFromHandler(r) ==
    /\ HandlerAt(r, "routed") /\ Runs(r, AddingRoute)
    /\ adding' = adding \cup {r}
    /\ HandlerGoesTo(r, "adding")
    /\ UNCHANGED <<now, serving, stage, answers, limits, rates, table, found, reading, hooks>>

-----------------------------------------------------------------------------
(* The receiver of webhooks.                                               *)

(* limitedBodyReader: a body of the limit's size is refused too when its   *)
(* end takes a read of its own.                                            *)
TooLarge(body) == body.size > MaxBytes \/ (body.size = MaxBytes /\ body.eof = "alone")

(* The signature or its header is wrong. *)
BadSignature(r) ==
    /\ HandlerAt(r, "routed") /\ Runs(r, HookRoute)
    /\ Answer(r, 401)
    /\ EndHandler(r)
    /\ UNCHANGED <<now, serving, stage, limits, rates, table, adding, hooks>>

ReadBody(r) ==
    /\ HandlerAt(r, "routed") /\ Runs(r, HookRoute) /\ ~TooLarge(request[r].body)
    /\ HandlerGoesTo(r, "verified")
    /\ UNCHANGED <<now, serving, stage, answers, limits, rates, routing, hooks>>

(* The signature cannot be verified then: the handler answers 401. *)
RefuseBody(r) ==
    /\ HandlerAt(r, "routed") /\ Runs(r, HookRoute) /\ TooLarge(request[r].body)
    /\ AnswerAtOnce(r, 413)
    /\ buffered' = IF withTimeout THEN [buffered EXCEPT ![r] = 401] ELSE buffered
    /\ EndHandler(r)
    /\ UNCHANGED <<now, serving, stage, limits, rates, table, adding, hooks>>

(* ensureWebhookInDeduper: reads the field, and then may write it. *)
GetDeduper(r) ==
    /\ HandlerAt(r, "verified")
    /\ mine' = [mine EXCEPT ![r] = deduper]
    /\ HandlerGoesTo(r, IF deduper = None THEN "making" ELSE "asking")
    /\ UNCHANGED <<now, serving, stage, answers, limits, rates, routing, deduper, seen,
                   busClosed, accepted, published, lost, repeated>>

MakeDeduper(r) ==
    /\ HandlerAt(r, "making")
    /\ deduper' = r /\ mine' = [mine EXCEPT ![r] = r]
    /\ HandlerGoesTo(r, "asking")
    /\ UNCHANGED <<now, serving, stage, answers, limits, rates, routing, seen, busClosed,
                   accepted, published, lost, repeated>>

(* A request without an id is not compared. *)
Unnamed(r) ==
    /\ HandlerAt(r, "asking") /\ request[r].event = None
    /\ HandlerGoesTo(r, "publishing")
    /\ UNCHANGED <<now, serving, stage, answers, limits, rates, routing, hooks>>

Named(r) == HandlerAt(r, "asking") /\ request[r].event # None
Expiry(r) == seen[mine[r]][request[r].event]

(* Mutant: the event is looked for and not marked. *)
SeenNot_Unmarked(r) ==
    /\ Named(r) /\ now >= Expiry(r)
    /\ accepted' = accepted \cup {[event |-> request[r].event, time |-> now, by |-> r]}
    /\ HandlerGoesTo(r, "publishing")
    /\ UNCHANGED <<now, serving, stage, answers, limits, rates, routing, deduper, mine, seen,
                   busClosed, published, lost, repeated>>

(* SeenBefore: an event not seen, or not for the ttl, is marked. *)
SeenNot(r) ==
    /\ Named(r) /\ now >= Expiry(r)
    /\ seen' = [seen EXCEPT ![mine[r]][request[r].event] = now + DedupTTL]
    /\ accepted' = accepted \cup {[event |-> request[r].event, time |-> now, by |-> r]}
    /\ HandlerGoesTo(r, "publishing")
    /\ UNCHANGED <<now, serving, stage, answers, limits, rates, routing, deduper, mine,
                   busClosed, published, lost, repeated>>

SeenBefore(r) ==
    /\ Named(r) /\ now < Expiry(r)
    /\ repeated' = repeated \cup {request[r].event}
    /\ Answer(r, 200)
    /\ EndHandler(r)
    /\ UNCHANGED <<now, serving, stage, limits, rates, table, adding, deduper, mine,
                   seen, busClosed, accepted, published, lost>>

(* Mutant: nothing is published for a request that was answered. *)
Publish_InTime(r) ==
    /\ HandlerAt(r, "publishing")
    /\ published' = IF At(r, "done") THEN published ELSE published \cup {request[r].event}
    /\ Answer(r, 200)
    /\ EndHandler(r)
    /\ UNCHANGED <<now, serving, stage, limits, rates, table, adding, deduper, mine,
                   seen, busClosed, accepted, lost, repeated>>

(* A closed bus is an error that is logged; the answer is the same. *)
Publish(r) ==
    /\ HandlerAt(r, "publishing")
    /\ IF busClosed THEN lost' = lost \cup {request[r].event} /\ UNCHANGED published
       ELSE published' = published \cup {request[r].event} /\ UNCHANGED lost
    /\ Answer(r, 200)
    /\ EndHandler(r)
    /\ UNCHANGED <<now, serving, stage, limits, rates, table, adding, deduper, mine,
                   seen, busClosed, accepted, repeated>>

(* Publish panics, when the bus is being closed: the deferred calls run and *)
(* the recovery answers.                                                    *)
PublishPanics(r) ==
    /\ HandlerAt(r, "publishing") /\ busClosed /\ ~withTimeout
    /\ lost' = lost \cup {request[r].event}
    /\ Answer(r, 500)
    /\ EndHandler(r)
    /\ UNCHANGED <<now, serving, stage, limits, rates, table, adding, deduper, mine,
                   seen, busClosed, accepted, published, repeated>>

-----------------------------------------------------------------------------
RequestNext(r) ==
    \/ EnterQueue(r) \/ ServerBusy(r) \/ AcquireWorker(r) \/ QueueTimeout(r)
    \/ GetBucket(r) \/ Pass(r) \/ TooMany(r) \/ Finish(r) \/ TimeoutFires(r)

HandlerNext(r) ==
    \/ FindRoute(r) \/ ServeOther(r) \/ AddFromHandler(r)
    \/ BadSignature(r) \/ ReadBody(r) \/ RefuseBody(r) \/ GetDeduper(r) \/ MakeDeduper(r)
    \/ Unnamed(r) \/ SeenNot(r) \/ SeenBefore(r) \/ Publish(r) \/ PublishPanics(r)

Next ==
    \/ \E route \in Routes : AddRoute(route)
    \/ Serve \/ Tick \/ CloseBus \/ Cleanup
    \/ \E r \in Requests : Arrive(r) \/ RequestNext(r) \/ HandlerNext(r)

Spec == Init /\ [][Next]_vars

(* Goroutines run on and the timers that are set fire. *)
FairSpec ==
    Spec /\ \A r \in Requests : WF_vars(RequestNext(r)) /\ WF_vars(HandlerNext(r))

-----------------------------------------------------------------------------
Statuses == {0, 200, 401, 404, 413, 429, 500, 503, 504}
Stages == {"none", "arrived", "waiting", "admitted", "limiting", "running", "done"}
HandlerStages == {"none", "routing", "routed", "adding", "verified", "making", "asking",
                  "publishing", "end"}

(* Types; no status is written but these. *)
TypeOK ==
    /\ now \in 0..MaxTime /\ started \in BOOLEAN /\ config \in Configs
    /\ request \in [Requests -> Lookups \cup Asks \cup {NoRequest}]
    /\ stage \in [Requests -> Stages] /\ handler \in [Requests -> HandlerStages]
    /\ status \in [Requests -> Statuses] /\ buffered \in [Requests -> Statuses]
    /\ queue \in 0..Depth /\ sem \in 0..config.workers
    /\ bucket \in Requests \cup {None}
    /\ buckets \in [Requests -> [tokens : Int, refill : 0..MaxTime, access : 0..MaxTime]]
    /\ held \in [Requests -> [of : Requests \cup {None}, time : 0..MaxTime, tokens : Int]]
    /\ table \subseteq Routes /\ reading \subseteq Requests /\ adding \subseteq reading
    /\ deduper \in Requests \cup {None} /\ mine \in [Requests -> Requests \cup {None}]
    /\ seen \in [Requests -> [Events -> Nat]]
    /\ published \cup lost \cup repeated \subseteq Events \cup {None}
    /\ busClosed \in BOOLEAN /\ overlap \in BOOLEAN
    /\ allowed \subseteq Requests /\ late \subseteq Requests

(* Every exit of a request gives back the tokens it holds, no more: as many *)
(* as there are requests between entry and exit.                            *)
TokensHeld ==
    /\ queue = Cardinality({r \in Requests : stage[r] \in
                               {"waiting", "admitted", "limiting", "running"}})
    /\ sem = Cardinality({r \in Requests : stage[r] \in {"admitted", "limiting", "running"}})

(* As long as no two requests were at one bucket at a time, nor cleanup at  *)
(* one in use, the limiter lets no more pass than the bucket held and what  *)
(* was added since.                                                         *)
RateKept ==
    ~overlap /\ Rate * (MaxIdle + 1) >= Capacity =>
        Cardinality(allowed) <= Capacity + Rate * now

NoPart(name, parts) == \A i \in DOMAIN parts : parts[i] # name

(* A route is found only if the path has its form, its parameters are those *)
(* parts of the path (unless a part is called like a parameter's node), and *)
(* no route of its method that fits is more specific.  None is found, though *)
(* one fits, only when a more specific one leads into a dead end, or for    *)
(* the root: that is looked for under one method.  A part "*" is taken for  *)
(* the node of a wildcard, as if it were its name; such paths are left out. *)
RoutedRight ==
    \A r \in Requests : handler[r] = "routed" /\ NoPart("*", request[r].path) =>
        LET parts == request[r].path
            tree(m) == Of(table, m)
            t == found[r].template
            candidates == {q \in tree(request[r].method) \cup tree(AnyMethod) :
                              Fits(q.template, parts)}
        IN IF found[r] # NotFound
           THEN \E q \in candidates :
                  /\ q.template = t
                  /\ NoPart(":", parts) =>
                         {found[r].params[i] : i \in DOMAIN found[r].params} = ParamsOf(t, parts)
                  /\ \A p \in candidates : p.method = q.method => ~Preferred(p.template, t)
           ELSE \A q \in candidates :
                  \/ \E p \in tree(q.method) : LeadsAway(p.template, q.template, parts)
                  \/ parts = <<>> /\ q.method = AnyMethod /\ tree(request[r].method) # {}

(* An event is accepted again only when its time is over, or when two first *)
(* requests made a deduper each.                                            *)
AcceptedOnce ==
    \A a, b \in accepted :
        a # b /\ a.event = b.event =>
            \/ a.time >= b.time + DedupTTL \/ b.time >= a.time + DedupTTL
            \/ mine[a.by] # mine[b.by]

(* Nothing is written to a request that has ended, but a body limit that is *)
(* exceeded after the timeout has answered.                                 *)
NoLateWrite == \A r \in late : withTimeout /\ TooLarge(request[r].body)

(* Every request is answered, unless it or another is at a handler that     *)
(* registers a route and there is no timeout.                               *)
Answered ==
    \A r \in Requests :
        stage[r] # "none" ~>
            (stage[r] = "done" /\ status[r] # 0) \/ (adding # {} /\ ~withTimeout)

(* An event that was answered as seen before is published in the end, or    *)
(* its publication has failed.  The first answer may well have been 504.    *)
RepeatIsPublished ==
    \A e \in Events : e \in repeated ~> e \in published \cup lost
=============================================================================
