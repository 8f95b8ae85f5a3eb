----------------------------- MODULE WebSocket -----------------------------
(***************************************************************************)
(* The WebSocket server of pkg/net/websocket and its end in pkg/core: the  *)
(* connections with their reader, writer pump, pong monitor and cleanup    *)
(* goroutines, the hub with its room and its workers, the request that     *)
(* broadcasts to all, and the shutdown that stops the hub.                 *)
(*                                                                         *)
(* One room is modelled.  A message is known by its sender, its number and *)
(* the number of its parts: the fragments it was read in, each the size of *)
(* one that writerPump cuts.  Time is abstracted to what may happen: a     *)
(* timer can fire whenever it is set.                                      *)
(***************************************************************************)
EXTENDS FiniteSets, Naturals, Sequences

CONSTANTS
    Conns, Workers,
    Behaviors,          \* of {"wait", "block", "drop", "close"}: SendBlock with a
                        \* timeout and without, SendDrop, SendClose
    JobQueueSize, SendQueueSize,
    MaxMessages, MaxParts,  \* bounds of the model
    Admin               \* the request that broadcasts to all

ASSUME WebSocketAssumption ==
    /\ IsFiniteSet(Workers)
    /\ Behaviors \subseteq {"wait", "block", "drop", "close"}
    /\ JobQueueSize \in Nat /\ SendQueueSize \in Nat
    /\ MaxMessages \in Nat /\ MaxParts \in Nat \ {0}
    /\ Admin \notin Conns \cup {"none", "map"}

Senders == Conns \cup {Admin}
Message == [from : Senders, num : 1..MaxMessages, parts : 1..MaxParts]
NoMessage == [from |-> Admin, num |-> 0, parts |-> 0]
NoFrame == [msg |-> NoMessage, part |-> 0]
Job == [conn : Conns, msg : Message]

VARIABLES
    phase,      \* "up", "draining", "stopping" (Stop has closed its channels), "stopped"
    crash,      \* "none", or what ended the program
    behavior,   \* sendBehavior and whether sendTimeout is positive
    stage,      \* of ServeWSWithAuth: "none", "opening" (NewConn is done), "serving"
    closed,     \* the connections that are closed
    broken,     \* those whose peer is gone; a write fails from then on
    members,    \* the room
    sender,     \* who broadcasts: [at, msg, todo] of each reader and the request
    jobs,       \* jobQueue
    worker,     \* [at, conn, msg]
    queue,      \* sendQueue of each connection
    pump,       \* [at, msg, part] of its writer pump
    last,       \* history: the last data frame each peer received of each sender
    count,      \* messages so far
    timedOut    \* history: Shutdown gave up on a request under way

conns == <<stage, closed, broken>>
vars == <<phase, crash, behavior, conns, members, sender, jobs, worker, queue, pump, last,
          count, timedOut>>

AtRest(at) == [at |-> at, msg |-> NoMessage, todo |-> {}]
PumpIdle == [at |-> "idle", msg |-> NoMessage, part |-> 0]

Init ==
    /\ phase = "up" /\ crash = "none" /\ behavior \in Behaviors
    /\ stage = [c \in Conns |-> "none"] /\ closed = {} /\ broken = {}
    /\ members = {}
    /\ sender = [s \in Senders |-> AtRest("idle")]
    /\ jobs = <<>>
    /\ worker = [w \in Workers |-> [at |-> "idle", conn |-> Admin, msg |-> NoMessage]]
    /\ queue = [c \in Conns |-> <<>>] /\ pump = [c \in Conns |-> PumpIdle]
    /\ last = [c \in Conns |-> [s \in Senders |-> NoFrame]]
    /\ count = 0 /\ timedOut = FALSE

(* Nothing runs in a program that has ended. *)
Alive == crash = "none"

-----------------------------------------------------------------------------
(* Connections.                                                            *)

Open(c) ==
    /\ Alive
    /\ phase = "up" /\ stage[c] = "none"
    /\ stage' = [stage EXCEPT ![c] = "opening"]
    /\ UNCHANGED <<phase, crash, behavior, closed, broken, members, sender, jobs, worker,
                   queue, pump, last, count, timedOut>>

(* BroadcastRoom ranges over the room's map after it released the lock. *)
Ranging == {s \in Conns : sender[s].at = "spread"}

(* A write to the map: the runtime may see it in the middle of a range.    *)
MapWrite ==
    \/ UNCHANGED crash
    \/ Ranging # {} /\ crash' = "map"

(* The reader starts; a range under way may or may not meet the new entry. *)
Join(c) ==
    /\ Alive
    /\ stage[c] = "opening"
    /\ stage' = [stage EXCEPT ![c] = "serving"]
    /\ members' = members \cup {c}
    /\ MapWrite
    /\ \E R \in SUBSET Ranging :
         sender' = [s \in Senders |->
                      IF s \in R THEN [sender[s] EXCEPT !.todo = @ \cup {c}]
                      ELSE IF s = c THEN AtRest("read") ELSE sender[s]]
    /\ UNCHANGED <<phase, behavior, closed, broken, jobs, worker, queue, pump, last, count,
                   timedOut>>

(* Leave and RemoveConn, once the connection is closed. *)
Cleanup(c) ==
    /\ Alive
    /\ stage[c] = "serving" /\ c \in closed /\ c \in members
    /\ members' = members \ {c}
    /\ MapWrite
    /\ sender' = [s \in Senders |->
                    IF s \in Ranging THEN [sender[s] EXCEPT !.todo = @ \ {c}] ELSE sender[s]]
    /\ UNCHANGED <<phase, behavior, conns, jobs, worker, queue, pump, last, count, timedOut>>

(* The peer goes away without a word. *)
Break(c) ==
    /\ Alive
    /\ stage[c] # "none" /\ c \notin closed \cup broken
    /\ broken' = broken \cup {c}
    /\ UNCHANGED <<phase, crash, behavior, stage, closed, members, sender, jobs, worker,
                   queue, pump, last, count, timedOut>>

(* Mutant: the pump looks for a missing pong between two writes. *)
PongTimeout_InPump(c) ==
    /\ Alive
    /\ stage[c] # "none" /\ c \notin closed /\ pump[c].at = "idle"
    /\ closed' = closed \cup {c}
    /\ UNCHANGED <<phase, crash, behavior, stage, broken, members, sender, jobs, worker,
                   queue, pump, last, count, timedOut>>

(* pongMonitor: no pong for pongWait, be the peer gone or slow. *)
PongTimeout(c) ==
    /\ Alive
    /\ stage[c] # "none" /\ c \notin closed
    /\ closed' = closed \cup {c}
    /\ UNCHANGED <<phase, crash, behavior, stage, broken, members, sender, jobs, worker,
                   queue, pump, last, count, timedOut>>

-----------------------------------------------------------------------------
(* Senders: the reader of a connection, and the request.                   *)

BeginSpread(s, m) ==
    sender' = [sender EXCEPT ![s] = [at |-> "spread", msg |-> m, todo |-> members]]

(* A text or binary frame, the first of a message and perhaps its last. *)
ReadFirst(c) ==
    /\ Alive
    /\ sender[c].at = "read" /\ c \notin closed \cup broken
    /\ count < MaxMessages /\ count' = count + 1
    /\ LET m == [from |-> c, num |-> count + 1, parts |-> 1] IN
       \/ sender' = [sender EXCEPT ![c] = [at |-> "in message", msg |-> m, todo |-> {}]]
       \/ BeginSpread(c, m)
    /\ UNCHANGED <<phase, crash, behavior, conns, members, jobs, worker, queue, pump, last,
                   timedOut>>

(* A continuation frame, perhaps the last. *)
ReadNext(c) ==
    /\ Alive
    /\ sender[c].at = "in message" /\ c \notin closed \cup broken
    /\ sender[c].msg.parts < MaxParts
    /\ LET m == [sender[c].msg EXCEPT !.parts = @ + 1] IN
       \/ sender' = [sender EXCEPT ![c].msg = m]
       \/ BeginSpread(c, m)
    /\ UNCHANGED <<phase, crash, behavior, conns, members, jobs, worker, queue, pump, last,
                   count, timedOut>>

(* The stream ends before its last frame: an error, a close frame or a new *)
(* data frame.  What was read is broadcast all the same.                   *)
ReadCut(c) ==
    /\ Alive
    /\ sender[c].at = "in message"
    /\ BeginSpread(c, sender[c].msg)
    /\ UNCHANGED <<phase, crash, behavior, conns, members, jobs, worker, queue, pump, last,
                   count, timedOut>>

(* A close frame, an error, or a connection closed by another goroutine. *)
ReadEnds(c) ==
    /\ Alive
    /\ sender[c].at = "read"
    /\ sender' = [sender EXCEPT ![c].at = "gone"]
    /\ closed' = closed \cup {c}
    /\ UNCHANGED <<phase, crash, behavior, stage, broken, members, jobs, worker, queue, pump,
                   last, count, timedOut>>

(* The request copies the members under the lock. *)
BroadcastAll ==
    /\ Alive
    /\ phase = "up" /\ sender[Admin].at = "idle"
    /\ count < MaxMessages /\ count' = count + 1
    /\ BeginSpread(Admin, [from |-> Admin, num |-> count + 1, parts |-> 1])
    /\ UNCHANGED <<phase, crash, behavior, conns, members, jobs, worker, queue, pump, last,
                   timedOut>>

JobsClosed == phase \in {"stopping", "stopped"}

(* A full queue drops the job; a closed one ends the program. *)
Spread(s, c) ==
    /\ Alive
    /\ sender[s].at = "spread" /\ c \in sender[s].todo
    /\ sender' = [sender EXCEPT ![s].todo = @ \ {c}]
    /\ IF JobsClosed THEN crash' = s /\ UNCHANGED jobs
       ELSE /\ UNCHANGED crash
            /\ jobs' = IF Len(jobs) < JobQueueSize
                       THEN Append(jobs, [conn |-> c, msg |-> sender[s].msg]) ELSE jobs
    /\ UNCHANGED <<phase, behavior, conns, members, worker, queue, pump, last, count, timedOut>>

SpreadEnds(s) ==
    /\ Alive
    /\ sender[s].at = "spread" /\ sender[s].todo = {}
    /\ sender' = [sender EXCEPT ![s] = AtRest(IF s = Admin THEN "idle" ELSE "read")]
    /\ UNCHANGED <<phase, crash, behavior, conns, members, jobs, worker, queue, pump, last,
                   count, timedOut>>

-----------------------------------------------------------------------------
(* A worker's WriteMessage.                                                *)

Rest(w, at) == worker' = [worker EXCEPT ![w] = [at |-> at, conn |-> Admin, msg |-> NoMessage]]

(* The job is done with when its connection is closed. *)
TakeJob(w) ==
    /\ Alive
    /\ worker[w].at = "idle" /\ jobs # <<>>
    /\ jobs' = Tail(jobs)
    /\ worker' = IF Head(jobs).conn \in closed THEN worker
                 ELSE [worker EXCEPT ![w] = [at |-> "send", conn |-> Head(jobs).conn,
                                             msg |-> Head(jobs).msg]]
    /\ UNCHANGED <<phase, crash, behavior, conns, members, sender, queue, pump, last, count,
                   timedOut>>

Full(c) == Len(queue[c]) >= SendQueueSize

(* Mutant: a worker does not look whether there is room. *)
Enqueue_NoLimit(w) ==
    LET c == worker[w].conn IN
    /\ Alive
    /\ worker[w].at \in {"send", "blocked"}
    /\ queue' = [queue EXCEPT ![c] = Append(@, worker[w].msg)]
    /\ Rest(w, "idle")
    /\ UNCHANGED <<phase, crash, behavior, conns, members, sender, jobs, pump, last, count,
                   timedOut>>

(* The message is accepted even if the connection was closed meanwhile. *)
Enqueue(w) ==
    LET c == worker[w].conn IN
    /\ Alive
    /\ worker[w].at \in {"send", "blocked"} /\ ~Full(c)
    /\ queue' = [queue EXCEPT ![c] = Append(@, worker[w].msg)]
    /\ Rest(w, "idle")
    /\ UNCHANGED <<phase, crash, behavior, conns, members, sender, jobs, pump, last, count,
                   timedOut>>

(* SendDrop gives up, SendClose closes the connection, SendBlock waits. *)
EnqueueFull(w) ==
    LET c == worker[w].conn IN
    /\ Alive
    /\ worker[w].at = "send" /\ Full(c)
    /\ IF behavior \in {"wait", "block"} THEN worker' = [worker EXCEPT ![w].at = "blocked"]
       ELSE Rest(w, "idle")
    /\ closed' = IF behavior = "close" THEN closed \cup {c} ELSE closed
    /\ UNCHANGED <<phase, crash, behavior, stage, broken, members, sender, jobs, queue, pump,
                   last, count, timedOut>>

(* Mutant: only the end of the connection ends the wait. *)
GiveUp_NoTimer(w) ==
    /\ Alive
    /\ worker[w].at = "blocked" /\ behavior = "wait" /\ worker[w].conn \in closed
    /\ Rest(w, "idle")
    /\ UNCHANGED <<phase, crash, behavior, conns, members, sender, jobs, queue, pump, last,
                   count, timedOut>>

(* The timer fires, or the connection is closed: with a timeout only. *)
GiveUp(w) ==
    /\ Alive
    /\ worker[w].at = "blocked" /\ behavior = "wait"
    /\ Rest(w, "idle")
    /\ UNCHANGED <<phase, crash, behavior, conns, members, sender, jobs, queue, pump, last,
                   count, timedOut>>

(* The worker's select may take quit although there are jobs left. *)
WorkerEnds(w) ==
    /\ Alive
    /\ worker[w].at = "idle" /\ phase = "stopping"
    /\ Rest(w, "gone")
    /\ UNCHANGED <<phase, crash, behavior, conns, members, sender, jobs, queue, pump, last,
                   count, timedOut>>

-----------------------------------------------------------------------------
(* The writer pump.                                                        *)

(* Mutant: a message is taken from the queue while another is written. *)
PumpTakes_Early(c) ==
    /\ Alive
    /\ stage[c] # "none" /\ pump[c].at # "gone" /\ queue[c] # <<>>
    /\ pump' = [pump EXCEPT ![c] = [at |-> "write", msg |-> Head(queue[c]), part |-> 1]]
    /\ queue' = [queue EXCEPT ![c] = Tail(@)]
    /\ UNCHANGED <<phase, crash, behavior, conns, members, sender, jobs, worker, last, count,
                   timedOut>>

(* The pump's select may take a message although the connection is closed. *)
PumpTakes(c) ==
    /\ Alive
    /\ stage[c] # "none" /\ pump[c].at = "idle" /\ queue[c] # <<>>
    /\ pump' = [pump EXCEPT ![c] = [at |-> "write", msg |-> Head(queue[c]), part |-> 1]]
    /\ queue' = [queue EXCEPT ![c] = Tail(@)]
    /\ UNCHANGED <<phase, crash, behavior, conns, members, sender, jobs, worker, last, count,
                   timedOut>>

Frame(c) == [msg |-> pump[c].msg, part |-> pump[c].part]

(* The peer takes a frame; a slow one may leave the pump waiting. *)
PumpWrites(c) ==
    /\ Alive
    /\ pump[c].at = "write" /\ c \notin closed \cup broken
    /\ last' = [last EXCEPT ![c][pump[c].msg.from] = Frame(c)]
    /\ pump' = [pump EXCEPT ![c] = IF pump[c].part = pump[c].msg.parts THEN PumpIdle
                                   ELSE [pump[c] EXCEPT !.part = @ + 1]]
    /\ UNCHANGED <<phase, crash, behavior, conns, members, sender, jobs, worker, queue, count,
                   timedOut>>

(* The error of a write is passed over unless the message is fragmented. *)
PumpFails(c) ==
    /\ Alive
    /\ pump[c].at = "write" /\ c \in closed \cup broken
    /\ IF pump[c].msg.parts = 1
       THEN pump' = [pump EXCEPT ![c] = PumpIdle] /\ UNCHANGED closed
       ELSE /\ pump' = [pump EXCEPT ![c] = [PumpIdle EXCEPT !.at = "gone"]]
            /\ closed' = closed \cup {c}
    /\ UNCHANGED <<phase, crash, behavior, stage, broken, members, sender, jobs, worker,
                   queue, last, count, timedOut>>

PumpEnds(c) ==
    /\ Alive
    /\ pump[c].at = "idle" /\ c \in closed
    /\ pump' = [pump EXCEPT ![c].at = "gone"]
    /\ UNCHANGED <<phase, crash, behavior, conns, members, sender, jobs, worker, queue, last,
                   count, timedOut>>

-----------------------------------------------------------------------------
(* The end of the server.                                                  *)

(* A signal: Shutdown takes no more requests. *)
Signal ==
    /\ Alive
    /\ phase = "up" /\ phase' = "draining"
    /\ UNCHANGED <<crash, behavior, conns, members, sender, jobs, worker, queue, pump, last,
                   count, timedOut>>

(* Mutant: the hub is stopped without waiting for Shutdown. *)
Stop_NoWait ==
    /\ Alive
    /\ phase = "draining" /\ phase' = "stopping"
    /\ UNCHANGED <<crash, behavior, conns, members, sender, jobs, worker, queue, pump, last,
                   count, timedOut>>

(* Shutdown waited for the requests under way, for a while.  Hijacked      *)
(* connections are not among them.  Then Stop closes quit and jobQueue.    *)
Stop ==
    /\ Alive
    /\ phase = "draining" /\ phase' = "stopping"
    /\ timedOut' = (sender[Admin].at # "idle")
    /\ UNCHANGED <<crash, behavior, conns, members, sender, jobs, worker, queue, pump, last,
                   count>>

(* wg.Wait. *)
StopReturn ==
    /\ Alive
    /\ phase = "stopping" /\ phase' = "stopped"
    /\ \A w \in Workers : worker[w].at = "gone"
    /\ UNCHANGED <<crash, behavior, conns, members, sender, jobs, worker, queue, pump, last,
                   count, timedOut>>

-----------------------------------------------------------------------------
ConnNext(c) ==
    \/ Open(c) \/ Join(c) \/ Cleanup(c) \/ Break(c) \/ PongTimeout(c)
    \/ ReadFirst(c) \/ ReadNext(c) \/ ReadCut(c) \/ ReadEnds(c)
    \/ PumpTakes(c) \/ PumpWrites(c) \/ PumpFails(c) \/ PumpEnds(c)

WorkerNext(w) == TakeJob(w) \/ Enqueue(w) \/ EnqueueFull(w) \/ GiveUp(w) \/ WorkerEnds(w)

SenderNext(s) == (\E c \in Conns : Spread(s, c)) \/ SpreadEnds(s)

Next ==
    \/ \E c \in Conns : ConnNext(c)
    \/ \E s \in Senders : SenderNext(s)
    \/ \E w \in Workers : WorkerNext(w)
    \/ BroadcastAll \/ Signal \/ Stop \/ StopReturn

Spec == Init /\ [][Next]_vars

(* Goroutines run on, timers fire, and what is done with a connection that *)
(* is closed here ends in an error.  Nothing is asked of a peer or of the  *)
(* network: a read and a write may wait for ever.                          *)
FairSpec ==
    /\ Spec
    /\ \A c \in Conns :
         /\ WF_vars(Join(c)) /\ WF_vars(Cleanup(c))
         /\ WF_vars(c \in broken /\ PongTimeout(c))
         /\ WF_vars(c \in closed /\ (ReadCut(c) \/ ReadEnds(c)))
         /\ WF_vars(c \in closed /\ PumpFails(c)) /\ SF_vars(PumpEnds(c))
    /\ \A s \in Senders : WF_vars(SenderNext(s))
    /\ \A w \in Workers : WF_vars(WorkerNext(w))
    /\ WF_vars(StopReturn)

-----------------------------------------------------------------------------
(* Types, and the bounds of the queues. *)
TypeOK ==
    /\ phase \in {"up", "draining", "stopping", "stopped"}
    /\ crash \in {"none", "map"} \cup Senders
    /\ behavior \in Behaviors
    /\ stage \in [Conns -> {"none", "opening", "serving"}]
    /\ closed \subseteq Conns /\ broken \subseteq Conns /\ members \subseteq Conns
    /\ sender \in [Senders -> [at : {"idle", "read", "in message", "spread", "gone"},
                               msg : Message \cup {NoMessage}, todo : SUBSET Conns]]
    /\ jobs \in Seq(Job) /\ Len(jobs) <= JobQueueSize
    /\ worker \in [Workers -> [at : {"idle", "send", "blocked", "gone"},
                               conn : Conns \cup {Admin}, msg : Message \cup {NoMessage}]]
    /\ queue \in [Conns -> Seq(Message)]
    /\ \A c \in Conns : Len(queue[c]) <= SendQueueSize
    /\ pump \in [Conns -> [at : {"idle", "write", "gone"}, msg : Message \cup {NoMessage},
                           part : 0..MaxParts]]
    /\ last \in [Conns -> [Senders -> [msg : Message \cup {NoMessage}, part : 0..MaxParts]]]
    /\ count \in 0..MaxMessages /\ timedOut \in BOOLEAN

(* A peer gets whole messages, part after part, none of them twice, and     *)
(* those of one sender in the order in which they were sent, when the hub   *)
(* has one worker.                                                          *)
Whole(f) == f.part = f.msg.parts
ReceivedInOrder ==
    [][\A c \in Conns : PumpWrites(c) /\ Cardinality(Workers) = 1 =>
         LET g == Frame(c)
             f == last[c][g.msg.from]
         IN IF Whole(f)
            THEN g.part = 1 /\ g.msg.num > f.msg.num /\ \A s \in Senders : Whole(last[c][s])
            ELSE g = [f EXCEPT !.part = @ + 1]]_vars

(* The request that broadcasts to all never meets the closed queue, unless  *)
(* Shutdown gave up waiting for it.  (A reader can: it goes on after Stop.) *)
RequestSafeFromStop == crash = Admin => timedOut

(* A closed connection leaves the room for good, and its reader and its     *)
(* pump end, whatever the others do.  A connection whose peer is gone is    *)
(* closed, though its pump may wait in a write that nobody reads.           *)
Ended(c) == c \notin members /\ sender[c].at = "gone" /\ pump[c].at = "gone"
ConnectionsEnd ==
    \A c \in Conns :
        /\ c \in closed ~> crash # "none" \/ [](Ended(c))
        /\ c \in broken ~> crash # "none" \/ c \in closed

(* No connection holds a worker for ever, however slow its peer, and so     *)
(* Stop returns, unless the hub's connections block without a timeout.      *)
HubGoesOn ==
    /\ \A w \in Workers :
         worker[w].at \notin {"idle", "gone"} ~>
             crash # "none" \/ behavior = "block" \/ worker[w].at \in {"idle", "gone"}
    /\ phase = "stopping" ~> crash # "none" \/ behavior = "block" \/ phase = "stopped"
=============================================================================
