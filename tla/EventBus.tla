------------------------------ MODULE EventBus ------------------------------
(***************************************************************************)
(* The in-memory event bus of ws/events.py and the WebSocket endpoint of   *)
(* api/v1/websocket.py.  Worker threads publish: each takes a snapshot of  *)
(* the subscribers under the registry's lock, and hands the event to each  *)
(* of them outside it, through the event loop, which puts it on a bounded  *)
(* queue.  A coroutine per subscriber drains the queue into its socket.    *)
(***************************************************************************)
EXTENDS Naturals, Sequences, SequencesExt

CONSTANTS
  Clients,        \* subscriptions; each connection is a new one
  Publishers,     \* threads that publish
  Missions,
  Subscription,   \* Subscription[c]: the mission c asks for, or Wildcard
  Wildcard,
  QueueMax,       \* _QUEUE_MAXSIZE
  MaxEvents,      \* bound of the model: events of one publisher
  None            \* no event

Event == [by: Publishers, n: 1 .. MaxEvents, mission: Missions]

ASSUME BusAssumption ==
  /\ Wildcard \notin Missions
  /\ Subscription \in [Clients -> Missions \cup {Wildcard}]
  /\ QueueMax \in Nat \ {0}
  /\ MaxEvents \in Nat
  /\ None \notin Event

VARIABLES
  registered,     \* the registry: clients that publish looks at
  handler,        \* handler[c]: where the coroutine of c stands
  gone,           \* gone[c]: the peer of c has closed its connection
  received,       \* received[c]: the receive task of c has seen that
  handoff,        \* handoff[c]: callbacks the loop has not run yet, in order
  queue,          \* queue[c]: the asyncio queue
  drained,        \* drained[c]: the event the drain task took, or None
  todo,           \* todo[p]: the event p is publishing and who still gets it
  count,          \* count[p]: events published by p
  sent,           \* history: events written to the socket of c
  lost            \* history: events evicted from the queue of c

vars == <<registered, handler, gone, received, handoff, queue, drained,
          todo, count, sent, lost>>

Nothing == [event |-> None, to |-> {}]

Init ==
  /\ registered = {}
  /\ handler = [c \in Clients |-> "connecting"]
  /\ gone = [c \in Clients |-> FALSE]
  /\ received = [c \in Clients |-> FALSE]
  /\ handoff = [c \in Clients |-> <<>>]
  /\ queue = [c \in Clients |-> <<>>]
  /\ drained = [c \in Clients |-> None]
  /\ todo = [p \in Publishers |-> Nothing]
  /\ count = [p \in Publishers |-> 0]
  /\ sent = [c \in Clients |-> <<>>]
  /\ lost = [c \in Clients |-> {}]

busVars == <<handoff, queue, todo, count, lost>>
handlerVars == <<registered, handler, gone, received, drained, sent>>

Goto(c, place) == handler' = [handler EXCEPT ![c] = place]

-----------------------------------------------------------------------------
(* The registry, under its lock.                                           *)
Register(c) == registered' = registered \cup {c}
Unregister(c) == registered' = registered \ {c}

Targets(mission) == {c \in registered : Subscription[c] \in {mission, Wildcard}}

(* publish(): the snapshot under the lock.                                 *)
Publish(p, mission) ==
  /\ todo[p] = Nothing
  /\ count[p] < MaxEvents
  /\ count' = [count EXCEPT ![p] = @ + 1]
  /\ todo' = [todo EXCEPT ![p] =
       [event |-> [by |-> p, n |-> count'[p], mission |-> mission],
        to    |-> Targets(mission)]]
  /\ UNCHANGED <<handlerVars, handoff, queue, lost>>

(* publish(): call_soon_threadsafe for the next target.                    *)
HandOff(p, c) ==
  /\ c \in todo[p].to
  /\ handoff' = [handoff EXCEPT ![c] = Append(@, todo[p].event)]
  /\ todo' = [todo EXCEPT ![p].to = @ \ {c}]
  /\ UNCHANGED <<handlerVars, queue, count, lost>>

Published(p) ==
  /\ todo[p] # Nothing /\ todo[p].to = {}
  /\ todo' = [todo EXCEPT ![p] = Nothing]
  /\ UNCHANGED <<handlerVars, handoff, queue, count, lost>>

(* Faulty variants: an event is evicted too early; the queue has no bound; *)
(* an event that finds the queue full is dropped without a trace.          *)
EnqueueEarly(c) ==
  /\ handoff[c] # <<>>
  /\ handoff' = [handoff EXCEPT ![c] = Tail(@)]
  /\ IF Len(queue[c]) + 1 < QueueMax
       THEN queue' = [queue EXCEPT ![c] = Append(@, Head(handoff[c]))] /\ UNCHANGED lost
       ELSE /\ queue' = [queue EXCEPT ![c] = Append(Tail(@), Head(handoff[c]))]
            /\ lost' = [lost EXCEPT ![c] = @ \cup ToSet(SubSeq(queue[c], 1, 1))]
  /\ UNCHANGED <<handlerVars, todo, count>>

EnqueueSilently(c) ==
  /\ handoff[c] # <<>>
  /\ handoff' = [handoff EXCEPT ![c] = Tail(@)]
  /\ queue' = [queue EXCEPT ![c] =
                 IF Len(@) < QueueMax THEN Append(@, Head(handoff[c])) ELSE @]
  /\ UNCHANGED <<handlerVars, todo, count, lost>>

EnqueueAlways(c) ==
  /\ handoff[c] # <<>>
  /\ handoff' = [handoff EXCEPT ![c] = Tail(@)]
  /\ queue' = [queue EXCEPT ![c] = Append(@, Head(handoff[c]))]
  /\ UNCHANGED <<handlerVars, todo, count, lost>>

(* _enqueue(), on the loop: a full queue loses its oldest event.           *)
Enqueue(c) ==
  /\ handoff[c] # <<>>
  /\ handoff' = [handoff EXCEPT ![c] = Tail(@)]
  /\ IF Len(queue[c]) < QueueMax
       THEN queue' = [queue EXCEPT ![c] = Append(@, Head(handoff[c]))] /\ UNCHANGED lost
       ELSE /\ queue' = [queue EXCEPT ![c] = Append(Tail(@), Head(handoff[c]))]
            /\ lost' = [lost EXCEPT ![c] = @ \cup {Head(queue[c])}]
  /\ UNCHANGED <<handlerVars, todo, count>>

-----------------------------------------------------------------------------
(* The handshake: refused with 1008, or registered.  Nothing is awaited    *)
(* between the check and the registration.                                 *)
Connect(c) ==
  /\ handler[c] = "connecting"
  /\ \/ Goto(c, "ended") /\ UNCHANGED registered
     \/ Goto(c, "hello") /\ Register(c)
  /\ UNCHANGED <<busVars, gone, received, drained, sent>>

(* The hello frame is written.                                             *)
Hello(c) ==
  /\ handler[c] = "hello"
  /\ Goto(c, "waiting")
  /\ UNCHANGED <<busVars, registered, gone, received, drained, sent>>

(* The drain task takes the oldest event.                                  *)
Drain(c) ==
  /\ handler[c] = "waiting" /\ drained[c] = None
  /\ queue[c] # <<>>
  /\ drained' = [drained EXCEPT ![c] = Head(queue[c])]
  /\ queue' = [queue EXCEPT ![c] = Tail(@)]
  /\ UNCHANGED <<handoff, todo, count, lost, registered, handler, gone, received, sent>>

(* Faulty variant: the coroutine waits for events alone.                   *)
WakeByEvent(c) ==
  /\ handler[c] = "waiting"
  /\ drained[c] # None
  /\ Goto(c, "sending")
  /\ UNCHANGED <<busVars, registered, gone, received, drained, sent>>

(* asyncio.wait(FIRST_COMPLETED) on the receive and the drain task: an     *)
(* event taken is sent even if the peer has gone.                          *)
Wake(c) ==
  /\ handler[c] = "waiting"
  /\ \/ drained[c] # None /\ Goto(c, "sending")
     \/ drained[c] = None /\ received[c] /\ Goto(c, "closing")
  /\ UNCHANGED <<busVars, registered, gone, received, drained, sent>>

(* Faulty variant: the next drain task starts before this one's event has  *)
(* been forgotten.                                                         *)
SendAgain(c) ==
  /\ handler[c] = "sending"
  /\ sent' = [sent EXCEPT ![c] = Append(@, drained[c])]
  /\ Goto(c, IF received[c] THEN "closing" ELSE "waiting")
  /\ UNCHANGED <<busVars, registered, gone, received, drained>>

Send(c) ==
  /\ handler[c] = "sending"
  /\ sent' = [sent EXCEPT ![c] = Append(@, drained[c])]
  /\ drained' = [drained EXCEPT ![c] = None]
  /\ Goto(c, IF received[c] THEN "closing" ELSE "waiting")
  /\ UNCHANGED <<busVars, registered, gone, received>>

(* A send raises because the peer has gone, or the server cancels the      *)
(* coroutine: both run the cleanup.                                        *)
Fail(c) ==
  /\ handler[c] \in {"hello", "sending"} /\ gone[c]
  /\ Goto(c, "closing")
  /\ UNCHANGED <<busVars, registered, gone, received, drained, sent>>

Cancel(c) ==
  /\ handler[c] \in {"hello", "waiting", "sending"}
  /\ Goto(c, "closing")
  /\ UNCHANGED <<busVars, registered, gone, received, drained, sent>>

(* finally: both tasks are cancelled and the client is unregistered.       *)
Cleanup(c) ==
  /\ handler[c] = "closing"
  /\ Unregister(c)
  /\ Goto(c, "ended")
  /\ UNCHANGED <<busVars, gone, received, drained, sent>>

(* The peer closes, and the receive task finds out.                        *)
Disconnect(c) ==
  /\ handler[c] \notin {"connecting", "ended"} /\ ~gone[c]
  /\ gone' = [gone EXCEPT ![c] = TRUE]
  /\ UNCHANGED <<busVars, registered, handler, received, drained, sent>>

Receive(c) ==
  /\ handler[c] \notin {"connecting", "ended"}
  /\ gone[c] /\ ~received[c]
  /\ received' = [received EXCEPT ![c] = TRUE]
  /\ UNCHANGED <<busVars, registered, handler, gone, drained, sent>>

Next ==
  \/ \E p \in Publishers :
       \/ \E m \in Missions : Publish(p, m)
       \/ \E c \in Clients : HandOff(p, c)
       \/ Published(p)
  \/ \E c \in Clients :
       \/ Enqueue(c) \/ Connect(c) \/ Hello(c) \/ Drain(c) \/ Wake(c) \/ Send(c)
       \/ Fail(c) \/ Cancel(c) \/ Cleanup(c) \/ Disconnect(c) \/ Receive(c)

Spec == Init /\ [][Next]_vars

(* Threads and the loop run; a send completes or raises.                   *)
Progress ==
  /\ \A p \in Publishers :
       /\ WF_vars(Published(p))
       /\ \A c \in Clients : WF_vars(HandOff(p, c))
  /\ \A c \in Clients :
       /\ WF_vars(Enqueue(c)) /\ WF_vars(Drain(c)) /\ WF_vars(Receive(c))
       /\ WF_vars(Hello(c) \/ Wake(c) \/ Send(c) \/ Fail(c) \/ Cleanup(c))

FairSpec == Spec /\ Progress

-----------------------------------------------------------------------------
(* Types, and the bound of each queue.                                     *)
TypeOK ==
  /\ registered \subseteq Clients
  /\ handler \in [Clients -> {"connecting", "hello", "waiting", "sending",
                              "closing", "ended"}]
  /\ gone \in [Clients -> BOOLEAN] /\ received \in [Clients -> BOOLEAN]
  /\ handoff \in [Clients -> Seq(Event)]
  /\ queue \in [Clients -> Seq(Event)]
  /\ \A c \in Clients : Len(queue[c]) <= QueueMax
  /\ drained \in [Clients -> Event \cup {None}]
  /\ todo \in [Publishers -> [event: Event \cup {None}, to: SUBSET Clients]]
  /\ count \in [Publishers -> 0 .. MaxEvents]
  /\ sent \in [Clients -> Seq(Event)]
  /\ lost \in [Clients -> SUBSET Event]

(* What a client has been sent and will be sent, in this order.            *)
Feed(c) ==
  sent[c] \o (IF drained[c] = None THEN <<>> ELSE <<drained[c]>>)
          \o queue[c] \o handoff[c]

(* However publishers, the loop and the coroutine interleave, a subscriber *)
(* gets the events of one publisher in the order they were published, and  *)
(* none twice.                                                             *)
PublisherOrderKept ==
  \A c \in Clients : \A i, j \in 1 .. Len(Feed(c)) :
    i < j /\ Feed(c)[i].by = Feed(c)[j].by => Feed(c)[i].n < Feed(c)[j].n

(* A live subscriber misses events by eviction only: from the first event  *)
(* of a publisher it is given on, each one handed to it has been sent, is  *)
(* on its way, or was evicted.  Stated for subscribers to every mission.   *)
Accounted(c, p) ==
  {e.n : e \in {f \in lost[c] \cup ToSet(Feed(c)) : f.by = p}}

NoSilentLoss ==
  \A c \in Clients, p \in Publishers :
    LET given == Accounted(c, p)
        last  == IF c \in todo[p].to THEN count[p] - 1 ELSE count[p]
    IN  Subscription[c] = Wildcard /\ handler[c] # "ended" /\ given # {}
          => \E first \in given : given = first .. last

(* Eviction takes the oldest: of one publisher, everything still waiting   *)
(* is newer than everything evicted.                                       *)
OldestIsEvicted ==
  \A c \in Clients : \A e \in lost[c] :
    \A i \in 1 .. Len(queue[c] \o handoff[c]) :
      LET f == (queue[c] \o handoff[c])[i]
      IN  f.by = e.by => f.n > e.n

(* What a subscriber asks for, and how far its coroutine has got.          *)
WantedBy(c) == {e \in Event : Subscription[c] \in {e.mission, Wildcard}}

Stage(c) ==
  CASE handler[c] \in {"connecting", "hello"} -> "opening"
    [] handler[c] \in {"waiting", "sending"}  -> "open"
    [] handler[c] \in {"closing", "ended"}    -> "closed"

(* To each subscriber the bus is a stream: where the threads hand over to  *)
(* the loop, and which events wait as callbacks, is invisible.             *)
Stream(c) == INSTANCE EventStream WITH
  Wanted    <- WantedBy(c),
  Capacity  <- QueueMax,
  stage     <- Stage(c),
  waiting   <- queue[c] \o handoff[c],
  taken     <- drained[c],
  delivered <- sent[c],
  dropped   <- lost[c]

ImplementsStreams ==
  /\ \A c \in Clients : Stream(c)!Init
  /\ [][\A c \in Clients : [Stream(c)!Next]_(Stream(c)!stream)]_vars

(* A client that goes away is unregistered even when its mission is idle.  *)
SubscribersAreReleased ==
  \A c \in Clients : gone[c] ~> c \notin registered

(* An event handed to a subscriber is sent or evicted, unless the          *)
(* subscription ends.                                                      *)
EventsArrive ==
  \A c \in Clients : \A p \in Publishers : \A n \in 1 .. MaxEvents :
    (\E e \in ToSet(handoff[c]) : e.by = p /\ e.n = n)
      ~> \/ handler[c] = "ended"
         \/ \E e \in ToSet(sent[c]) \cup lost[c] : e.by = p /\ e.n = n

=============================================================================
