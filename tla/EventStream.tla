----------------------------- MODULE EventStream -----------------------------
(***************************************************************************)
(* What one subscriber of the event bus is promised: the events it asked   *)
(* for, in the order they were handed over, each delivered once, between   *)
(* the handshake and the end of the subscription; and an event is dropped  *)
(* only when it is the oldest and more than a queueful wait.  Threads, the *)
(* event loop and its callbacks are not seen: EventBus implements this.    *)
(***************************************************************************)
EXTENDS Naturals, Sequences

CONSTANTS
  Wanted,         \* the events the subscriber asks for
  Capacity,
  None            \* no event

VARIABLES
  stage,          \* "opening", "open" or "closed"
  waiting,        \* events handed over, the oldest first
  taken,          \* the event being delivered, or None
  delivered,      \* the events delivered, in order
  dropped         \* the events that were not delivered

stream == <<stage, waiting, taken, delivered, dropped>>

Init ==
  /\ stage = "opening"
  /\ waiting = <<>>
  /\ taken = None
  /\ delivered = <<>>
  /\ dropped = {}

Open ==
  /\ stage = "opening"
  /\ stage' = "open"
  /\ UNCHANGED <<waiting, taken, delivered, dropped>>

Close ==
  /\ stage' = "closed"
  /\ UNCHANGED <<waiting, taken, delivered, dropped>>

(* A publisher may have looked up the subscriber before it closed.         *)
Offer(e) ==
  /\ waiting' = Append(waiting, e)
  /\ UNCHANGED <<stage, taken, delivered, dropped>>

Drop ==
  /\ Len(waiting) > Capacity
  /\ waiting' = Tail(waiting)
  /\ dropped' = dropped \cup {Head(waiting)}
  /\ UNCHANGED <<stage, taken, delivered>>

Take ==
  /\ stage = "open" /\ taken = None /\ waiting # <<>>
  /\ taken' = Head(waiting)
  /\ waiting' = Tail(waiting)
  /\ UNCHANGED <<stage, delivered, dropped>>

(* The subscription may end with it.                                       *)
Deliver ==
  /\ stage = "open" /\ taken # None
  /\ delivered' = Append(delivered, taken)
  /\ taken' = None
  /\ stage' \in {"open", "closed"}
  /\ UNCHANGED <<waiting, dropped>>

Next == Open \/ Close \/ (\E e \in Wanted : Offer(e)) \/ Drop \/ Take \/ Deliver

Spec == Init /\ [][Next]_stream

=============================================================================
