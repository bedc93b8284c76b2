---------------------------- MODULE EventBus_proofs ----------------------------
(***************************************************************************)
(* Proofs about the event bus, for any number of subscribers, publishers   *)
(* and events, and any size of the queues.                                 *)
(***************************************************************************)
EXTENDS EventBus, SequenceTheorems, TLAPS

-----------------------------------------------------------------------------
(* Sequences of events by the sets of what they hold.                      *)

(* The events of one publisher in s are in the order of publication.       *)
Ordered(s) ==
  \A i, j \in 1 .. Len(s) : i < j /\ s[i].by = s[j].by => s[i].n < s[j].n

(* Of one publisher, what is in A was published before what is in B.       *)
Behind(A, B) == \A e \in A, f \in B : e.by = f.by => e.n < f.n

(* Behind, of parts.                                                       *)
LEMMA BehindParts ==
  ASSUME NEW A, NEW B, NEW C
  PROVE  /\ Behind(A \cup B, C) <=> Behind(A, C) /\ Behind(B, C)
         /\ Behind(C, A \cup B) <=> Behind(C, A) /\ Behind(C, B)
BY DEF Behind

(* One event more at the end.                                              *)
LEMMA AppendEvent ==
  ASSUME NEW E, NEW s \in Seq(E), NEW e \in E
  PROVE  /\ Append(s, e) \in Seq(E) /\ Len(Append(s, e)) = Len(s) + 1
         /\ ToSet(Append(s, e)) = ToSet(s) \cup {e}
         /\ Ordered(s) /\ Behind(ToSet(s), {e}) => Ordered(Append(s, e))
<1>1. /\ Append(s, e) \in Seq(E) /\ Len(s) \in Nat
      /\ Len(Append(s, e)) = Len(s) + 1
      /\ Append(s, e)[Len(s) + 1] = e
      /\ \A i \in 1 .. Len(s) : Append(s, e)[i] = s[i]
      /\ DOMAIN s = 1 .. Len(s) /\ DOMAIN Append(s, e) = 1 .. Len(s) + 1
  BY AppendProperties, LenProperties
<1>2. ToSet(Append(s, e)) = ToSet(s) \cup {e}
  BY <1>1 DEF ToSet
<1>3. ASSUME Ordered(s), Behind(ToSet(s), {e})
      PROVE  Ordered(Append(s, e))
  <2>1. \A i \in 1 .. Len(s) : s[i].by = e.by => s[i].n < e.n
    BY <1>1, <1>3 DEF Behind, ToSet
  <2>2. QED
    BY <1>1, <1>3, <2>1 DEF Ordered
<1>4. QED
  BY <1>1, <1>2, <1>3

(* The oldest event taken away.                                            *)
LEMMA TakeEvent ==
  ASSUME NEW E, NEW s \in Seq(E), s # <<>>
  PROVE  /\ Head(s) \in E /\ Tail(s) \in Seq(E)
         /\ Len(Tail(s)) = Len(s) - 1 /\ Len(s) \in Nat \ {0}
         /\ ToSet(s) = {Head(s)} \cup ToSet(Tail(s))
         /\ Ordered(s) => Ordered(Tail(s)) /\ Behind({Head(s)}, ToSet(Tail(s)))
<1>1. /\ Head(s) \in E /\ Tail(s) \in Seq(E) /\ Head(s) = s[1]
      /\ Len(s) \in Nat \ {0} /\ Len(Tail(s)) = Len(s) - 1
      /\ \A i \in 1 .. Len(s) - 1 : Tail(s)[i] = s[i + 1]
  BY HeadTailProperties, EmptySeq
<1>2. DOMAIN s = 1 .. Len(s) /\ DOMAIN Tail(s) = 1 .. Len(s) - 1
  BY <1>1, LenProperties
<1>3. ToSet(s) = {Head(s)} \cup ToSet(Tail(s))
  <2>1. \A i \in 1 .. Len(s) : i = 1 \/ (i - 1 \in 1 .. Len(s) - 1 /\ s[i] = Tail(s)[i - 1])
    <3>1. \A i \in 1 .. Len(s) : i = 1 \/ (i - 1 \in 1 .. Len(s) - 1 /\ (i - 1) + 1 = i)
      BY <1>1
    <3>2. QED
      BY <1>1, <3>1
  <2>2. ASSUME NEW e \in ToSet(s)
        PROVE  e = Head(s) \/ e \in ToSet(Tail(s))
    <3>1. PICK i \in 1 .. Len(s) : e = s[i]
      BY <1>2 DEF ToSet
    <3>2. CASE i = 1
      BY <1>1, <3>1, <3>2
    <3>3. CASE i # 1
      BY <1>2, <2>1, <3>1, <3>3 DEF ToSet
    <3>4. QED
      BY <3>2, <3>3
  <2>3. {Head(s)} \cup ToSet(Tail(s)) \subseteq ToSet(s)
    BY <1>1, <1>2 DEF ToSet
  <2>4. QED
    BY <2>2, <2>3
<1>4. ASSUME Ordered(s)
      PROVE  Ordered(Tail(s)) /\ Behind({Head(s)}, ToSet(Tail(s)))
  <2>1. Ordered(Tail(s))
    BY <1>1, <1>4 DEF Ordered
  <2>2. \A i \in 1 .. Len(s) - 1 : s[1].by = Tail(s)[i].by => s[1].n < Tail(s)[i].n
    BY <1>1, <1>4 DEF Ordered
  <2>3. QED
    BY <1>1, <1>2, <2>1, <2>2 DEF Behind, ToSet
<1>5. QED
  BY <1>1, <1>3, <1>4

(* Two sequences of events, one after the other.                           *)
LEMMA JoinEvents ==
  ASSUME NEW E, NEW s \in Seq(E), NEW t \in Seq(E)
  PROVE  /\ s \o t \in Seq(E) /\ ToSet(s \o t) = ToSet(s) \cup ToSet(t)
         /\ Ordered(s) /\ Ordered(t) /\ Behind(ToSet(s), ToSet(t)) => Ordered(s \o t)
<1>1. /\ s \o t \in Seq(E) /\ Len(s) \in Nat /\ Len(t) \in Nat
      /\ Len(s \o t) = Len(s) + Len(t)
      /\ DOMAIN s = 1 .. Len(s) /\ DOMAIN t = 1 .. Len(t)
      /\ DOMAIN (s \o t) = 1 .. Len(s) + Len(t)
  BY ConcatProperties, LenProperties
<1>2. /\ \A i \in 1 .. Len(s) : (s \o t)[i] = s[i]
      /\ \A i \in 1 .. Len(s) + Len(t) :
           i <= Len(s) \/ (i - Len(s) \in 1 .. Len(t) /\ (s \o t)[i] = t[i - Len(s)])
      /\ \A i \in 1 .. Len(t) : (s \o t)[Len(s) + i] = t[i]
  BY <1>1, ConcatProperties
<1>3. ToSet(s \o t) = ToSet(s) \cup ToSet(t)
  <2>1. ToSet(s \o t) \subseteq ToSet(s) \cup ToSet(t)
    BY <1>1, <1>2 DEF ToSet
  <2>2. \A i \in 1 .. Len(t) : Len(s) + i \in 1 .. Len(s) + Len(t)
    BY <1>1
  <2>3. ToSet(s) \cup ToSet(t) \subseteq ToSet(s \o t)
    BY <1>1, <1>2, <2>2 DEF ToSet
  <2>4. QED
    BY <2>1, <2>3
<1>4. ASSUME Ordered(s), Ordered(t), Behind(ToSet(s), ToSet(t)),
             NEW i \in 1 .. Len(s \o t), NEW j \in 1 .. Len(s \o t), i < j,
             (s \o t)[i].by = (s \o t)[j].by
      PROVE  (s \o t)[i].n < (s \o t)[j].n
  <2>1. CASE j <= Len(s)
    BY <1>1, <1>2, <1>4, <2>1 DEF Ordered
  <2>2. CASE i > Len(s)
    BY <1>1, <1>2, <1>4, <2>2 DEF Ordered
  <2>3. CASE i <= Len(s) /\ j > Len(s)
    <3>1. (s \o t)[i] \in ToSet(s) /\ (s \o t)[j] \in ToSet(t)
      BY <1>1, <1>2, <2>3 DEF ToSet
    <3>2. QED
      BY <1>4, <3>1 DEF Behind
  <2>4. QED
    BY <1>1, <2>1, <2>2, <2>3
<1>5. QED
  BY <1>1, <1>3, <1>4 DEF Ordered

-----------------------------------------------------------------------------
(* The inductive invariant.                                                *)

(* What the drain task of c has taken and not sent.                        *)
Taken(c) == IF drained[c] = None THEN {} ELSE {drained[c]}

Waiting(c) == ToSet(queue[c]) \cup ToSet(handoff[c])

(* Every event that c was given.                                           *)
Given(c) == ToSet(sent[c]) \cup Taken(c) \cup Waiting(c) \cup lost[c]

InOrder(c) ==
  /\ Ordered(sent[c]) /\ Ordered(queue[c]) /\ Ordered(handoff[c])
  /\ Behind(ToSet(sent[c]), Taken(c)) /\ Behind(ToSet(sent[c]), Waiting(c))
  /\ Behind(Taken(c), Waiting(c))
  /\ Behind(ToSet(queue[c]), ToSet(handoff[c]))
  /\ Behind(lost[c], Waiting(c))

(* An event that is still to be handed to c is the newest of its publisher.*)
UpToCount(c) ==
  \A e \in Given(c) :
    /\ e.n <= count[e.by]
    /\ c \in todo[e.by].to => e.n < count[e.by]

(* A subscription begins without events, and sends what it has taken.      *)
Subscribed(c) ==
  /\ c \in registered <=> handler[c] \notin {"connecting", "ended"}
  /\ handler[c] = "connecting" => Given(c) = {} /\ \A p \in Publishers : c \notin todo[p].to
  /\ handler[c] = "sending" => drained[c] # None

Numbers(c, p) == {e.n : e \in {f \in Given(c) : f.by = p}}
LastGiven(c, p) == IF c \in todo[p].to THEN count[p] - 1 ELSE count[p]

NoGap(c) ==
  \A p \in Publishers :
    Subscription[c] = Wildcard /\ handler[c] # "ended" /\ Numbers(c, p) # {}
      => \E first \in Numbers(c, p) : Numbers(c, p) = first .. LastGiven(c, p)

ClientInv(c) == InOrder(c) /\ UpToCount(c) /\ Subscribed(c) /\ NoGap(c)

(* What a publisher has in hand.                                           *)
Publishing ==
  \A p \in Publishers : todo[p].to # {} =>
    /\ todo[p].event \in Event
    /\ todo[p].event.by = p /\ todo[p].event.n = count[p]

BusInv ==
  /\ TypeOK
  /\ Publishing
  /\ \A c \in Clients : ClientInv(c)

-----------------------------------------------------------------------------
(* A subscriber that a step does not concern.                              *)
LEMMA OtherClient ==
  ASSUME NEW d \in Clients, ClientInv(d),
         sent'[d] = sent[d], drained'[d] = drained[d], queue'[d] = queue[d],
         handoff'[d] = handoff[d], lost'[d] = lost[d],
         handler'[d] = handler[d], d \in registered' <=> d \in registered,
         UNCHANGED count, \A p : d \in todo'[p].to <=> d \in todo[p].to
  PROVE  ClientInv(d)'
<1>1. Taken(d)' = Taken(d) /\ Waiting(d)' = Waiting(d) /\ Given(d)' = Given(d)
  BY DEF Taken, Waiting, Given
<1>2. InOrder(d)'
  BY <1>1 DEF ClientInv, InOrder, Ordered, Behind
<1>3. UpToCount(d)' /\ Subscribed(d)'
  BY <1>1 DEF ClientInv, UpToCount, Subscribed
<1>4. NoGap(d)'
  <2>1. \A p \in Publishers : Numbers(d, p)' = Numbers(d, p) /\ LastGiven(d, p)' = LastGiven(d, p)
    BY <1>1 DEF Numbers, LastGiven
  <2>2. QED
    BY <2>1 DEF ClientInv, NoGap
<1>5. QED
  BY <1>2, <1>3, <1>4 DEF ClientInv

(* The events a subscriber was given are events.                           *)
LEMMA GivenType ==
  ASSUME TypeOK, NEW c \in Clients
  PROVE  Given(c) \subseteq Event
<1>1. \A s \in Seq(Event) : ToSet(s) \subseteq Event
  BY ElementOfSeq, LenProperties DEF ToSet
<1>2. QED
  BY <1>1 DEF TypeOK, Given, Taken, Waiting

-----------------------------------------------------------------------------
(* Steps of the publishers.                                                *)

(* A new event: all that was given before is older.                        *)
LEMMA PublishInv ==
  ASSUME BusInv, NEW p \in Publishers, NEW m \in Missions, Publish(p, m)
  PROVE  BusInv'
<1> DEFINE new == [by |-> p, n |-> count[p] + 1, mission |-> m]
<1>1. /\ todo[p] = Nothing /\ count[p] < MaxEvents
      /\ UNCHANGED <<registered, handler, gone, received, drained, sent, handoff, queue, lost>>
  BY DEF Publish, handlerVars
<1>2. /\ count' \in [Publishers -> 0 .. MaxEvents] /\ count'[p] = count[p] + 1
      /\ \A q \in Publishers \ {p} : count'[q] = count[q]
      /\ count[p] \in Nat
  BY <1>1, BusAssumption DEF Publish, BusInv, TypeOK
<1>3. new \in Event
  BY <1>1, <1>2, BusAssumption DEF Event
<1>4. /\ todo' = [todo EXCEPT ![p] = [event |-> new, to |-> Targets(m)]]
      /\ Targets(m) \subseteq Clients
  BY <1>2 DEF Publish, Targets, BusInv, TypeOK
<1> HIDE DEF new
<1>5. /\ todo' \in [Publishers -> [event: Event \cup {None}, to: SUBSET Clients]]
      /\ todo'[p].event = new /\ todo'[p].to = Targets(m)
      /\ \A q \in Publishers \ {p} : todo'[q] = todo[q]
  BY <1>3, <1>4 DEF BusInv, TypeOK
<1>6. TypeOK'
  BY <1>1, <1>2, <1>5 DEF BusInv, TypeOK
<1>7. Publishing'
  <2>1. new.by = p /\ new.n = count'[p]
    BY <1>2 DEF new
  <2>2. QED
    BY <1>2, <1>3, <1>5, <2>1 DEF BusInv, Publishing
<1>8. ASSUME NEW c \in Clients
      PROVE  ClientInv(c)'
  <2>1. ClientInv(c) /\ Given(c) \subseteq Event /\ todo[p].to = {}
    BY <1>1, GivenType DEF BusInv, Nothing
  <2>2. Taken(c)' = Taken(c) /\ Waiting(c)' = Waiting(c) /\ Given(c)' = Given(c)
    BY <1>1 DEF Taken, Waiting, Given
  <2>3. InOrder(c)'
    BY <1>1, <2>1, <2>2 DEF ClientInv, InOrder, Ordered, Behind
  <2>4. UpToCount(c)'
    <3>1. ASSUME NEW e \in Given(c)
          PROVE  /\ e.n <= count'[e.by]
                 /\ c \in todo'[e.by].to => e.n < count'[e.by]
      <4>1. e.by \in Publishers /\ e.n \in Nat
        BY <2>1, BusAssumption DEF Event
      <4>2. e.n <= count[e.by] /\ (c \in todo[e.by].to => e.n < count[e.by])
        BY <2>1 DEF ClientInv, UpToCount
      <4>3. QED
        BY <1>2, <1>5, <4>1, <4>2
    <3>2. QED
      BY <2>2, <3>1 DEF UpToCount
  <2>5. Subscribed(c)'
    BY <1>1, <1>5, <2>1, <2>2 DEF ClientInv, Subscribed, Targets
  <2>6. NoGap(c)'
    <3>1. ASSUME NEW q \in Publishers
          PROVE  Numbers(c, q)' = Numbers(c, q)
      BY <2>2 DEF Numbers
    <3>2. ASSUME NEW q \in Publishers, Subscription[c] = Wildcard,
                 handler[c] # "ended", Numbers(c, q) # {}
          PROVE  LastGiven(c, q)' = LastGiven(c, q)
      <4>1. CASE q # p
        BY <1>2, <1>5, <4>1 DEF LastGiven
      <4>2. CASE q = p
        <5>1. c \in registered
          BY <2>1, <3>2 DEF ClientInv, Subscribed, Numbers
        <5>2. c \in todo'[p].to /\ c \notin todo[p].to
          BY <1>5, <2>1, <3>2, <5>1 DEF Targets
        <5>3. QED
          BY <1>2, <4>2, <5>2 DEF LastGiven
      <4>3. QED
        BY <4>1, <4>2
    <3>3. QED
      BY <1>1, <2>1, <3>1, <3>2 DEF ClientInv, NoGap
  <2>7. QED
    BY <2>3, <2>4, <2>5, <2>6 DEF ClientInv
<1>9. QED
  BY <1>6, <1>7, <1>8 DEF BusInv

(* The event is handed to one more subscriber.                             *)
LEMMA HandOffInv ==
  ASSUME BusInv, NEW p \in Publishers, NEW c \in Clients, HandOff(p, c)
  PROVE  BusInv'
<1> DEFINE new == todo[p].event
<1>1. /\ c \in todo[p].to
      /\ handoff' = [handoff EXCEPT ![c] = Append(@, new)]
      /\ todo' = [todo EXCEPT ![p].to = @ \ {c}]
      /\ UNCHANGED <<registered, handler, gone, received, drained, sent, queue, count, lost>>
  BY DEF HandOff, handlerVars
<1>2. new \in Event /\ new.by = p /\ new.n = count[p]
  BY <1>1 DEF BusInv, Publishing
<1> HIDE DEF new
<1>3. /\ todo' \in [Publishers -> [event: Event \cup {None}, to: SUBSET Clients]]
      /\ todo'[p].event = todo[p].event /\ todo'[p].to = todo[p].to \ {c}
      /\ \A q \in Publishers \ {p} : todo'[q] = todo[q]
  BY <1>1 DEF BusInv, TypeOK
<1>4. /\ handoff[c] \in Seq(Event)
      /\ Append(handoff[c], new) \in Seq(Event)
      /\ ToSet(Append(handoff[c], new)) = ToSet(handoff[c]) \cup {new}
      /\ Ordered(handoff[c]) /\ Behind(ToSet(handoff[c]), {new})
           => Ordered(Append(handoff[c], new))
  <2> DEFINE s == handoff[c]
  <2>1. s \in Seq(Event) /\ new \in Event
    BY <1>2 DEF BusInv, TypeOK
  <2> HIDE DEF s
  <2>2. /\ Append(s, new) \in Seq(Event) /\ Len(Append(s, new)) = Len(s) + 1
        /\ ToSet(Append(s, new)) = ToSet(s) \cup {new}
        /\ Ordered(s) /\ Behind(ToSet(s), {new}) => Ordered(Append(s, new))
    BY <2>1, AppendEvent
  <2>3. QED
    BY <2>1, <2>2 DEF s
<1>5. /\ handoff' \in [Clients -> Seq(Event)]
      /\ handoff'[c] = Append(handoff[c], new)
      /\ \A d \in Clients \ {c} : handoff'[d] = handoff[d]
  BY <1>1, <1>4 DEF BusInv, TypeOK
<1>6. TypeOK'
  BY <1>1, <1>3, <1>5 DEF BusInv, TypeOK
<1>7. Publishing'
  BY <1>1, <1>3 DEF BusInv, Publishing
<1>8. ClientInv(c)'
  <2>1. ClientInv(c) /\ Given(c) \subseteq Event
    BY GivenType DEF BusInv
  <2>2. /\ Taken(c)' = Taken(c) /\ Waiting(c)' = Waiting(c) \cup {new}
        /\ Given(c)' = Given(c) \cup {new}
    BY <1>1, <1>4, <1>5 DEF Taken, Waiting, Given
  <2>3. Behind(Given(c), {new})
    BY <1>1, <1>2, <2>1 DEF ClientInv, UpToCount, Behind
  <2>4. InOrder(c)'
    <3>1. Ordered(handoff'[c])
      BY <1>4, <1>5, <2>1, <2>3 DEF ClientInv, InOrder, Given, Waiting, Behind
    <3>2. /\ Behind(ToSet(sent[c]), Waiting(c) \cup {new})
          /\ Behind(Taken(c), Waiting(c) \cup {new})
          /\ Behind(ToSet(queue[c]), ToSet(handoff[c]) \cup {new})
          /\ Behind(lost[c], Waiting(c) \cup {new})
      BY <2>1, <2>3 DEF ClientInv, InOrder, Given, Waiting, Behind
    <3>3. QED
      BY <1>1, <1>4, <1>5, <2>1, <2>2, <3>1, <3>2 DEF ClientInv, InOrder
  <2>5. UpToCount(c)'
    <3>1. ASSUME NEW e \in Given(c)
          PROVE  /\ e.n <= count[e.by]
                 /\ c \in todo'[e.by].to => e.n < count[e.by]
      <4>1. e.by \in Publishers
        BY <2>1 DEF Event
      <4>2. QED
        BY <1>3, <2>1, <4>1 DEF ClientInv, UpToCount
    <3>2. /\ new.n <= count[new.by] /\ c \notin todo'[new.by].to
      BY <1>2, <1>3 DEF BusInv, TypeOK
    <3>3. QED
      BY <1>1, <2>2, <3>1, <3>2 DEF UpToCount
  <2>6. Subscribed(c)'
    BY <1>1, <1>3, <2>1, <2>2 DEF ClientInv, Subscribed
  <2>7. NoGap(c)'
    <3>1. ASSUME NEW q \in Publishers, q # p
          PROVE  Numbers(c, q)' = Numbers(c, q) /\ LastGiven(c, q)' = LastGiven(c, q)
      BY <1>1, <1>2, <1>3, <2>2, <3>1 DEF Numbers, LastGiven
    <3>2. Numbers(c, p)' = Numbers(c, p) \cup {count[p]}
      BY <1>2, <2>2 DEF Numbers
    <3>3. LastGiven(c, p) = count[p] - 1 /\ LastGiven(c, p)' = count[p] /\ count[p] \in Nat
      BY <1>1, <1>3, BusAssumption DEF LastGiven, BusInv, TypeOK
    <3>4. ASSUME Subscription[c] = Wildcard, handler[c] # "ended"
          PROVE  \E first \in Numbers(c, p)' : Numbers(c, p)' = first .. count[p]
      <4>1. CASE Numbers(c, p) = {}
        BY <3>2, <3>3, <4>1
      <4>2. CASE Numbers(c, p) # {}
        <5>1. PICK first \in Numbers(c, p) : Numbers(c, p) = first .. count[p] - 1
          BY <2>1, <3>3, <3>4, <4>2 DEF ClientInv, NoGap
        <5>2. first \in Nat /\ first <= count[p]
          <6>1. first \in first .. count[p] - 1
            BY <5>1
          <6>2. \E e \in Given(c) : first = e.n
            BY <5>1 DEF Numbers
          <6>3. QED
            BY <2>1, <3>3, <6>1, <6>2 DEF Event
        <5>3. Numbers(c, p)' = first .. count[p]
          BY <3>2, <3>3, <5>1, <5>2
        <5>4. QED
          BY <3>2, <5>1, <5>3
      <4>3. QED
        BY <4>1, <4>2
    <3>5. QED
      BY <1>1, <2>1, <3>1, <3>3, <3>4 DEF ClientInv, NoGap
  <2>8. QED
    BY <2>4, <2>5, <2>6, <2>7 DEF ClientInv
<1>9. ASSUME NEW d \in Clients, d # c
      PROVE  ClientInv(d)'
  <2>1. \A q : d \in todo'[q].to <=> d \in todo[q].to
    BY <1>1, <1>9 DEF BusInv, TypeOK
  <2>2. QED
    BY <1>1, <1>5, <1>9, <2>1, OtherClient DEF BusInv
<1>10. QED
  BY <1>6, <1>7, <1>8, <1>9 DEF BusInv

(* The publisher is done with its event.                                   *)
LEMMA PublishedInv ==
  ASSUME BusInv, NEW p \in Publishers, Published(p)
  PROVE  BusInv'
<1>1. /\ todo[p].to = {} /\ todo' = [todo EXCEPT ![p] = Nothing]
      /\ UNCHANGED <<registered, handler, gone, received, drained, sent, handoff, queue,
                     count, lost>>
  BY DEF Published, handlerVars
<1>2. /\ todo' \in [Publishers -> [event: Event \cup {None}, to: SUBSET Clients]]
      /\ \A q \in Publishers : todo'[q].to = todo[q].to
      /\ \A q \in Publishers : todo'[q].to # {} => todo'[q] = todo[q]
  BY <1>1 DEF BusInv, TypeOK, Nothing
<1>3. TypeOK' /\ Publishing'
  BY <1>1, <1>2 DEF BusInv, TypeOK, Publishing
<1>4. ASSUME NEW d \in Clients
      PROVE  ClientInv(d)'
  <2>1. \A q : d \in todo'[q].to <=> d \in todo[q].to
    BY <1>1, <1>2 DEF BusInv, TypeOK, Nothing
  <2>2. QED
    BY <1>1, <2>1, OtherClient DEF BusInv
<1>5. QED
  BY <1>3, <1>4 DEF BusInv

-----------------------------------------------------------------------------
(* Steps that pass an event on.                                            *)

(* An event changes its place in what c was given, and none is forgotten.  *)
LEMMA PassInv ==
  ASSUME BusInv, TypeOK', NEW c \in Clients,
         Given(c)' = Given(c), InOrder(c)',
         handler'[c] = handler[c]
           \/ (handler[c] = "sending" /\ handler'[c] \in {"waiting", "closing"}),
         handler'[c] = "sending" => drained'[c] # None,
         \A d \in Clients \ {c} :
           /\ sent'[d] = sent[d] /\ drained'[d] = drained[d] /\ queue'[d] = queue[d]
           /\ handoff'[d] = handoff[d] /\ lost'[d] = lost[d] /\ handler'[d] = handler[d],
         UNCHANGED <<registered, todo, count>>
  PROVE  BusInv'
<1>1. Publishing'
  BY DEF BusInv, Publishing
<1>2. ClientInv(c)'
  <2>1. ClientInv(c)
    BY DEF BusInv
  <2>2. UpToCount(c)' /\ Subscribed(c)'
    BY <2>1 DEF ClientInv, UpToCount, Subscribed
  <2>3. \A p \in Publishers : Numbers(c, p)' = Numbers(c, p) /\ LastGiven(c, p)' = LastGiven(c, p)
    BY DEF Numbers, LastGiven
  <2>4. handler'[c] # "ended" => handler[c] # "ended"
    OBVIOUS
  <2>5. NoGap(c)'
    BY <2>1, <2>3, <2>4 DEF ClientInv, NoGap
  <2>6. QED
    BY <2>2, <2>5 DEF ClientInv
<1>3. ASSUME NEW d \in Clients \ {c}
      PROVE  ClientInv(d)'
  BY OtherClient DEF BusInv
<1>4. QED
  BY <1>1, <1>2, <1>3 DEF BusInv

(* An event gets into the queue, and the oldest out of a full one.         *)
LEMMA EnqueueInv ==
  ASSUME BusInv, NEW c \in Clients, Enqueue(c)
  PROVE  BusInv'
<1> DEFINE h == Head(handoff[c])
           q == queue[c]
           room == Len(q) < QueueMax
<1>1. /\ handoff[c] # <<>> /\ handoff' = [handoff EXCEPT ![c] = Tail(@)]
      /\ UNCHANGED <<registered, handler, gone, received, drained, sent, todo, count>>
  BY DEF Enqueue, handlerVars
<1>2. /\ handoff[c] \in Seq(Event) /\ q \in Seq(Event)
      /\ Len(q) \in Nat /\ Len(q) <= QueueMax /\ QueueMax \in Nat \ {0}
  BY LenProperties, BusAssumption DEF BusInv, TypeOK
<1>3. /\ h \in Event /\ Tail(handoff[c]) \in Seq(Event)
      /\ ToSet(handoff[c]) = {h} \cup ToSet(Tail(handoff[c]))
      /\ Ordered(handoff[c]) => /\ Ordered(Tail(handoff[c]))
                                /\ Behind({h}, ToSet(Tail(handoff[c])))
  BY <1>1, <1>2, TakeEvent
<1>4. InOrder(c) /\ Behind(ToSet(q), {h})
  BY <1>3 DEF BusInv, ClientInv, InOrder, Behind
<1>5. CASE room
  <2>1. queue' = [queue EXCEPT ![c] = Append(q, h)] /\ lost' = lost
    BY <1>5 DEF Enqueue
  <2>2. /\ Append(q, h) \in Seq(Event) /\ Len(Append(q, h)) = Len(q) + 1
        /\ ToSet(Append(q, h)) = ToSet(q) \cup {h}
        /\ Ordered(Append(q, h))
    BY <1>2, <1>3, <1>4, AppendEvent DEF InOrder
  <2> HIDE DEF h, q
  <2>3. /\ queue' \in [Clients -> Seq(Event)] /\ queue'[c] = Append(q, h)
        /\ handoff' \in [Clients -> Seq(Event)] /\ handoff'[c] = Tail(handoff[c])
        /\ \A d \in Clients \ {c} : queue'[d] = queue[d] /\ handoff'[d] = handoff[d]
    BY <1>1, <1>3, <2>1, <2>2 DEF BusInv, TypeOK
  <2>4. TypeOK'
    <3>1. \A d \in Clients : Len(queue'[d]) <= QueueMax
      <4>1. Len(queue'[c]) <= QueueMax
        BY <1>2, <1>5, <2>2, <2>3
      <4>2. \A d \in Clients \ {c} : Len(queue'[d]) <= QueueMax
        BY <2>3 DEF BusInv, TypeOK
      <4>3. QED
        BY <4>1, <4>2
    <3>2. QED
      BY <1>1, <2>1, <2>3, <3>1 DEF BusInv, TypeOK
  <2>5. /\ ToSet(queue[c]) = ToSet(q) /\ ToSet(queue'[c]) = ToSet(q) \cup {h}
        /\ ToSet(handoff[c]) = {h} \cup ToSet(handoff'[c])
    BY <1>3, <2>2, <2>3 DEF q
  <2>6. Taken(c)' = Taken(c) /\ Waiting(c)' = Waiting(c) /\ Given(c)' = Given(c)
    BY <1>1, <2>1, <2>5 DEF Taken, Waiting, Given
  <2>7. Behind(ToSet(queue'[c]), ToSet(handoff'[c]))
    <3>1. Behind({h}, ToSet(handoff'[c])) /\ Behind(ToSet(q), ToSet(handoff'[c]))
      BY <1>3, <1>4, <2>3, <2>5, BehindParts DEF InOrder
    <3>2. QED
      BY <2>5, <3>1, BehindParts
  <2>8. InOrder(c)'
    BY <1>1, <1>3, <1>4, <2>1, <2>2, <2>3, <2>6, <2>7 DEF InOrder
  <2>9. handler'[c] = "sending" => drained'[c] # None
    BY <1>1 DEF BusInv, ClientInv, Subscribed
  <2>10. QED
    BY <1>1, <2>1, <2>3, <2>4, <2>6, <2>8, <2>9, PassInv
<1>6. CASE ~room
  <2>1. /\ queue' = [queue EXCEPT ![c] = Append(Tail(q), h)]
        /\ lost' = [lost EXCEPT ![c] = @ \cup {Head(q)}]
    BY <1>6 DEF Enqueue
  <2>2. /\ q # <<>> /\ Head(q) \in Event /\ Tail(q) \in Seq(Event)
        /\ Len(Tail(q)) = Len(q) - 1
        /\ ToSet(q) = {Head(q)} \cup ToSet(Tail(q))
        /\ Ordered(Tail(q)) /\ Behind({Head(q)}, ToSet(Tail(q)))
    <3>1. q # <<>>
      BY <1>2, <1>6
    <3>2. Ordered(q)
      BY <1>4 DEF InOrder
    <3>3. QED
      BY <1>2, <3>1, <3>2, TakeEvent
  <2>3. Behind(ToSet(Tail(q)), {h})
    BY <1>4, <2>2 DEF Behind
  <2>4. /\ Append(Tail(q), h) \in Seq(Event) /\ Len(Append(Tail(q), h)) = Len(q)
        /\ ToSet(Append(Tail(q), h)) = ToSet(Tail(q)) \cup {h}
        /\ Ordered(Append(Tail(q), h))
    <3> DEFINE t == Tail(q)
    <3>1. t \in Seq(Event) /\ h \in Event /\ Len(t) = Len(q) - 1 /\ Len(q) \in Nat
      BY <1>2, <1>3, <2>2
    <3>2. Ordered(t) /\ Behind(ToSet(t), {h})
      BY <2>2, <2>3
    <3> HIDE DEF t, h, q
    <3>3. /\ Append(t, h) \in Seq(Event) /\ Len(Append(t, h)) = Len(t) + 1
          /\ ToSet(Append(t, h)) = ToSet(t) \cup {h} /\ Ordered(Append(t, h))
      BY <3>1, <3>2, AppendEvent
    <3>4. Len(Append(t, h)) = Len(q)
      BY <3>1, <3>3
    <3>5. QED
      BY <3>3, <3>4 DEF t
  <2> HIDE DEF h, q
  <2>5. /\ queue' \in [Clients -> Seq(Event)] /\ queue'[c] = Append(Tail(q), h)
        /\ handoff' \in [Clients -> Seq(Event)] /\ handoff'[c] = Tail(handoff[c])
        /\ lost' \in [Clients -> SUBSET Event] /\ lost'[c] = lost[c] \cup {Head(q)}
        /\ \A d \in Clients \ {c} :
             queue'[d] = queue[d] /\ handoff'[d] = handoff[d] /\ lost'[d] = lost[d]
    BY <1>1, <1>3, <2>1, <2>2, <2>4 DEF BusInv, TypeOK
  <2>6. TypeOK'
    <3>1. \A d \in Clients : Len(queue'[d]) <= QueueMax
      BY <1>2, <2>4, <2>5 DEF BusInv, TypeOK
    <3>2. QED
      BY <1>1, <2>5, <3>1 DEF BusInv, TypeOK
  <2>7. /\ ToSet(queue[c]) = {Head(q)} \cup ToSet(Tail(q))
        /\ ToSet(queue'[c]) = ToSet(Tail(q)) \cup {h}
        /\ ToSet(handoff[c]) = {h} \cup ToSet(handoff'[c])
    BY <1>3, <2>2, <2>4, <2>5 DEF q
  <2>8. /\ Taken(c)' = Taken(c) /\ Waiting(c) = Waiting(c)' \cup {Head(q)}
        /\ Given(c)' = Given(c)
    <3>1. Taken(c)' = Taken(c)
      BY <1>1 DEF Taken
    <3>2. Waiting(c) = Waiting(c)' \cup {Head(q)}
      BY <2>7 DEF Waiting
    <3>3. QED
      BY <1>1, <2>5, <3>1, <3>2 DEF Given
  <2>9. /\ Behind(ToSet(queue'[c]), ToSet(handoff'[c]))
        /\ Behind({Head(q)}, Waiting(c)')
    <3>1. Behind(ToSet(queue'[c]), ToSet(handoff'[c]))
      <4>1. Behind({h}, ToSet(handoff'[c]))
        BY <1>3, <1>4, <2>5 DEF InOrder
      <4>2. Behind(ToSet(queue[c]), ToSet(handoff[c]))
        BY <1>4 DEF InOrder
      <4>3. QED
        BY <2>7, <4>1, <4>2 DEF Behind
    <3>2. Behind({Head(q)}, ToSet(queue'[c]) \cup ToSet(handoff'[c]))
      BY <1>4, <2>2, <2>7 DEF InOrder, Behind
    <3>3. QED
      BY <3>1, <3>2 DEF Waiting
  <2>10. Behind(lost'[c], Waiting(c)')
    BY <1>4, <2>5, <2>8, <2>9 DEF InOrder, Behind
  <2>11. /\ Behind(ToSet(sent[c]), Waiting(c)') /\ Behind(Taken(c), Waiting(c)')
    BY <1>4, <2>8 DEF InOrder, Behind
  <2>12. InOrder(c)'
    BY <1>1, <1>3, <1>4, <2>4, <2>5, <2>8, <2>9, <2>10, <2>11 DEF InOrder
  <2>13. handler'[c] = "sending" => drained'[c] # None
    BY <1>1 DEF BusInv, ClientInv, Subscribed
  <2>14. QED
    BY <1>1, <2>5, <2>6, <2>8, <2>12, <2>13, PassInv
<1>7. QED
  BY <1>5, <1>6

(* The drain task takes the oldest event of the queue.                     *)
LEMMA DrainInv ==
  ASSUME BusInv, NEW c \in Clients, Drain(c)
  PROVE  BusInv'
<1> DEFINE q == queue[c]
           h == Head(q)
<1>1. /\ handler[c] = "waiting" /\ drained[c] = None /\ q # <<>>
      /\ drained' = [drained EXCEPT ![c] = h] /\ queue' = [queue EXCEPT ![c] = Tail(q)]
      /\ UNCHANGED <<registered, handler, gone, received, sent, handoff, todo, count, lost>>
  BY DEF Drain
<1>2. InOrder(c) /\ q \in Seq(Event) /\ Len(q) <= QueueMax /\ QueueMax \in Nat
  BY BusAssumption DEF BusInv, TypeOK, ClientInv
<1>3. /\ h \in Event /\ Tail(q) \in Seq(Event) /\ Len(Tail(q)) = Len(q) - 1
      /\ Len(q) \in Nat \ {0} /\ ToSet(q) = {h} \cup ToSet(Tail(q))
      /\ Ordered(Tail(q)) /\ Behind({h}, ToSet(Tail(q)))
  BY <1>1, <1>2, TakeEvent DEF InOrder
<1>4. h # None
  BY <1>3, BusAssumption
<1> HIDE DEF h
<1>5. /\ drained' \in [Clients -> Event \cup {None}] /\ drained'[c] = h
      /\ queue' \in [Clients -> Seq(Event)] /\ queue'[c] = Tail(q)
      /\ \A d \in Clients \ {c} : queue'[d] = queue[d] /\ drained'[d] = drained[d]
  BY <1>1, <1>3 DEF BusInv, TypeOK
<1>6. TypeOK'
  <2>1. Len(queue'[c]) <= QueueMax
    BY <1>2, <1>3, <1>5
  <2>2. \A d \in Clients : Len(queue'[d]) <= QueueMax
    BY <1>5, <2>1 DEF BusInv, TypeOK
  <2>3. QED
    BY <1>1, <1>5, <2>2 DEF BusInv, TypeOK
<1>7. /\ Taken(c) = {} /\ Taken(c)' = {h} /\ Waiting(c) = {h} \cup Waiting(c)'
      /\ Given(c)' = Given(c)
  <2>1. Taken(c) = {} /\ Taken(c)' = {h}
    BY <1>1, <1>4, <1>5 DEF Taken
  <2>2. Waiting(c) = {h} \cup Waiting(c)'
    BY <1>1, <1>3, <1>5 DEF Waiting
  <2>3. QED
    BY <1>1, <2>1, <2>2 DEF Given
<1>8. Behind({h}, Waiting(c)')
  BY <1>1, <1>2, <1>3, <1>5 DEF InOrder, Behind, Waiting
<1>9. /\ Behind(ToSet(sent[c]), {h}) /\ Behind(ToSet(sent[c]), Waiting(c)')
      /\ Behind(lost[c], Waiting(c)')
  BY <1>2, <1>7 DEF InOrder, Behind
<1>10. Behind(ToSet(queue'[c]), ToSet(handoff[c]))
  BY <1>2, <1>3, <1>5 DEF InOrder, Behind
<1>11. InOrder(c)'
  BY <1>1, <1>2, <1>3, <1>5, <1>7, <1>8, <1>9, <1>10 DEF InOrder
<1>12. QED
  BY <1>1, <1>5, <1>6, <1>7, <1>11, PassInv

(* What was taken is written to the socket.                                *)
LEMMA SendInv ==
  ASSUME BusInv, NEW c \in Clients, Send(c)
  PROVE  BusInv'
<1> DEFINE h == drained[c]
           s == sent[c]
<1>1. /\ handler[c] = "sending" /\ sent' = [sent EXCEPT ![c] = Append(s, h)]
      /\ drained' = [drained EXCEPT ![c] = None]
      /\ handler' = [handler EXCEPT ![c] = IF received[c] THEN "closing" ELSE "waiting"]
      /\ UNCHANGED <<registered, gone, received, handoff, queue, todo, count, lost>>
  BY DEF Send, Goto, busVars
<1>2. InOrder(c) /\ s \in Seq(Event) /\ h \in Event /\ Taken(c) = {h}
  BY <1>1 DEF BusInv, TypeOK, ClientInv, Subscribed, Taken
<1>3. Ordered(s) /\ Behind(ToSet(s), {h})
  BY <1>2 DEF InOrder
<1> HIDE DEF h, s
<1>4. /\ Append(s, h) \in Seq(Event) /\ Len(Append(s, h)) = Len(s) + 1
      /\ ToSet(Append(s, h)) = ToSet(s) \cup {h}
      /\ Ordered(s) /\ Behind(ToSet(s), {h}) => Ordered(Append(s, h))
  BY <1>2, AppendEvent
<1>5. /\ sent' \in [Clients -> Seq(Event)] /\ sent'[c] = Append(s, h)
      /\ drained' \in [Clients -> Event \cup {None}] /\ drained'[c] = None
      /\ handler' \in [Clients -> {"connecting", "hello", "waiting", "sending",
                                   "closing", "ended"}]
      /\ handler'[c] \in {"waiting", "closing"}
      /\ \A d \in Clients \ {c} :
           sent'[d] = sent[d] /\ drained'[d] = drained[d] /\ handler'[d] = handler[d]
  BY <1>1, <1>4 DEF BusInv, TypeOK
<1>6. TypeOK'
  BY <1>1, <1>5 DEF BusInv, TypeOK
<1>7. /\ Taken(c)' = {} /\ Waiting(c)' = Waiting(c)
      /\ ToSet(sent'[c]) = ToSet(sent[c]) \cup {h}
  BY <1>1, <1>4, <1>5 DEF Taken, Waiting, s
<1>8. Given(c)' = Given(c)
  BY <1>1, <1>2, <1>7 DEF Given
<1>9. InOrder(c)'
  <2>1. Behind(ToSet(sent'[c]), Waiting(c))
    BY <1>2, <1>7 DEF InOrder, Behind
  <2>2. Behind(ToSet(sent'[c]), {}) /\ Behind({}, Waiting(c))
    BY DEF Behind
  <2>3. QED
    BY <1>1, <1>2, <1>3, <1>4, <1>5, <1>7, <2>1, <2>2 DEF InOrder
<1>10. QED
  BY <1>1, <1>5, <1>6, <1>8, <1>9, PassInv

-----------------------------------------------------------------------------
(* Steps of a handler that move no event.                                  *)

(* Such a step keeps the invariant.                                        *)
LEMMA HandlerStep ==
  ASSUME BusInv, TypeOK', NEW c \in Clients,
         UNCHANGED <<handoff, queue, drained, todo, count, sent, lost>>,
         Subscribed(c)',
         handler'[c] # "ended" => handler[c] # "ended",
         \A d \in Clients \ {c} :
           handler'[d] = handler[d] /\ (d \in registered' <=> d \in registered)
  PROVE  BusInv'
<1>1. Publishing'
  BY DEF BusInv, Publishing
<1>2. ClientInv(c)'
  <2>1. ClientInv(c)
    BY DEF BusInv
  <2>2. Taken(c)' = Taken(c) /\ Waiting(c)' = Waiting(c) /\ Given(c)' = Given(c)
    BY DEF Taken, Waiting, Given
  <2>3. InOrder(c)' /\ UpToCount(c)'
    BY <2>1, <2>2 DEF ClientInv, InOrder, UpToCount, Ordered, Behind
  <2>4. \A p \in Publishers : Numbers(c, p)' = Numbers(c, p) /\ LastGiven(c, p)' = LastGiven(c, p)
    BY <2>2 DEF Numbers, LastGiven
  <2>5. NoGap(c)'
    BY <2>1, <2>4 DEF ClientInv, NoGap
  <2>6. QED
    BY <2>3, <2>5 DEF ClientInv
<1>3. ASSUME NEW d \in Clients \ {c}
      PROVE  ClientInv(d)'
  BY OtherClient DEF BusInv
<1>4. QED
  BY <1>1, <1>2, <1>3 DEF BusInv

(* The coroutine of one client moves, and no event with it.                *)
LEMMA ServeInv ==
  ASSUME BusInv, NEW c \in Clients,
         \/ Connect(c) \/ Hello(c) \/ Wake(c) \/ Fail(c) \/ Cancel(c) \/ Cleanup(c)
         \/ Disconnect(c) \/ Receive(c)
  PROVE  BusInv'
<1>1. /\ UNCHANGED <<handoff, queue, drained, todo, count, sent, lost>>
      /\ ClientInv(c) /\ Subscribed(c)
  BY DEF Connect, Hello, Wake, Fail, Cancel, Cleanup, Disconnect, Receive, busVars,
         BusInv, ClientInv
<1>2. Given(c)' = Given(c)
  BY <1>1 DEF Given, Taken, Waiting
<1>3. CASE Connect(c)
  <2>1. /\ handler[c] = "connecting" /\ UNCHANGED <<gone, received>>
        /\ \/ handler' = [handler EXCEPT ![c] = "ended"] /\ registered' = registered
           \/ /\ handler' = [handler EXCEPT ![c] = "hello"]
              /\ registered' = registered \cup {c}
    BY <1>3 DEF Connect, Goto, Register
  <2>2. QED
    BY <1>1, <1>2, <2>1, HandlerStep DEF BusInv, TypeOK, Subscribed
<1>4. CASE Hello(c) \/ Wake(c) \/ Fail(c) \/ Cancel(c)
  <2>1. /\ handler[c] \in {"hello", "waiting", "sending"}
        /\ UNCHANGED <<gone, received, registered>>
        /\ \/ handler' = [handler EXCEPT ![c] = "waiting"]
           \/ handler' = [handler EXCEPT ![c] = "sending"] /\ drained[c] # None
           \/ handler' = [handler EXCEPT ![c] = "closing"]
    BY <1>4 DEF Hello, Wake, Fail, Cancel, Goto
  <2>2. QED
    BY <1>1, <1>2, <2>1, HandlerStep DEF BusInv, TypeOK, Subscribed
<1>5. CASE Cleanup(c)
  <2>1. /\ handler[c] = "closing" /\ UNCHANGED <<gone, received>>
        /\ handler' = [handler EXCEPT ![c] = "ended"] /\ registered' = registered \ {c}
    BY <1>5 DEF Cleanup, Goto, Unregister
  <2>2. QED
    BY <1>1, <1>2, <2>1, HandlerStep DEF BusInv, TypeOK, Subscribed
<1>6. CASE Disconnect(c) \/ Receive(c)
  <2>1. /\ UNCHANGED <<handler, registered>>
        /\ gone' \in [Clients -> BOOLEAN] /\ received' \in [Clients -> BOOLEAN]
    BY <1>6 DEF Disconnect, Receive, BusInv, TypeOK
  <2>2. TypeOK'
    BY <1>1, <2>1 DEF BusInv, TypeOK
  <2>3. QED
    BY <1>1, <1>2, <2>1, <2>2, HandlerStep DEF Subscribed
<1>7. QED
  BY <1>3, <1>4, <1>5, <1>6

-----------------------------------------------------------------------------
(* The invariant of the specification.                                     *)

(* Nobody is subscribed at first.                                          *)
LEMMA InitInv == Init => BusInv
<1> SUFFICES ASSUME Init PROVE BusInv
  OBVIOUS
<1>1. <<>> \in Seq(Event) /\ Len(<<>>) = 0 /\ ToSet(<<>>) = {}
  BY EmptySeq, LenProperties DEF ToSet
<1>2. TypeOK /\ Publishing
  BY <1>1, BusAssumption DEF Init, TypeOK, Publishing, Nothing
<1>3. ASSUME NEW c \in Clients
      PROVE  ClientInv(c)
  <2>1. Taken(c) = {} /\ Waiting(c) = {} /\ Given(c) = {}
    BY <1>1 DEF Init, Taken, Waiting, Given
  <2>2. InOrder(c)
    BY <1>1, <2>1 DEF Init, InOrder, Ordered, Behind
  <2>3. UpToCount(c) /\ Subscribed(c) /\ NoGap(c)
    BY <2>1 DEF Init, UpToCount, Subscribed, NoGap, Numbers, Nothing
  <2>4. QED
    BY <2>2, <2>3 DEF ClientInv
<1>4. QED
  BY <1>2, <1>3 DEF BusInv

(* Every step keeps it.                                                    *)
LEMMA NextInv == BusInv /\ [Next]_vars => BusInv'
<1> SUFFICES ASSUME BusInv, [Next]_vars PROVE BusInv'
  OBVIOUS
<1>1. ASSUME NEW p \in Publishers, NEW m \in Missions, Publish(p, m)
      PROVE  BusInv'
  BY <1>1, PublishInv
<1>2. ASSUME NEW p \in Publishers, NEW c \in Clients, HandOff(p, c)
      PROVE  BusInv'
  BY <1>2, HandOffInv
<1>3. ASSUME NEW p \in Publishers, Published(p)
      PROVE  BusInv'
  BY <1>3, PublishedInv
<1>4. ASSUME NEW c \in Clients, Enqueue(c) \/ Drain(c) \/ Send(c)
      PROVE  BusInv'
  BY <1>4, EnqueueInv, DrainInv, SendInv
<1>5. ASSUME NEW c \in Clients,
             \/ Connect(c) \/ Hello(c) \/ Wake(c) \/ Fail(c) \/ Cancel(c) \/ Cleanup(c)
             \/ Disconnect(c) \/ Receive(c)
      PROVE  BusInv'
  BY <1>5, ServeInv
<1>6. CASE UNCHANGED vars
  <2>1. TypeOK' /\ Publishing'
    BY <1>6 DEF vars, BusInv, TypeOK, Publishing
  <2>2. ASSUME NEW d \in Clients
        PROVE  ClientInv(d)'
    BY <1>6, OtherClient DEF vars, BusInv
  <2>3. QED
    BY <2>1, <2>2 DEF BusInv
<1>7. QED
  BY <1>1, <1>2, <1>3, <1>4, <1>5, <1>6 DEF Next

(* It holds in every reachable state.                                      *)
LEMMA BusInvHolds == Spec => []BusInv
BY InitInv, NextInv, PTL DEF Spec

(* What c has been sent and will be sent, and what it lost, is all that it *)
(* was given, and in order.                                                *)
LEMMA FeedParts ==
  ASSUME BusInv, NEW c \in Clients
  PROVE  Ordered(Feed(c)) /\ lost[c] \cup ToSet(Feed(c)) = Given(c)
<1> DEFINE s == sent[c]
           d == IF drained[c] = None THEN <<>> ELSE <<drained[c]>>
           q == queue[c]
           h == handoff[c]
<1>1. s \in Seq(Event) /\ q \in Seq(Event) /\ h \in Seq(Event) /\ InOrder(c)
  BY DEF BusInv, TypeOK, ClientInv
<1>2. d \in Seq(Event) /\ ToSet(d) = Taken(c) /\ Ordered(d)
  <2>1. CASE drained[c] = None
    <3>1. d = <<>> /\ Taken(c) = {}
      BY <2>1 DEF Taken
    <3>2. <<>> \in Seq(Event) /\ Len(<<>>) = 0 /\ ToSet(<<>>) = {}
      BY EmptySeq, LenProperties DEF ToSet
    <3>3. QED
      BY <3>1, <3>2 DEF Ordered
  <2>2. CASE drained[c] # None
    <3> DEFINE e == drained[c]
    <3>1. d = <<e>> /\ Taken(c) = {e} /\ e \in Event
      BY <2>2 DEF Taken, BusInv, TypeOK
    <3> HIDE DEF e, d
    <3>2. <<e>> \in Seq(Event) /\ Len(<<e>>) = 1 /\ <<e>>[1] = e /\ DOMAIN <<e>> = 1 .. 1
      BY <3>1
    <3>3. ToSet(<<e>>) = {e}
      BY <3>2 DEF ToSet
    <3>4. Ordered(<<e>>)
      BY <3>2 DEF Ordered
    <3>5. QED
      BY <3>1, <3>2, <3>3, <3>4
  <2>3. QED
    BY <2>1, <2>2
<1>3. /\ Ordered(s) /\ Ordered(q) /\ Ordered(h)
      /\ Behind(ToSet(s), ToSet(d)) /\ Behind(ToSet(s) \cup ToSet(d), ToSet(q))
      /\ Behind(ToSet(s) \cup ToSet(d) \cup ToSet(q), ToSet(h))
  BY <1>1, <1>2 DEF InOrder, Behind, Waiting
<1>4. Feed(c) = s \o d \o q \o h
  BY DEF Feed
<1>5. Given(c) = ToSet(s) \cup ToSet(d) \cup ToSet(q) \cup ToSet(h) \cup lost[c]
  BY <1>2 DEF Given, Waiting
<1> HIDE DEF s, d, q, h
<1>6. s \o d \in Seq(Event) /\ ToSet(s \o d) = ToSet(s) \cup ToSet(d) /\ Ordered(s \o d)
  BY <1>1, <1>2, <1>3, JoinEvents
<1> DEFINE sd == s \o d
<1>7. sd \in Seq(Event) /\ ToSet(sd) = ToSet(s) \cup ToSet(d) /\ Ordered(sd)
  BY <1>6
<1> HIDE DEF sd
<1>8. sd \o q \in Seq(Event) /\ ToSet(sd \o q) = ToSet(sd) \cup ToSet(q) /\ Ordered(sd \o q)
  <2>1. /\ sd \in Seq(Event) /\ q \in Seq(Event) /\ Ordered(sd) /\ Ordered(q)
        /\ Behind(ToSet(sd), ToSet(q))
    BY <1>1, <1>3, <1>7
  <2>2. /\ sd \o q \in Seq(Event) /\ ToSet(sd \o q) = ToSet(sd) \cup ToSet(q)
        /\ Ordered(sd) /\ Ordered(q) /\ Behind(ToSet(sd), ToSet(q)) => Ordered(sd \o q)
    BY <2>1, JoinEvents
  <2>3. QED
    BY <2>1, <2>2
<1> DEFINE sdq == sd \o q
<1>9. /\ sdq \in Seq(Event) /\ Ordered(sdq)
      /\ ToSet(sdq) = ToSet(s) \cup ToSet(d) \cup ToSet(q)
  BY <1>7, <1>8
<1> HIDE DEF sdq
<1>10. ToSet(sdq \o h) = ToSet(sdq) \cup ToSet(h) /\ Ordered(sdq \o h)
  <2>1. /\ sdq \in Seq(Event) /\ h \in Seq(Event) /\ Ordered(sdq) /\ Ordered(h)
        /\ Behind(ToSet(sdq), ToSet(h))
    BY <1>1, <1>3, <1>9
  <2>2. /\ sdq \o h \in Seq(Event) /\ ToSet(sdq \o h) = ToSet(sdq) \cup ToSet(h)
        /\ Ordered(sdq) /\ Ordered(h) /\ Behind(ToSet(sdq), ToSet(h)) => Ordered(sdq \o h)
    BY <2>1, JoinEvents
  <2>3. QED
    BY <2>1, <2>2
<1>11. Feed(c) = sdq \o h
  BY <1>4 DEF sdq, sd
<1>12. QED
  BY <1>5, <1>9, <1>10, <1>11

-----------------------------------------------------------------------------
(* The theorems.                                                           *)

(* Types, and no queue over its bound: what is evicted makes the room for  *)
(* the event that comes in.                                                *)
THEOREM TypeCorrect == Spec => []TypeOK
<1>1. BusInv => TypeOK
  BY DEF BusInv
<1>2. QED
  BY <1>1, BusInvHolds, PTL

(* A subscriber gets the events of one publisher in the order they were    *)
(* published and none twice, however the publishing threads, the callbacks *)
(* of the loop and the coroutines of the subscribers interleave.           *)
THEOREM EventsStayInOrder == Spec => []PublisherOrderKept
<1>1. BusInv => PublisherOrderKept
  BY FeedParts DEF PublisherOrderKept, Ordered
<1>2. QED
  BY <1>1, BusInvHolds, PTL

(* A subscriber to every mission loses events by eviction only: the        *)
(* numbers it was given of one publisher have no gap and reach the newest. *)
THEOREM LossIsEviction == Spec => []NoSilentLoss
<1>1. ASSUME BusInv, NEW c \in Clients, NEW p \in Publishers
      PROVE  Accounted(c, p) = Numbers(c, p)
  BY <1>1, FeedParts DEF Accounted, Numbers
<1>2. BusInv => NoSilentLoss
  <2> SUFFICES ASSUME BusInv, NEW c \in Clients, NEW p \in Publishers,
                      Subscription[c] = Wildcard, handler[c] # "ended",
                      Accounted(c, p) # {}
               PROVE  \E first \in Accounted(c, p) :
                        Accounted(c, p) =
                          first .. (IF c \in todo[p].to THEN count[p] - 1 ELSE count[p])
    BY DEF NoSilentLoss
  <2>1. Accounted(c, p) = Numbers(c, p)
    BY <1>1
  <2>2. \E first \in Numbers(c, p) : Numbers(c, p) = first .. LastGiven(c, p)
    BY <2>1 DEF BusInv, ClientInv, NoGap
  <2>3. QED
    BY <2>1, <2>2 DEF LastGiven
<1>3. QED
  BY <1>2, BusInvHolds, PTL

(* Eviction takes the oldest: of one publisher, everything that waits for  *)
(* a subscriber is newer than everything evicted from its queue.           *)
THEOREM NewestAreKept == Spec => []OldestIsEvicted
<1>1. ASSUME BusInv, NEW c \in Clients, NEW e \in lost[c],
             NEW i \in 1 .. Len(queue[c] \o handoff[c])
      PROVE  LET f == (queue[c] \o handoff[c])[i] IN f.by = e.by => f.n > e.n
  <2> DEFINE q == queue[c]
             h == handoff[c]
             f == (q \o h)[i]
  <2>1. q \in Seq(Event) /\ h \in Seq(Event) /\ Behind(lost[c], Waiting(c))
        /\ Waiting(c) = ToSet(q) \cup ToSet(h) /\ Waiting(c) \subseteq Event
        /\ lost[c] \subseteq Event
    BY <1>1, GivenType DEF BusInv, TypeOK, ClientInv, InOrder, Waiting, Given
  <2> HIDE DEF q, h
  <2>2. q \o h \in Seq(Event) /\ ToSet(q \o h) = ToSet(q) \cup ToSet(h)
    BY <2>1, JoinEvents
  <2>3. DOMAIN (q \o h) = 1 .. Len(q \o h)
    BY <2>2, LenProperties
  <2>4. i \in DOMAIN (q \o h)
    BY <1>1, <2>3 DEF q, h
  <2>5. f \in Waiting(c)
    BY <2>1, <2>2, <2>4 DEF ToSet
  <2> HIDE DEF f
  <2>6. f.by = e.by => e.n < f.n
    BY <1>1, <2>1, <2>5 DEF Behind
  <2>7. e.n \in Nat /\ f.n \in Nat
    BY <1>1, <2>1, <2>5, BusAssumption DEF Event
  <2>8. f.by = e.by => f.n > e.n
    BY <2>6, <2>7
  <2>9. QED
    BY <2>8 DEF f, q, h
<1>2. BusInv => OldestIsEvicted
  BY <1>1 DEF OldestIsEvicted
<1>3. QED
  BY <1>2, BusInvHolds, PTL

-----------------------------------------------------------------------------
(* To each subscriber the bus is a stream.                                 *)

(* Sequences joined, when one grows or is taken from.                      *)
LEMMA AppendToJoined ==
  ASSUME NEW E, NEW s \in Seq(E), NEW t \in Seq(E), NEW e \in E
  PROVE  s \o Append(t, e) = Append(s \o t, e)
<1>1. <<e>> \in Seq(E) /\ s \o t \in Seq(E)
  BY ConcatProperties
<1>2. Append(t, e) = t \o <<e>> /\ Append(s \o t, e) = (s \o t) \o <<e>>
  BY <1>1, AppendIsConcat
<1>3. QED
  BY <1>1, <1>2, ConcatAssociative

(* The head of the second goes to the end of the first.                    *)
LEMMA HeadToJoined ==
  ASSUME NEW E, NEW s \in Seq(E), NEW t \in Seq(E), t # <<>>
  PROVE  Append(s, Head(t)) \o Tail(t) = s \o t
<1>1. Head(t) \in E /\ Tail(t) \in Seq(E) /\ <<Head(t)>> \in Seq(E)
  BY HeadTailProperties
<1>2. t = <<Head(t)>> \o Tail(t)
  <2>1. /\ <<Head(t)>> \o Tail(t) \in Seq(E)
        /\ Len(<<Head(t)>> \o Tail(t)) = Len(<<Head(t)>>) + Len(Tail(t))
        /\ \A i \in 1 .. Len(<<Head(t)>>) + Len(Tail(t)) :
             (<<Head(t)>> \o Tail(t))[i] = IF i <= Len(<<Head(t)>>) THEN <<Head(t)>>[i]
                                           ELSE Tail(t)[i - Len(<<Head(t)>>)]
    BY <1>1, ConcatProperties
  <2>2. /\ Len(t) \in Nat \ {0} /\ Len(Tail(t)) = Len(t) - 1 /\ Head(t) = t[1]
        /\ \A i \in 1 .. Len(t) - 1 : Tail(t)[i] = t[i + 1]
    BY HeadTailProperties, EmptySeq
  <2>3. Len(<<Head(t)>>) = 1 /\ <<Head(t)>>[1] = Head(t)
    OBVIOUS
  <2>4. Len(<<Head(t)>> \o Tail(t)) = Len(t)
    BY <2>1, <2>2, <2>3
  <2>5. ASSUME NEW i \in 1 .. Len(t)
        PROVE  t[i] = (<<Head(t)>> \o Tail(t))[i]
    <3>1. CASE i = 1
      BY <2>1, <2>2, <2>3, <3>1
    <3>2. CASE i # 1
      <4>1. i - 1 \in 1 .. Len(t) - 1 /\ (i - 1) + 1 = i
        BY <2>2, <3>2
      <4>2. Tail(t)[i - 1] = t[i]
        BY <2>2, <4>1
      <4>3. QED
        BY <2>1, <2>2, <2>3, <3>2, <4>2
    <3>3. QED
      BY <3>1, <3>2
  <2>6. QED
    BY <2>1, <2>4, <2>5, SeqEqual
<1>3. Append(s, Head(t)) = s \o <<Head(t)>>
  BY <1>1, AppendIsConcat
<1>4. QED
  BY <1>1, <1>2, <1>3, ConcatAssociative

(* The oldest of what is joined is the oldest of the first.                *)
LEMMA TailOfJoined ==
  ASSUME NEW E, NEW s \in Seq(E), NEW t \in Seq(E), s # <<>>
  PROVE  /\ s \o t # <<>>
         /\ Head(s \o t) = Head(s)
         /\ Tail(s \o t) = Tail(s) \o t
<1>1. /\ Tail(s) \in Seq(E) /\ Len(s) \in Nat \ {0} /\ Len(t) \in Nat
      /\ Len(Tail(s)) = Len(s) - 1
      /\ \A i \in 1 .. Len(s) - 1 : Tail(s)[i] = s[i + 1]
      /\ Head(s) = s[1]
  BY HeadTailProperties, EmptySeq, LenProperties
<1>2. /\ s \o t \in Seq(E) /\ Len(s \o t) = Len(s) + Len(t)
      /\ \A i \in 1 .. Len(s) + Len(t) :
           (s \o t)[i] = IF i <= Len(s) THEN s[i] ELSE t[i - Len(s)]
  BY ConcatProperties
<1>3. s \o t # <<>>
  BY <1>1, <1>2
<1>4. /\ Tail(s \o t) \in Seq(E) /\ Len(Tail(s \o t)) = Len(s) + Len(t) - 1
      /\ \A i \in 1 .. Len(s) + Len(t) - 1 : Tail(s \o t)[i] = (s \o t)[i + 1]
      /\ Head(s \o t) = (s \o t)[1]
  BY <1>1, <1>2, <1>3, HeadTailProperties
<1>5. /\ Tail(s) \o t \in Seq(E) /\ Len(Tail(s) \o t) = Len(s) - 1 + Len(t)
      /\ \A i \in 1 .. (Len(s) - 1) + Len(t) :
           (Tail(s) \o t)[i] = IF i <= Len(s) - 1 THEN Tail(s)[i] ELSE t[i - (Len(s) - 1)]
  BY <1>1, ConcatProperties
<1>6. ASSUME NEW i \in 1 .. Len(s) + Len(t) - 1
      PROVE  Tail(s \o t)[i] = (Tail(s) \o t)[i]
  <2>1. Tail(s \o t)[i] = IF i + 1 <= Len(s) THEN s[i + 1] ELSE t[i + 1 - Len(s)]
    BY <1>1, <1>2, <1>4
  <2>2. CASE i <= Len(s) - 1
    BY <1>1, <1>5, <2>1, <2>2
  <2>3. CASE i > Len(s) - 1
    <3>1. i + 1 - Len(s) = i - (Len(s) - 1) /\ ~(i + 1 <= Len(s))
      BY <1>1, <2>3
    <3>2. (Tail(s) \o t)[i] = t[i - (Len(s) - 1)]
      BY <1>1, <1>5, <2>3
    <3>3. QED
      BY <2>1, <3>1, <3>2
  <2>4. QED
    BY <1>1, <2>2, <2>3
<1>7. Tail(s \o t) = Tail(s) \o t
  BY <1>1, <1>4, <1>5, <1>6, SeqEqual
<1>8. Head(s \o t) = Head(s)
  BY <1>1, <1>2, <1>4
<1>9. QED
  BY <1>3, <1>7, <1>8

(* An event is handed to those who asked for it.                           *)
Aimed ==
  \A p \in Publishers : \A c \in todo[p].to :
    Subscription[c] \in {todo[p].event.mission, Wildcard}

(* Every step keeps that.                                                  *)
LEMMA AimedStep == BusInv /\ Aimed /\ [Next]_vars => Aimed'
<1> SUFFICES ASSUME BusInv, Aimed, [Next]_vars PROVE Aimed'
  OBVIOUS
<1>1. todo \in [Publishers -> [event: Event \cup {None}, to: SUBSET Clients]]
  BY DEF BusInv, TypeOK
<1>2. ASSUME NEW p \in Publishers, NEW m \in Missions, Publish(p, m)
      PROVE  Aimed'
  <2>1. /\ todo'[p].event.mission = m /\ todo'[p].to = Targets(m)
        /\ \A q \in Publishers \ {p} : todo'[q] = todo[q]
    BY <1>1, <1>2 DEF Publish
  <2>2. QED
    BY <2>1 DEF Aimed, Targets
<1>3. ASSUME NEW p \in Publishers, NEW c \in Clients, HandOff(p, c)
      PROVE  Aimed'
  <2>1. /\ todo'[p].event = todo[p].event /\ todo'[p].to = todo[p].to \ {c}
        /\ \A q \in Publishers \ {p} : todo'[q] = todo[q]
    BY <1>1, <1>3 DEF HandOff
  <2>2. QED
    BY <2>1 DEF Aimed
<1>4. ASSUME NEW p \in Publishers, Published(p)
      PROVE  Aimed'
  <2>1. /\ todo'[p].to = {}
        /\ \A q \in Publishers \ {p} : todo'[q] = todo[q]
    BY <1>1, <1>4 DEF Published, Nothing
  <2>2. QED
    BY <2>1 DEF Aimed
<1>5. CASE UNCHANGED todo
  BY <1>5 DEF Aimed
<1>6. QED
  BY <1>2, <1>3, <1>4, <1>5
  DEF Next, vars, Enqueue, Connect, Hello, Drain, Wake, Send, Fail, Cancel, Cleanup,
      Disconnect, Receive, busVars

(* It holds in every reachable state.                                      *)
LEMMA AimedHolds == Spec => []Aimed
<1>1. Init => Aimed
  BY DEF Init, Aimed, Nothing
<1>2. QED
  BY <1>1, AimedStep, BusInvHolds, PTL DEF Spec

(* What a stream step is, for one subscriber.                              *)
StreamStep(c) == [Stream(c)!Next]_(Stream(c)!stream)

(* A step that moves nothing a stream shows.                               *)
LEMMA StepUnseen ==
  ASSUME NEW c,
         Stage(c)' = Stage(c), (queue[c] \o handoff[c])' = queue[c] \o handoff[c],
         UNCHANGED <<drained[c], sent[c], lost[c]>>
  PROVE  StreamStep(c)
BY DEF StreamStep, Stream!stream

(* Steps of the publishers: one more event is offered, or nothing is seen. *)
LEMMA PublisherStep ==
  ASSUME BusInv, Aimed, NEW d \in Clients, NEW p \in Publishers,
         \/ \E m \in Missions : Publish(p, m)
         \/ \E c \in Clients : HandOff(p, c)
         \/ Published(p)
  PROVE  StreamStep(d)
<1>1. UNCHANGED <<handler, drained, sent, lost, queue>>
  BY DEF Publish, HandOff, Published, handlerVars
<1>2. Stage(d)' = Stage(d)
  BY <1>1 DEF Stage
<1>3. CASE UNCHANGED handoff[d]
  BY <1>1, <1>2, <1>3, StepUnseen
<1>4. CASE HandOff(p, d)
  <2> DEFINE e == todo[p].event
             q == queue[d]
             h == handoff[d]
  <2>1. /\ e \in WantedBy(d) /\ q \in Seq(Event) /\ h \in Seq(Event)
        /\ handoff'[d] = Append(h, e)
    BY <1>4 DEF HandOff, BusInv, TypeOK, Publishing, Aimed, WantedBy
  <2> HIDE DEF e, q, h
  <2>2. q \o Append(h, e) = Append(q \o h, e)
    BY <2>1, AppendToJoined DEF WantedBy
  <2>3. (queue[d] \o handoff[d])' = Append(queue[d] \o handoff[d], e)
    BY <1>1, <2>1, <2>2 DEF q, h
  <2>4. Stream(d)!Offer(e)
    BY <1>1, <1>2, <2>3 DEF Stream!Offer
  <2>5. QED
    BY <2>1, <2>4 DEF StreamStep, Stream!Next
<1>5. QED
  <2>1. handoff \in [Clients -> Seq(Event)]
    BY DEF BusInv, TypeOK
  <2>2. ASSUME NEW c \in Clients, HandOff(p, c), c # d
        PROVE  handoff'[d] = handoff[d]
    BY <2>1, <2>2 DEF HandOff
  <2>3. QED
    BY <1>3, <1>4, <2>2 DEF Publish, Published

(* The callback: an event moves from the loop to the queue unseen, and on  *)
(* a full queue the oldest of more than a queueful is dropped.             *)
LEMMA EnqueueStep ==
  ASSUME BusInv, NEW d \in Clients, Enqueue(d)
  PROVE  StreamStep(d)
<1> DEFINE q == queue[d]
           h == handoff[d]
<1>1. /\ q \in Seq(Event) /\ h \in Seq(Event) /\ h # <<>>
      /\ UNCHANGED <<handler, drained, sent>>
      /\ handoff'[d] = Tail(h)
      /\ \/ queue'[d] = Append(q, Head(h)) /\ lost'[d] = lost[d]
         \/ /\ Len(q) >= QueueMax
            /\ queue'[d] = Append(Tail(q), Head(h))
            /\ lost'[d] = lost[d] \cup {Head(q)}
  BY BusAssumption DEF Enqueue, BusInv, TypeOK, handlerVars
<1>2. Stage(d)' = Stage(d)
  BY <1>1 DEF Stage
<1>3. CASE queue'[d] = Append(q, Head(h)) /\ lost'[d] = lost[d]
  <2> HIDE DEF q, h
  <2>1. Append(q, Head(h)) \o Tail(h) = q \o h
    BY <1>1, HeadToJoined
  <2>2. (queue[d] \o handoff[d])' = queue[d] \o handoff[d]
    BY <1>1, <1>3, <2>1 DEF q, h
  <2>3. QED
    BY <1>1, <1>2, <1>3, <2>2, StepUnseen
<1>4. CASE /\ Len(q) >= QueueMax
           /\ queue'[d] = Append(Tail(q), Head(h))
           /\ lost'[d] = lost[d] \cup {Head(q)}
  <2> HIDE DEF q, h
  <2>1. /\ q # <<>> /\ Tail(q) \in Seq(Event) /\ QueueMax \in Nat
        /\ Len(q) \in Nat /\ Len(h) \in Nat \ {0}
    BY <1>1, <1>4, BusAssumption, EmptySeq, LenProperties, HeadTailProperties
  <2>2. Append(Tail(q), Head(h)) \o Tail(h) = Tail(q) \o h
    BY <1>1, <2>1, HeadToJoined
  <2>3. Tail(q \o h) = Tail(q) \o h /\ Head(q \o h) = Head(q)
    BY <1>1, <2>1, TailOfJoined
  <2>4. Len(q \o h) > QueueMax
    BY <1>1, <1>4, <2>1, ConcatProperties
  <2>5. /\ (queue[d] \o handoff[d])' = Tail(queue[d] \o handoff[d])
        /\ lost'[d] = lost[d] \cup {Head(queue[d] \o handoff[d])}
        /\ Len(queue[d] \o handoff[d]) > QueueMax
    BY <1>1, <1>4, <2>2, <2>3, <2>4 DEF q, h
  <2>6. Stream(d)!Drop
    BY <1>1, <1>2, <2>5 DEF Stream!Drop
  <2>7. QED
    BY <2>6 DEF StreamStep, Stream!Next
<1>5. QED
  BY <1>1, <1>3, <1>4

(* The drain task takes the oldest event.                                  *)
LEMMA DrainStep ==
  ASSUME BusInv, NEW d \in Clients, Drain(d)
  PROVE  StreamStep(d)
<1> DEFINE q == queue[d]
           h == handoff[d]
<1>1. /\ q \in Seq(Event) /\ h \in Seq(Event) /\ q # <<>>
      /\ handler[d] = "waiting" /\ drained[d] = None
      /\ UNCHANGED <<handler, handoff, sent, lost>>
      /\ drained'[d] = Head(q) /\ queue'[d] = Tail(q)
  BY DEF Drain, BusInv, TypeOK
<1>2. Stage(d)' = Stage(d) /\ Stage(d) = "open"
  BY <1>1 DEF Stage
<1> HIDE DEF q, h
<1>3. q \o h # <<>> /\ Tail(q \o h) = Tail(q) \o h /\ Head(q \o h) = Head(q)
  BY <1>1, TailOfJoined
<1>4. /\ queue[d] \o handoff[d] # <<>>
      /\ (queue[d] \o handoff[d])' = Tail(queue[d] \o handoff[d])
      /\ drained'[d] = Head(queue[d] \o handoff[d])
  BY <1>1, <1>3 DEF q, h
<1>5. Stream(d)!Take
  BY <1>1, <1>2, <1>4 DEF Stream!Take
<1>6. QED
  BY <1>5 DEF StreamStep, Stream!Next

(* The coroutine opens the stream, delivers, and closes it.                *)
LEMMA HandlerSeen ==
  ASSUME BusInv, NEW d \in Clients,
         \/ Connect(d) \/ Hello(d) \/ Wake(d) \/ Send(d) \/ Fail(d) \/ Cancel(d)
         \/ Cleanup(d) \/ Disconnect(d) \/ Receive(d)
  PROVE  StreamStep(d)
<1>1. /\ UNCHANGED <<queue, handoff, lost>>
      /\ handler \in [Clients -> {"connecting", "hello", "waiting", "sending",
                                  "closing", "ended"}]
      /\ drained \in [Clients -> Event \cup {None}] /\ sent \in [Clients -> Seq(Event)]
      /\ (queue[d] \o handoff[d])' = queue[d] \o handoff[d]
  BY DEF Connect, Hello, Wake, Send, Fail, Cancel, Cleanup, Disconnect, Receive, busVars,
         BusInv, TypeOK
<1>2. CASE Send(d)
  <2>1. /\ handler[d] = "sending" /\ handler'[d] \in {"closing", "waiting"}
        /\ sent'[d] = Append(sent[d], drained[d]) /\ drained'[d] = None
    BY <1>1, <1>2 DEF Send, Goto
  <2>2. Stage(d) = "open" /\ Stage(d)' \in {"open", "closed"}
    BY <2>1 DEF Stage
  <2>3. drained[d] # None
    BY <2>1 DEF BusInv, ClientInv, Subscribed
  <2>4. Stream(d)!Deliver
    BY <1>1, <2>1, <2>2, <2>3 DEF Stream!Deliver
  <2>5. QED
    BY <2>4 DEF StreamStep, Stream!Next
<1>3. CASE ~Send(d)
  <2>1. UNCHANGED <<drained, sent>>
    BY <1>3 DEF Connect, Hello, Wake, Fail, Cancel, Cleanup, Disconnect, Receive
  <2>2. CASE Hello(d)
    <3>1. handler[d] = "hello" /\ handler'[d] = "waiting"
      BY <1>1, <2>2 DEF Hello, Goto
    <3>2. Stage(d) = "opening" /\ Stage(d)' = "open"
      BY <3>1 DEF Stage
    <3>3. Stream(d)!Open
      BY <1>1, <2>1, <3>2 DEF Stream!Open
    <3>4. QED
      BY <3>3 DEF StreamStep, Stream!Next
  <2>3. CASE handler'[d] \in {"closing", "ended"}
    <3>1. Stage(d)' = "closed"
      BY <2>3 DEF Stage
    <3>2. Stream(d)!Close
      BY <1>1, <2>1, <3>1 DEF Stream!Close
    <3>3. QED
      BY <3>2 DEF StreamStep, Stream!Next
  <2>4. CASE handler'[d] \notin {"closing", "ended"} /\ ~Hello(d)
    <3>1. \/ handler'[d] = handler[d]
          \/ handler[d] = "connecting" /\ handler'[d] = "hello"
          \/ handler[d] = "waiting" /\ handler'[d] = "sending"
      BY <1>1, <1>3, <2>4
      DEF Connect, Wake, Fail, Cancel, Cleanup, Disconnect, Receive, Goto
    <3>2. Stage(d)' = Stage(d)
      BY <3>1 DEF Stage
    <3>3. QED
      BY <1>1, <2>1, <3>2, StepUnseen
  <2>5. QED
    BY <2>2, <2>3, <2>4
<1>4. QED
  BY <1>2, <1>3

(* What the coroutine of another subscriber does is not seen.              *)
LEMMA OtherSubscriber ==
  ASSUME BusInv, NEW c \in Clients, NEW d \in Clients, d # c,
         \/ Enqueue(c) \/ Connect(c) \/ Hello(c) \/ Drain(c) \/ Wake(c) \/ Send(c)
         \/ Fail(c) \/ Cancel(c) \/ Cleanup(c) \/ Disconnect(c) \/ Receive(c)
  PROVE  StreamStep(d)
<1>1. TypeOK
  BY DEF BusInv
<1>2. UNCHANGED <<handler[d], queue[d], handoff[d], drained[d], sent[d], lost[d]>>
  <2>1. CASE Enqueue(c)
    BY <1>1, <2>1 DEF Enqueue, handlerVars, TypeOK
  <2>2. CASE Drain(c) \/ Send(c)
    BY <1>1, <2>2 DEF Drain, Send, Goto, busVars, TypeOK
  <2>3. CASE Connect(c) \/ Hello(c) \/ Wake(c) \/ Fail(c) \/ Cancel(c)
    BY <1>1, <2>3 DEF Connect, Hello, Wake, Fail, Cancel, Goto, busVars, TypeOK
  <2>4. CASE Cleanup(c) \/ Disconnect(c) \/ Receive(c)
    BY <1>1, <2>4 DEF Cleanup, Disconnect, Receive, Goto, busVars, TypeOK
  <2>5. QED
    BY <2>1, <2>2, <2>3, <2>4
<1>3. Stage(d)' = Stage(d)
  BY <1>2 DEF Stage
<1>4. QED
  BY <1>2, <1>3, StepUnseen

(* Every step of the bus is a step of each stream, or is not seen in it.   *)
LEMMA BusStep ==
  ASSUME BusInv, Aimed, [Next]_vars, NEW d \in Clients
  PROVE  StreamStep(d)
<1>1. ASSUME NEW p \in Publishers,
             \/ \E m \in Missions : Publish(p, m)
             \/ \E c \in Clients : HandOff(p, c)
             \/ Published(p)
      PROVE  StreamStep(d)
  BY <1>1, PublisherStep
<1>2. ASSUME NEW c \in Clients,
             \/ Enqueue(c) \/ Connect(c) \/ Hello(c) \/ Drain(c) \/ Wake(c) \/ Send(c)
             \/ Fail(c) \/ Cancel(c) \/ Cleanup(c) \/ Disconnect(c) \/ Receive(c)
      PROVE  StreamStep(d)
  <2>1. CASE c = d
    BY <1>2, <2>1, EnqueueStep, DrainStep, HandlerSeen
  <2>2. CASE c # d
    BY <1>2, <2>2, OtherSubscriber
  <2>3. QED
    BY <2>1, <2>2
<1>3. CASE UNCHANGED vars
  BY <1>3, StepUnseen DEF vars, Stage
<1>4. QED
  BY <1>1, <1>2, <1>3 DEF Next

(* Nobody has been offered anything at first.                              *)
LEMMA StreamsBegin ==
  ASSUME Init, NEW c \in Clients
  PROVE  Stream(c)!Init
<1>1. /\ handler[c] = "connecting" /\ queue[c] = <<>> /\ handoff[c] = <<>>
      /\ drained[c] = None /\ sent[c] = <<>> /\ lost[c] = {}
  BY DEF Init
<1>2. queue[c] \o handoff[c] = <<>>
  BY <1>1
<1>3. QED
  BY <1>1, <1>2 DEF Stream!Init, Stage

(* To every subscriber the threads, the callbacks and the queue together   *)
(* are one stream: what it asked for, in the order it was handed over,     *)
(* each event once, and none dropped unless it is the oldest and more than *)
(* a queueful wait.                                                        *)
THEOREM StreamsAreImplemented == Spec => ImplementsStreams
<1>1. Init => \A c \in Clients : Stream(c)!Init
  BY StreamsBegin
<1>2. BusInv /\ Aimed /\ [Next]_vars
        => [\A c \in Clients : [Stream(c)!Next]_(Stream(c)!stream)]_vars
  BY BusStep DEF StreamStep
<1>3. QED
  BY <1>1, <1>2, BusInvHolds, AimedHolds, PTL DEF Spec, ImplementsStreams

===============================================================================
