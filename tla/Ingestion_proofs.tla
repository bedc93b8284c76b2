--------------------------- MODULE Ingestion_proofs ---------------------------
(***************************************************************************)
(* Proofs about creating missions, for any number of requests and any      *)
(* payloads.                                                               *)
(***************************************************************************)
EXTENDS Ingestion, FiniteSetTheorems, TLAPS

-----------------------------------------------------------------------------
(* The inductive invariant.                                                *)

(* The unique index on the key, and the primary key.                       *)
Indexed ==
  \A m, o \in missions : m.id = o.id \/ (m.key = o.key /\ m.key # None) => m = o

(* Who was answered with a mission had sent the key of that mission, which *)
(* no PUT changes and no later mission takes over.                         *)
AnswersMatch ==
  \A r \in Requests : \A m \in missions : answer[r] = m.id => payload[r].key = m.key

(* One delivery is handled at a time; while it is, only POST /missions can *)
(* have created a mission of its issue.                                    *)
OneDelivery ==
  /\ \A w, v \in Webhooks :
       at[w] \notin {"idle", "done"} /\ at[v] \notin {"idle", "done"} => w = v
  /\ \A w \in Webhooks : at[w] = "insert" =>
       \/ Found(payload[w].key) = {}
       \/ \E r \in Requests \ Webhooks : payload[r].key = payload[w].key

IngestionInv ==
  /\ TypeOK
  /\ \E n \in Nat : used = 1 .. n
  /\ Indexed
  /\ AnswersMatch
  /\ OneDelivery

-----------------------------------------------------------------------------
(* The next id is a new one.                                               *)
LEMMA NextId ==
  ASSUME IngestionInv, NEW id, id = Cardinality(used) + 1
  PROVE  /\ id \in Nat /\ id \notin used
         /\ used \cup {id} = 1 .. id
         /\ used \subseteq Nat
         /\ Cardinality(used \cup {id}) = id
<1>1. PICK n \in Nat : used = 1 .. n
  BY DEF IngestionInv
<1>2. Cardinality(1 .. n) = n
  <2>1. Cardinality(1 .. n) = IF 1 > n THEN 0 ELSE n - 1 + 1
    BY FS_Interval
  <2>2. QED
    BY <2>1
<1>3. id = n + 1
  BY <1>1, <1>2
<1>4. used \cup {id} = 1 .. id
  BY <1>1, <1>3
<1>5. Cardinality(1 .. id) = id
  <2>1. Cardinality(1 .. id) = IF 1 > id THEN 0 ELSE id - 1 + 1
    BY <1>3, FS_Interval
  <2>2. QED
    BY <1>3, <2>1
<1>6. id \in Nat /\ id \notin used /\ used \subseteq Nat
  BY <1>1, <1>3
<1>7. QED
  BY <1>4, <1>5, <1>6

(* The invariant holds initially.                                          *)
LEMMA InitInv == Init => IngestionInv
<1> SUFFICES ASSUME Init
             PROVE  IngestionInv
  OBVIOUS
<1>1. used = 1 .. 0
  BY DEF Init
<1>2. Cardinality(used) = 0
  BY FS_EmptySet DEF Init
<1>3. TypeOK
  BY <1>1, <1>2 DEF Init, TypeOK
<1>4. Indexed /\ AnswersMatch
  BY DEF Init, Indexed, AnswersMatch
<1>5. \A w \in Webhooks : at[w] = "idle"
  BY IngestionAssumption DEF Init
<1>6. OneDelivery
  BY <1>5 DEF OneDelivery
<1>7. QED
  BY <1>1, <1>3, <1>4, <1>6 DEF IngestionInv

(* A request that goes on, or is answered with the mission that has its    *)
(* key, or is refused, keeps the invariant.                                *)
LEMMA LookupInv ==
  ASSUME IngestionInv, NEW r \in Requests, NEW to \in {"insert", "again", "done"},
         Goto(r, to),
         \/ UNCHANGED answer
         \/ \E m \in Found(payload[r].key) : answer' = [answer EXCEPT ![r] = m.id]
         \/ answer' = [answer EXCEPT ![r] = Duplicate],
         to = "insert" => Found(payload[r].key) = {},
         at[r] = "idle" /\ r \in Webhooks => LoopIsFree,
         at[r] # "done",
         UNCHANGED <<missions, used, payload>>
  PROVE  IngestionInv'
<1>1. /\ at' \in [Requests -> {"idle", "insert", "again", "done"}]
      /\ at'[r] = to /\ \A q \in Requests : q # r => at'[q] = at[q]
  BY DEF Goto, IngestionInv, TypeOK
<1>2. \A m \in Found(payload[r].key) : m \in missions /\ m.id \in used /\ m.key = payload[r].key
  BY DEF Found, IngestionInv, TypeOK
<1>3. TypeOK'
  BY <1>1, <1>2 DEF IngestionInv, TypeOK
<1>4. AnswersMatch'
  <2>1. ASSUME NEW q \in Requests, NEW m \in missions, answer'[q] = m.id
        PROVE  payload[q].key = m.key
    <3>1. m.id \in used /\ m.id \in Nat
      BY DEF IngestionInv, TypeOK
    <3>2. CASE answer'[q] = answer[q]
      BY <2>1, <3>2 DEF IngestionInv, AnswersMatch
    <3>3. CASE answer'[q] # answer[q]
      <4>1. q = r /\ answer'[q] # Duplicate
        BY <2>1, <3>1, <3>3, IngestionAssumption DEF IngestionInv, TypeOK
      <4>2. PICK o \in Found(payload[r].key) : answer' = [answer EXCEPT ![r] = o.id]
        BY <3>3, <4>1 DEF IngestionInv, TypeOK
      <4>3. m = o
        BY <1>2, <2>1, <4>1, <4>2 DEF IngestionInv, TypeOK, Indexed
      <4>4. QED
        BY <1>2, <4>1, <4>2, <4>3
    <3>4. QED
      BY <3>2, <3>3
  <2>2. QED
    BY <2>1 DEF AnswersMatch
<1>5. OneDelivery'
  BY <1>1, IngestionAssumption DEF IngestionInv, OneDelivery, LoopIsFree, Found
<1>6. Indexed' /\ \E n \in Nat : used' = 1 .. n
  BY DEF IngestionInv, Indexed
<1>7. QED
  BY <1>3, <1>4, <1>5, <1>6 DEF IngestionInv

(* The lookup before the insertion.                                        *)
LEMMA FindInv ==
  ASSUME IngestionInv, NEW r \in Requests, Find(r)
  PROVE  IngestionInv'
BY LookupInv DEF Find, Reply

(* The lookup after an insertion that was refused.                         *)
LEMMA AgainInv ==
  ASSUME IngestionInv, NEW r \in Requests, Again(r)
  PROVE  IngestionInv'
BY LookupInv DEF Again, Reply

(* A mission that violates no index is inserted, with a new id.            *)
LEMMA InsertInv ==
  ASSUME IngestionInv, NEW r \in Requests, Insert(r)
  PROVE  IngestionInv'
<1> DEFINE d   == payload[r]
           id  == Cardinality(used) + 1
           new == [id |-> id, key |-> d.key, place |-> d.place]
<1>1. CASE Violated(d) # {}
  <2>1. PICK i \in Violated(d) : IF i = "key" THEN Goto(r, "again") /\ UNCHANGED answer
                                              ELSE Reply(r, Duplicate)
    BY <1>1 DEF Insert
  <2>2. at[r] = "insert" /\ UNCHANGED <<missions, used, payload>>
    BY <1>1 DEF Insert
  <2>3. QED
    BY <2>1, <2>2, LookupInv DEF Reply
<1>2. CASE Violated(d) = {}
  <2>1. /\ at[r] = "insert"
        /\ missions' = missions \cup {new} /\ used' = used \cup {id}
        /\ Goto(r, "done") /\ answer' = [answer EXCEPT ![r] = id] /\ UNCHANGED payload
    BY <1>2 DEF Insert, Reply
  <2>2. /\ id \in Nat /\ id \notin used /\ used' = 1 .. id /\ used \subseteq Nat
        /\ Cardinality(used') = id
    BY <2>1, NextId
  <2> HIDE DEF id
  <2>3. /\ d \in Payloads /\ d.place \in Places \cup {None}
        /\ \A m \in missions : m.id \in used
    BY IngestionAssumption DEF IngestionInv, TypeOK
  <2>4. d.key # None => \A m \in missions : m.key # d.key
    BY <1>2 DEF Violated
  <2>5. /\ at' \in [Requests -> {"idle", "insert", "again", "done"}]
        /\ at'[r] = "done" /\ \A q \in Requests : q # r => at'[q] = at[q]
    BY <2>1 DEF Goto, IngestionInv, TypeOK
  <2>6. TypeOK'
    <3>1. missions' \subseteq [id: used', key: {e.key : e \in Payloads},
                               place: Places \cup {None}]
      BY <2>1, <2>3 DEF IngestionInv, TypeOK
    <3>2. QED
      BY <2>1, <2>2, <2>5, <3>1 DEF IngestionInv, TypeOK
  <2>7. Indexed'
    BY <2>1, <2>2, <2>3, <2>4 DEF IngestionInv, Indexed
  <2>8. AnswersMatch'
    <3>1. \A q \in Requests : answer[q] # id
      BY <2>2, IngestionAssumption DEF IngestionInv, TypeOK
    <3>2. QED
      BY <2>1, <2>2, <2>3, <3>1 DEF IngestionInv, TypeOK, AnswersMatch
  <2>9. OneDelivery'
    <3>1. \A w, v \in Webhooks :
            at'[w] \notin {"idle", "done"} /\ at'[v] \notin {"idle", "done"} => w = v
      BY <2>5, IngestionAssumption DEF IngestionInv, OneDelivery
    <3>2. ASSUME NEW w \in Webhooks, at'[w] = "insert"
          PROVE  \/ Found(payload[w].key)' = {}
                 \/ \E q \in Requests \ Webhooks : payload[q].key = payload[w].key
      <4>1. w # r /\ at[w] = "insert"
        BY <2>5, <3>2, IngestionAssumption
      <4>2. r \notin Webhooks
        BY <2>1, <4>1 DEF IngestionInv, OneDelivery
      <4>3. CASE payload[w].key = d.key
        BY <4>2, <4>3
      <4>4. CASE payload[w].key # d.key
        BY <2>1, <4>1, <4>4 DEF IngestionInv, OneDelivery, Found
      <4>5. QED
        BY <4>3, <4>4
    <3>3. QED
      BY <2>1, <3>1, <3>2 DEF OneDelivery
  <2>10. QED
    BY <2>2, <2>6, <2>7, <2>8, <2>9 DEF IngestionInv
<1>3. QED
  BY <1>1, <1>2

(* Deleting a mission keeps the invariant.                                 *)
LEMMA DeleteInv ==
  ASSUME IngestionInv, NEW m \in missions, Delete(m)
  PROVE  IngestionInv'
<1>1. missions' = missions \ {m} /\ UNCHANGED <<used, at, payload, answer>>
  BY DEF Delete
<1>2. TypeOK' /\ Indexed' /\ AnswersMatch'
  BY <1>1 DEF IngestionInv, TypeOK, Indexed, AnswersMatch
<1>3. OneDelivery'
  BY <1>1 DEF IngestionInv, OneDelivery, Found
<1>4. QED
  BY <1>1, <1>2, <1>3 DEF IngestionInv

(* A PUT leaves the id and the key of the mission it moves.                *)
LEMMA MoveInv ==
  ASSUME IngestionInv, NEW m \in missions, NEW place \in Places \cup {None}, Move(m, place)
  PROVE  IngestionInv'
<1> DEFINE new == [m EXCEPT !.place = place]
<1>1. missions' = (missions \ {m}) \cup {new} /\ UNCHANGED <<used, at, payload, answer>>
  BY DEF Move
<1>2. /\ new.id = m.id /\ new.key = m.key
      /\ new \in [id: used, key: {e.key : e \in Payloads}, place: Places \cup {None}]
  BY DEF IngestionInv, TypeOK
<1> HIDE DEF new
<1>3. TypeOK' /\ Indexed' /\ AnswersMatch'
  BY <1>1, <1>2 DEF IngestionInv, TypeOK, Indexed, AnswersMatch
<1>4. OneDelivery'
  <2>1. \A key : Found(key) = {} => Found(key)' = {}
    BY <1>1, <1>2 DEF Found
  <2>2. QED
    BY <1>1, <2>1 DEF IngestionInv, OneDelivery
<1>5. QED
  BY <1>1, <1>3, <1>4 DEF IngestionInv

(* Every step keeps the invariant.                                         *)
LEMMA NextInv == IngestionInv /\ [Next]_vars => IngestionInv'
<1> SUFFICES ASSUME IngestionInv, [Next]_vars
             PROVE  IngestionInv'
  OBVIOUS
<1>1. CASE UNCHANGED vars
  BY <1>1 DEF vars, IngestionInv, TypeOK, Indexed, AnswersMatch, OneDelivery, Found
<1>2. QED
  BY <1>1, FindInv, InsertInv, AgainInv, DeleteInv, MoveInv DEF Next

(* The invariant is one.                                                   *)
LEMMA InvHolds == Spec => []IngestionInv
BY InitInv, NextInv, PTL DEF Spec

(* The unique index and the second lookup answer all deliveries of a key   *)
(* with one mission, however the requests race.                            *)
THEOREM OneMission == Spec => []OneMissionPerKey
<1>1. IngestionInv => OneMissionPerKey
  <2> SUFFICES ASSUME IngestionInv, NEW r \in Requests, NEW q \in Requests,
                      payload[r].key = payload[q].key, payload[r].key # None,
                      answer[r] \in Ids, answer[q] \in Ids
               PROVE  answer[r] = answer[q]
    BY DEF OneMissionPerKey
  <2>1. PICK m \in missions : answer[r] = m.id
    BY DEF Ids
  <2>2. PICK o \in missions : answer[q] = o.id
    BY DEF Ids
  <2>3. m.key = o.key /\ m.key # None
    BY <2>1, <2>2 DEF IngestionInv, AnswersMatch
  <2>4. m = o
    BY <2>3 DEF IngestionInv, Indexed
  <2>5. QED
    BY <2>1, <2>2, <2>4
<1>2. QED
  BY <1>1, InvHolds, PTL

(* A step that refuses a delivery finds no mission of its issue, or meets  *)
(* one that a client of POST /missions made.                               *)
LEMMA RefusedStep ==
  ASSUME IngestionInv, [Next]_vars, NEW w \in Webhooks,
         answer[w] = None, answer'[w] = Duplicate
  PROVE  \/ Found(payload[w].key) = {}
         \/ \E r \in Requests \ Webhooks : payload[r].key = payload[w].key
<1>1. answer' # answer /\ w \in Requests
  BY IngestionAssumption
<1>2. PICK r \in Requests : Find(r) \/ Insert(r) \/ Again(r)
  BY <1>1 DEF Next, vars, Delete, Move
<1>3. \A q \in Requests : q # r => answer'[q] = answer[q]
  BY <1>2 DEF Find, Insert, Again, Reply, IngestionInv, TypeOK
<1>4. r = w
  BY <1>1, <1>3, IngestionAssumption
<1> DEFINE found == Found(payload[w].key)
<1>5. ASSUME NEW m \in found, answer' = [answer EXCEPT ![w] = m.id]
      PROVE  FALSE
  <2>1. m.id \in Nat
    <3>1. PICK n \in Nat : used = 1 .. n
      BY DEF IngestionInv
    <3>2. m.id \in used
      BY DEF Found, IngestionInv, TypeOK
    <3>3. QED
      BY <3>1, <3>2
  <2>2. answer'[w] = m.id
    BY <1>1, <1>5 DEF IngestionInv, TypeOK
  <2>3. QED
    BY <2>1, <2>2, IngestionAssumption
<1>6. CASE Find(w)
  BY <1>1, <1>6, <1>5 DEF Find, Reply
<1>7. CASE Insert(w)
  BY <1>7 DEF Insert, IngestionInv, OneDelivery
<1>8. CASE Again(w)
  BY <1>8, <1>5 DEF Again, Reply
<1>9. QED
  BY <1>2, <1>4, <1>6, <1>7, <1>8

(* A delivery is refused only when the table has no mission of its issue,  *)
(* or a client posts missions of that issue beside the webhook.            *)
THEOREM RefusedForCause == Spec => RedeliveriesAreSafe
<1>1. IngestionInv /\ [Next]_vars =>
        [\A w \in Webhooks :
           answer[w] = None /\ answer'[w] = Duplicate
           => \/ Found(payload[w].key) = {}
              \/ \E r \in Requests \ Webhooks : payload[r].key = payload[w].key]_vars
  BY RefusedStep
<1>2. QED
  BY <1>1, InvHolds, PTL DEF Spec, RedeliveriesAreSafe

=============================================================================
