----------------------------- MODULE Ingestion -----------------------------
(***************************************************************************)
(* Creating missions: create_mission_from_ingestion of api/v1/missions.py, *)
(* behind POST /missions and the GitHub webhook, beside deletion and the   *)
(* PUT that moves a mission to another branch.  Two unique indexes guard   *)
(* the table: (source, external_id) and (repo_url, branch_prefix).         *)
(***************************************************************************)
EXTENDS Naturals, FiniteSets

CONSTANTS
  Requests,       \* calls that create a mission
  Webhooks,       \* those of them that are deliveries of the GitHub webhook
  Payloads,       \* records [key, place] that requests carry
  None,           \* an absent key or place, or no answer yet
  Duplicate,      \* the answer 409 MISSION_DUPLICATE
  Places          \* values of (repo_url, branch_prefix)

ASSUME IngestionAssumption ==
  /\ Webhooks \subseteq Requests
  /\ \A d \in Payloads : d.place \in Places \cup {None}
  /\ None # Duplicate /\ {None, Duplicate} \cap Nat = {}

VARIABLES
  missions,       \* the table: records [id, key, place]
  used,           \* ids given out
  at,             \* at[r]: where request r stands
  payload,        \* payload[r]
  answer          \* answer[r]: a mission id, Duplicate, or None

vars == <<missions, used, at, payload, answer>>

Init ==
  /\ missions = {}
  /\ used = {}
  /\ at = [r \in Requests |-> "idle"]
  /\ payload \in [Requests -> Payloads]
  /\ \A r \in Webhooks : None \notin {payload[r].key, payload[r].place}
  /\ answer = [r \in Requests |-> None]

Goto(r, place) == at' = [at EXCEPT ![r] = place]

Reply(r, a) ==
  /\ Goto(r, "done")
  /\ answer' = [answer EXCEPT ![r] = a]

-----------------------------------------------------------------------------
(* _find_by_external_id, for a complete ingestion key only.                *)
Found(key) == {m \in missions : key # None /\ m.key = key}

(* The webhook handler runs on the event loop from end to end: deliveries  *)
(* follow each other, while POST /missions runs in threads beside them and *)
(* looks up and inserts at any time.                                       *)
LoopIsFree == \A w \in Webhooks : at[w] \in {"idle", "done"}

(* Faulty variant: deliveries are handled in threads too.                  *)
FindInThread(r) ==
  /\ at[r] = "idle"
  /\ IF Found(payload[r].key) = {}
       THEN Goto(r, "insert") /\ UNCHANGED answer
       ELSE \E m \in Found(payload[r].key) : Reply(r, m.id)
  /\ UNCHANGED <<missions, used, payload>>

Find(r) ==
  /\ at[r] = "idle"
  /\ r \in Webhooks => LoopIsFree
  /\ IF Found(payload[r].key) = {}
       THEN Goto(r, "insert") /\ UNCHANGED answer
       ELSE \E m \in Found(payload[r].key) : Reply(r, m.id)
  /\ UNCHANGED <<missions, used, payload>>

(* Faulty variant: the index on (source, external_id) is missing.          *)
PlaceIndexOnly(d) ==
  IF \E m \in missions : d.place # None /\ m.place = d.place THEN {"place"} ELSE {}

(* The indexes an insertion would violate.                                 *)
Violated(d) ==
  {i \in {"key", "place"} : d[i] # None /\ \E m \in missions : m[i] = d[i]}

(* INSERT and commit.  The database reports one of the indexes violated;   *)
(* the handler recovers only from the one on the key.                      *)
Insert(r) ==
  /\ at[r] = "insert"
  /\ LET d == payload[r]
         id == Cardinality(used) + 1
     IN  IF Violated(d) = {}
           THEN /\ missions' = missions \cup {[id |-> id, key |-> d.key, place |-> d.place]}
                /\ used' = used \cup {id}
                /\ Reply(r, id)
           ELSE /\ \E i \in Violated(d) :
                     IF i = "key" THEN Goto(r, "again") /\ UNCHANGED answer
                                  ELSE Reply(r, Duplicate)
                /\ UNCHANGED <<missions, used>>
  /\ UNCHANGED payload

(* The lookup after the rollback; the row that won the race may be gone.   *)
Again(r) ==
  /\ at[r] = "again"
  /\ IF Found(payload[r].key) = {}
       THEN Reply(r, Duplicate)
       ELSE \E m \in Found(payload[r].key) : Reply(r, m.id)
  /\ UNCHANGED <<missions, used, payload>>

Delete(m) ==
  /\ missions' = missions \ {m}
  /\ UNCHANGED <<used, at, payload, answer>>

(* PUT with another repo_url or branch_prefix; a collision is refused.     *)
Move(m, place) ==
  /\ place # m.place
  /\ \A o \in missions : place = None \/ o.place # place
  /\ missions' = (missions \ {m}) \cup {[m EXCEPT !.place = place]}
  /\ UNCHANGED <<used, at, payload, answer>>

Next ==
  \/ \E r \in Requests : Find(r) \/ Insert(r) \/ Again(r)
  \/ \E m \in missions : Delete(m) \/ \E place \in Places \cup {None} : Move(m, place)

Spec == Init /\ [][Next]_vars

-----------------------------------------------------------------------------
Ids == {m.id : m \in missions}

TypeOK ==
  /\ missions \subseteq [id: used, key: {d.key : d \in Payloads}, place: Places \cup {None}]
  /\ used = 1 .. Cardinality(used)
  /\ at \in [Requests -> {"idle", "insert", "again", "done"}]
  /\ payload \in [Requests -> Payloads]
  /\ answer \in [Requests -> used \cup {Duplicate, None}]

Answered(r) == answer[r] \in used

(* Deliveries of one key are answered with one mission, in every race, as  *)
(* long as nobody deletes it in between.                                   *)
OneMissionPerKey ==
  \A r, q \in Requests :
    /\ Answered(r) /\ Answered(q)
    /\ payload[r].key = payload[q].key /\ payload[r].key # None
    => answer[r] = answer[q] \/ answer[r] \notin Ids \/ answer[q] \notin Ids

(* A delivery is refused only when the table has no mission of its issue,  *)
(* or a client posts missions of that issue beside the webhook.            *)
RedeliveriesAreSafe ==
  [][\A w \in Webhooks :
       answer[w] = None /\ answer'[w] = Duplicate
       => \/ Found(payload[w].key) = {}
          \/ \E r \in Requests \ Webhooks : payload[r].key = payload[w].key]_vars

=============================================================================
