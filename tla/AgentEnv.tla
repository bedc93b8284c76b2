------------------------------- MODULE AgentEnv -------------------------------
(***************************************************************************)
(* The API key in the environment of the server process.  The agent        *)
(* library reads OPENAI_API_KEY when an agent is constructed, so the worker *)
(* sets it for the construction and puts the old value back; several        *)
(* threads do so at once, each resolves its own key from the same variable, *)
(* and planning looks at it too.  OPENAI_BASE_URL goes the same way but is  *)
(* left out: it is only ever set to what it resolves to already.            *)
(***************************************************************************)
CONSTANT Builders  \* threads that construct agents

VARIABLES
  env,        \* OPENAI_API_KEY of the process
  openai,     \* what OPENAI_API_KEY was when the process started
  ollama,     \* OLLAMA_API_KEY, which nothing sets
  build,      \* build[b]: the construction b is at, its model and local variables
  reported,   \* what planning last stored as has_api_key (TRUE before), and whether
              \* no construction was going on or had disturbed the environment
  overlapped, \* history: builders whose construction met another one
  disturbed   \* history: TRUE once two constructions met, or one raised

vars == <<env, openai, ollama, build, reported, overlapped, disturbed>>

Unset == "unset"
Empty == "empty"
Placeholder == "placeholder"   \* the literal "ollama", for local models
OpenaiKey == "openai_key"
OllamaKey == "ollama_key"
Keys == {Unset, Empty, Placeholder, OpenaiKey, OllamaKey}
Models == {"local", "cloud"}

NoBuild == [pc |-> "idle", model |-> "local", key |-> Unset, prev |-> Unset, seen |-> Unset]

Building == {b \in Builders : build[b].pc # "idle"}

Init ==
  /\ openai \in {Unset, Empty, OpenaiKey}
  /\ ollama \in {Empty, OllamaKey}
  /\ env = openai
  /\ build = [b \in Builders |-> NoBuild]
  /\ reported = [key |-> TRUE, quiet |-> FALSE]
  /\ overlapped = {}
  /\ disturbed = FALSE

-----------------------------------------------------------------------------
(* os.getenv("OPENAI_API_KEY") or os.getenv("OLLAMA_API_KEY", "")          *)
Found == IF env \in {Unset, Empty} THEN ollama ELSE env

(* Faulty variant: the placeholder for every model without a key.          *)
PlaceholderForAll(model) == IF Found = Empty THEN Placeholder ELSE Found

(* A local model without a key gets the placeholder, a cloud model none.   *)
ResolvedKey(model) ==
  IF Found = Empty /\ model = "local" THEN Placeholder ELSE Found

Resolve(b, model) ==
  /\ build[b].pc = "idle"
  /\ build' = [build EXCEPT ![b] = [NoBuild EXCEPT !.pc = "resolved", !.model = model,
                                                   !.key = ResolvedKey(model)]]
  /\ overlapped' = IF Building = {} THEN overlapped \ {b}
                                    ELSE overlapped \cup Building \cup {b}
  /\ disturbed' = (disturbed \/ Building # {})
  /\ UNCHANGED <<env, openai, ollama, reported>>

Snapshot(b) ==
  /\ build[b].pc = "resolved"
  /\ build' = [build EXCEPT ![b].pc = "saved", ![b].prev = env]
  /\ UNCHANGED <<env, openai, ollama, reported, overlapped, disturbed>>

(* Faulty variant: os.environ.setdefault.                                  *)
ExportDefault(b) ==
  /\ build[b].pc = "saved"
  /\ env' = IF env = Unset THEN build[b].key ELSE env
  /\ build' = [build EXCEPT ![b].pc = "exported"]
  /\ UNCHANGED <<openai, ollama, reported, overlapped, disturbed>>

Export(b) ==
  /\ build[b].pc = "saved"
  /\ env' = build[b].key
  /\ build' = [build EXCEPT ![b].pc = "exported"]
  /\ UNCHANGED <<openai, ollama, reported, overlapped, disturbed>>

(* The constructor of the library, which looks into the environment.       *)
Construct(b) ==
  /\ build[b].pc = "exported"
  /\ build' = [build EXCEPT ![b].pc = "constructed", ![b].seen = env]
  /\ UNCHANGED <<env, openai, ollama, reported, overlapped, disturbed>>

(* The tools or the constructor raise: the caller records the failure, and *)
(* nobody puts the environment back.                                       *)
Raise(b) ==
  /\ build[b].pc = "exported"
  /\ build' = [build EXCEPT ![b] = NoBuild]
  /\ disturbed' = TRUE
  /\ UNCHANGED <<env, openai, ollama, reported, overlapped>>

(* Faulty variant: a variable that was not set is left as it is.           *)
RestoreIfSet(b) ==
  /\ build[b].pc = "constructed"
  /\ env' = IF build[b].prev = Unset THEN env ELSE build[b].prev
  /\ build' = [build EXCEPT ![b] = NoBuild]
  /\ UNCHANGED <<openai, ollama, reported, overlapped, disturbed>>

(* A variable that was not set is removed again.                           *)
Restore(b) ==
  /\ build[b].pc = "constructed"
  /\ env' = build[b].prev
  /\ build' = [build EXCEPT ![b] = NoBuild]
  /\ UNCHANGED <<openai, ollama, reported, overlapped, disturbed>>

(* The transition to planning stores, for good, whether a key is there.    *)
TriggerPlanning ==
  /\ reported' = [key |-> Found # Empty, quiet |-> ~disturbed /\ Building = {}]
  /\ UNCHANGED <<env, openai, ollama, build, overlapped, disturbed>>

Next ==
  \/ \E b \in Builders :
       \/ \E model \in Models : Resolve(b, model)
       \/ Snapshot(b) \/ Export(b) \/ Construct(b) \/ Raise(b) \/ Restore(b)
  \/ TriggerPlanning

Spec == Init /\ [][Next]_vars

-----------------------------------------------------------------------------
TypeOK ==
  /\ env \in Keys /\ openai \in Keys /\ ollama \in Keys
  /\ build \in [Builders -> [pc: {"idle", "resolved", "saved", "exported", "constructed"},
                             model: Models, key: Keys, prev: Keys, seen: Keys]]
  /\ reported \in [key: BOOLEAN, quiet: BOOLEAN]
  /\ overlapped \subseteq Builders
  /\ disturbed \in BOOLEAN

(* The key the operator configured: OPENAI_API_KEY before OLLAMA_API_KEY.  *)
Configured == IF openai = OpenaiKey THEN OpenaiKey ELSE ollama

(* Whatever interleaves or raises, an OPENAI_API_KEY the operator set is   *)
(* what the process has, at every moment; without one, constructions that  *)
(* neither met nor raised leave the environment as they found it.          *)
EnvironmentKept ==
  /\ openai = OpenaiKey => env = OpenaiKey
  /\ ~disturbed /\ Building = {} => env = openai

(* A configured key is the key of every agent, whatever interleaves.  With *)
(* none configured a local model has the placeholder, and a cloud model no *)
(* key, as long as no two constructions have met and none has raised.      *)
(* Planning never misses a key, and in quiet reports none that is not set. *)
KeysAreTrue ==
  /\ \A b \in Building :
       /\ Configured # Empty => build[b].key = Configured
       /\ Configured = Empty =>
            \/ build[b].key = Placeholder /\ (build[b].model = "local" \/ disturbed)
            \/ build[b].key = Empty /\ build[b].model = "cloud"
  /\ Configured # Empty => reported.key
  /\ reported.quiet /\ reported.key => Configured # Empty

(* The constructor finds the key of its own agent in the environment when  *)
(* no other construction overlapped with this one, whatever earlier ones   *)
(* left behind.                                                            *)
ConstructorSeesItsKey ==
  \A b \in Builders \ overlapped :
    build[b].pc = "constructed" => build[b].seen = build[b].key

=============================================================================
