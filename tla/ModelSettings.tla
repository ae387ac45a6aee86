--------------------------- MODULE ModelSettings ---------------------------
(***************************************************************************)
(* Which model the agents use: the start-up from the environment, the      *)
(* switch at run time, and the configurations kept in model_config.json.   *)
(*                                                                         *)
(* The handlers have no await, so no two of them overlap; what interferes  *)
(* is a failing write and a crash between the swap of the clients and the  *)
(* two writes that record it.  Keys are encrypted when the file is written *)
(* and decrypted when it is read; the encryption key may be another one    *)
(* after a restart.                                                        *)
(***************************************************************************)
EXTENDS Naturals, Sequences, SequencesExt

CONSTANTS
  Provider,        \* the provider ids of the page
  Model,           \* model names
  NoModel,
  Family,          \* the prefixes of MODEL_PREFIX_MAP that share their variables
  NoFamily,
  FamilyOf,        \* the first prefix in the table that a name starts with
  AdapterOf,       \* the client class of a family
  KeySet,          \* the families whose API key variable is set
  GlobalKey,       \* LLM_API_KEY is set
  SettingsKey,     \* settings.yaml has a key
  EnvModel,        \* LLM_MODEL
  EnvAdapter,      \* LLM_PROVIDER
  RoleModel,       \* CLASSIFIER_LLM_MODEL and EXECUTOR_LLM_MODEL
  CryptKey,        \* encryption keys: MODEL_CONFIG_KEY or the key file
  MaxRotations,    \* bound: restarts with another encryption key
  MaxFaults        \* bound: failing file operations

Role    == {"coordinator", "classifier", "executor"}
Adapter == {"openai", "dashscope"}

ASSUME SettingsAssumption ==
  /\ NoModel \notin Model /\ NoFamily \notin Family
  /\ FamilyOf \in [Model -> Family \cup {NoFamily}]
  /\ AdapterOf \in [Family -> Adapter]
  /\ KeySet \subseteq Family
  /\ {GlobalKey, SettingsKey} \subseteq BOOLEAN
  /\ EnvModel \in Model /\ EnvAdapter \in Adapter
  /\ RoleModel \in [Role -> Model \cup {NoModel}]
  /\ MaxRotations \in Nat /\ MaxFaults \in Nat

VARIABLES
  llm,        \* the client of each role
  file,       \* model_config.json: readable or not, and its configurations
  op,         \* what the handler under way still has to write
  crypt,      \* the encryption key of this process
  rotations,  \* restarts with another encryption key so far
  faults,     \* failed file operations so far
  chosen      \* ghost: what was last put into use, and what was tried since

vars == <<llm, file, op, crypt, rotations, faults, chosen>>

Idle == [pc |-> "idle", list |-> <<>>, activate |-> FALSE, provider |-> NoModel]

-----------------------------------------------------------------------------
(***************************************************************************)
(* Clients.                                                                *)
(***************************************************************************)

\* resolve_model: the adapter and the key that follow from a model's name.  The
\* base URL is found like the key and goes with it.
Resolve(m) ==
  LET f == FamilyOf[m] IN
    [adapter |-> IF f = NoFamily THEN "openai" ELSE AdapterOf[f],
     key     |-> IF f \in KeySet THEN "family" ELSE IF GlobalKey THEN "global" ELSE "none"]

Client(a, m, k) == [adapter |-> a, model |-> m, key |-> k]

\* create_llm for a typed or a stored configuration.
ClientOf(c) ==
  Client(Resolve(c.model).adapter, c.model,
         IF c.wraps = <<>> THEN "typed" ELSE "garbled")

\* The clients before any stored configuration is applied.
EnvClient ==
  Client(EnvAdapter, EnvModel,
         IF GlobalKey THEN "global" ELSE IF SettingsKey THEN "settings" ELSE "none")

StartClient(r) ==
  IF RoleModel[r] \in {NoModel, EnvModel}
    THEN EnvClient
    ELSE LET i == Resolve(RoleModel[r]) IN Client(i.adapter, RoleModel[r], i.key)

-----------------------------------------------------------------------------
(***************************************************************************)
(* The store.  wraps holds the encryptions around a key, oldest first.     *)
(***************************************************************************)

\* Planted fault: the keys are left as they are read.
Decrypted_Not(c, k) == c

\* Fernet refuses a text of another key: it is taken for the key itself.
Decrypted(c, k) ==
  IF c.wraps # <<>> /\ Last(c.wraps) = k THEN [c EXCEPT !.wraps = Front(@)] ELSE c

Encrypted(c) == [c EXCEPT !.wraps = Append(@, crypt)]

\* load_all: a file that does not parse is taken for an empty one.
LoadAll(f, k) ==
  IF f.ok THEN [i \in DOMAIN f.list |-> Decrypted(f.list[i], k)] ELSE <<>>

Named(list, p) == {i \in DOMAIN list : list[i].provider = p}

\* upsert: the configuration replaces the provider's old one, or comes last.
Upserted(list, c) ==
  IF Named(list, c.provider) = {}
    THEN Append(list, c)
    ELSE [i \in DOMAIN list |-> IF i \in Named(list, c.provider) THEN c ELSE list[i]]

\* Planted fault: the others stay active.
Activated_KeepsOthers(list, p) ==
  [i \in DOMAIN list |-> [list[i] EXCEPT !.active = @ \/ i \in Named(list, p)]]

\* set_active.
Activated(list, p) ==
  [i \in DOMAIN list |-> [list[i] EXCEPT !.active = i \in Named(list, p)]]

\* get_active: the first active configuration, if there is one.
IsFirst(list, i) ==
  list[i].active /\ \A j \in DOMAIN list : list[j].active => i <= j
GetActive(list) == {list[i] : i \in {j \in DOMAIN list : IsFirst(list, j)}}

Choice(c) == <<c.provider, c.model>>

-----------------------------------------------------------------------------
(***************************************************************************)
(* Requests.                                                               *)
(***************************************************************************)

AllUse(c) == llm' = [r \in Role |-> c]

Writes(list, activate, p) ==
  op' = [pc |-> "open", list |-> list, activate |-> activate, provider |-> p]

\* configure_model: the clients are swapped first, then the file is written
\* twice, by upsert and by set_active.
Configure(p, m) ==
  LET c == [provider |-> p, model |-> m, wraps |-> <<>>, active |-> TRUE]
  IN /\ op = Idle
     /\ AllUse(ClientOf(c))
     /\ Writes(Upserted(LoadAll(file, crypt), c), TRUE, p)
     /\ chosen' = chosen \cup {Choice(c)}
     /\ UNCHANGED <<file, crypt, rotations, faults>>

\* switch_to_saved_config: from the store, whatever its key decrypts to.
SwitchToSaved(p) ==
  LET list == LoadAll(file, crypt) IN
     /\ op = Idle
     /\ \E i \in Named(list, p) :
          /\ AllUse(ClientOf(list[i]))
          /\ chosen' = chosen \cup {Choice(list[i])}
     /\ Writes(Activated(list, p), FALSE, p)
     /\ UNCHANGED <<file, crypt, rotations, faults>>

\* switch_model: one role or all, in memory only.  Without a key of its own the
\* request takes the environment's, and is refused when there is none.
SwitchModel(m, roles, typedKey) ==
  LET i == Resolve(m)
      k == IF typedKey THEN "typed" ELSE i.key
  IN /\ op = Idle
     /\ k # "none"
     /\ llm' = [r \in Role |-> IF r \in roles
                  THEN Client(i.adapter, m, k) ELSE llm[r]]
     /\ UNCHANGED <<file, op, crypt, rotations, faults, chosen>>

\* The same with a provider instead of a model: the name of the model is empty.
SwitchProvider(a, roles) ==
  /\ op = Idle
  /\ llm' = [r \in Role |-> IF r \in roles
               THEN Client(a, NoModel, "typed") ELSE llm[r]]
  /\ UNCHANGED <<file, op, crypt, rotations, faults, chosen>>

-----------------------------------------------------------------------------
(***************************************************************************)
(* save_all: the file is emptied when it is opened, then written.          *)
(***************************************************************************)

Open ==
  /\ op.pc = "open"
  /\ file' = [ok |-> FALSE, list |-> <<>>]
  /\ op' = [op EXCEPT !.pc = "write"]
  /\ UNCHANGED <<llm, crypt, rotations, faults, chosen>>

\* After upsert comes set_active, which reads the file again; then the request
\* is answered.
Write ==
  LET list == [i \in DOMAIN op.list |-> Encrypted(op.list[i])] IN
  /\ op.pc = "write"
  /\ file' = [ok |-> TRUE, list |-> list]
  /\ IF op.activate
       THEN /\ Writes(Activated(LoadAll(file', crypt), op.provider), FALSE, op.provider)
            /\ UNCHANGED chosen
       ELSE /\ op' = Idle
            /\ chosen' = {Choice(list[i]) : i \in Named(list, op.provider)}
  /\ UNCHANGED <<llm, crypt, rotations, faults>>

\* The request ends with an error; the clients stay swapped, and the file is as
\* it was when it could not be opened, empty when it could not be written.
SaveFails ==
  /\ op # Idle
  /\ faults < MaxFaults
  /\ faults' = faults + 1
  /\ op' = Idle
  /\ UNCHANGED <<llm, file, crypt, rotations, chosen>>

\* A stop or a crash at any point, and the start-up: the clients come from the
\* environment, then the first active configuration is applied to all roles.
Restart(k) ==
  /\ k = crypt \/ rotations < MaxRotations
  /\ crypt' = k
  /\ rotations' = IF k = crypt THEN rotations ELSE rotations + 1
  /\ op' = Idle
  /\ LET active == GetActive(LoadAll(file, k)) IN
       /\ chosen' = {Choice(c) : c \in active}
       /\ IF active = {} THEN llm' = [r \in Role |-> StartClient(r)]
          ELSE \E c \in active : AllUse(ClientOf(c))
  /\ UNCHANGED <<file, faults>>

Init ==
  /\ llm = [r \in Role |-> StartClient(r)]
  /\ file = [ok |-> TRUE, list |-> <<>>]
  /\ op = Idle
  /\ crypt \in CryptKey
  /\ rotations = 0
  /\ faults = 0
  /\ chosen = {}

Configures == \E p \in Provider, m \in Model : Configure(p, m)

Switches ==
  \E roles \in {Role, {"classifier"}, {"executor"}} :
    \/ \E m \in Model, k \in BOOLEAN : SwitchModel(m, roles, k)
    \/ \E a \in Adapter : SwitchProvider(a, roles)

Next ==
  \/ Configures
  \/ \E p \in Provider : SwitchToSaved(p)
  \/ Switches
  \/ Open
  \/ Write
  \/ SaveFails
  \/ \E k \in CryptKey : Restart(k)

Spec == Init /\ [][Next]_vars

-----------------------------------------------------------------------------
(***************************************************************************)
(* Properties.                                                             *)
(***************************************************************************)

\* What a restart would load from a readable file is what was last put into use
\* and recorded, or a choice whose recording was interrupted or failed since: never
\* a configuration that was left before.  Between its two writes the file has two
\* active configurations, and a crash there leaves them.
RestartUsesChoice ==
  file.ok => \A c \in GetActive(file.list) : Choice(c) \in chosen

\* However often the file is read and written back, a stored key is wrapped once:
\* only a change of the encryption key can bury it under another layer, one for
\* each change.
KeysWrappedOnce ==
  file.ok => \A i \in DOMAIN file.list :
               Len(file.list[i].wraps) \in 1 .. rotations + 1

=============================================================================
