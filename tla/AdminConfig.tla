---------------------------- MODULE AdminConfig ----------------------------
(***************************************************************************)
(* The configuration the admin endpoints edit: deps.Config in memory, the  *)
(* token pool that is given its tokens, and config.json, from which        *)
(* config.Load builds the next process's configuration (config_api.go,     *)
(* v2_handlers.go, config.go).  No lock guards deps.Config: an edit is the *)
(* sequence of its reads and writes.  The answer is 2xx also when the save *)
(* has failed.                                                             *)
(***************************************************************************)
EXTENDS Naturals, Sequences, SequencesExt, FiniteSets

CONSTANTS Admins,      \* requests to the admin endpoints that may overlap
          Token, Key,  \* upstream tokens and client API keys
          Setting,     \* values of what is kept besides: toggles, aliases, cookies
          EnvTokens,   \* QWEN2API_TOKENS
          EnvKeys,     \* QWEN2API_API_KEY; <<>> when it is not set
          MaxEdits,    \* edits in a behaviour
          MaxKeys      \* API keys in the list

VARIABLES up,          \* the process runs
          config,      \* deps.Config
          pool,        \* the list the pool was last given
          disk,        \* config.json
          edit,        \* where each admin request is
          edits,       \* edits begun, up to MaxEdits
          acked        \* what the answers promised

adminVars == <<up, config, pool, disk, edit, edits, acked>>

ASSUME EnvAssumption == /\ EnvTokens \in Seq(Token)
                        /\ EnvKeys \in Seq(Key)
                        /\ MaxEdits \in Nat
                        /\ Token # {} /\ Key # {} /\ Setting # {}

Config == [tokens: Seq(Token), keys: Seq(Key), settings: Setting]

Default == CHOOSE c \in [tokens: {<<>>}, keys: {<<>>}, settings: Setting] : TRUE

Idle == [pc |-> "idle", op |-> "none", token |-> CHOOSE t \in Token : TRUE,
         key |-> CHOOSE k \in Key : TRUE, list |-> <<>>, keys |-> <<>>, snap |-> Default]

\* Load overlays the environment on the file: its keys replace the saved
\* ones, its tokens are appended to them.
Load(d) ==
  LET saved == IF d.state = "saved" THEN d.data ELSE Default
  IN  [saved EXCEPT !.tokens = @ \o EnvTokens,
                    !.keys = IF EnvKeys = <<>> THEN @ ELSE EnvKeys]

AdminInit ==
  /\ up = TRUE
  /\ disk \in {[state |-> "absent", data |-> Default],
               [state |-> "saved", data |-> Default]}
  /\ config = Load(disk)
  /\ pool = config.tokens
  /\ edit = [a \in Admins |-> Idle]
  /\ edits = 0
  /\ acked = [added |-> {}, removed |-> {}, revoked |-> {}, alone |-> TRUE, saved |-> TRUE]

At(a, pc) == up /\ edit[a].pc = pc
Goto(a, pc) == edit' = [edit EXCEPT ![a].pc = pc]
Quiet == \A a \in Admins : edit[a].pc = "idle"

\* An edit of t has begun: nothing is promised of t until it is answered, and
\* nothing of any token if another edit is under way.
Undecided(t) == [acked EXCEPT !.added = @ \ {t}, !.removed = @ \ {t},
                              !.alone = @ /\ Quiet]

\* Mutant of Without: only the first of the token's entries goes.
FirstRemoved(list, gone) == RemoveFirst(list, CHOOSE x \in gone : TRUE)

\* The loops that copy every entry but those removed.
Without(list, gone) ==
  LET kept[i \in 0..Len(list)] ==
        IF i = 0 THEN <<>>
        ELSE IF list[i] \in gone THEN kept[i - 1] ELSE Append(kept[i - 1], list[i])
  IN  kept[Len(list)]

OneMore == edits < MaxEdits /\ edits' = edits + 1

Begin(a, op, t, list) ==
  /\ At(a, "idle") /\ OneMore
  /\ edit' = [edit EXCEPT ![a] = [Idle EXCEPT !.pc = "store", !.op = op,
                                              !.token = t, !.list = list]]
  /\ acked' = Undecided(t)
  /\ UNCHANGED <<up, config, pool, disk>>

\* The list is read and the new one computed; a token that is not found is a 404.
addToken(a, t) == Begin(a, "add", t, Append(config.tokens, t))
removeToken(a, t) ==
  /\ Contains(config.tokens, t)
  /\ Begin(a, "remove", t, Without(config.tokens, {t}))

StoreList(a) ==
  /\ At(a, "store")
  /\ config' = [config EXCEPT !.tokens = edit[a].list]
  /\ Goto(a, "pool")
  /\ UNCHANGED <<up, pool, disk, edits, acked>>

\* The list is read once more, and given to the pool, which waits for its mutex.
ReadList(a) ==
  /\ At(a, "pool")
  /\ edit' = [edit EXCEPT ![a].pc = "set", ![a].list = config.tokens]
  /\ UNCHANGED <<up, config, pool, disk, edits, acked>>

SetPool(a) ==
  /\ At(a, "set")
  /\ pool' = edit[a].list
  /\ Goto(a, "marshal")
  /\ UNCHANGED <<up, config, disk, edits, acked>>

\* saveConfig: the whole configuration, API keys included, is marshalled and
\* written over the file, which os.WriteFile truncates first.
Marshal(a) ==
  /\ At(a, "marshal")
  /\ edit' = [edit EXCEPT ![a].pc = "open", ![a].snap = config]
  /\ UNCHANGED <<up, config, pool, disk, edits, acked>>

Truncate(a) ==
  /\ At(a, "open")
  /\ disk' = [disk EXCEPT !.state = "torn"]
  /\ Goto(a, "write")
  /\ UNCHANGED <<up, config, pool, edits, acked>>

\* A shorter text written over a longer one leaves the rest of the longer.
Write(a) ==
  /\ At(a, "write")
  /\ \E state \in IF disk.state = "torn" THEN {"saved"} ELSE {"saved", "torn"} :
       disk' = [state |-> state, data |-> edit[a].snap]
  /\ Goto(a, "answer")
  /\ UNCHANGED <<up, config, pool, edits, acked>>

\* The file cannot be opened, or not written to: logged, answered as success.
SaveFails(a) ==
  /\ At(a, "open") \/ At(a, "write")
  /\ acked' = [acked EXCEPT !.saved = FALSE]
  /\ Goto(a, "answer")
  /\ UNCHANGED <<up, config, pool, disk, edits>>

Answer(a) ==
  /\ At(a, "answer")
  /\ acked' = IF edit[a].op = "add" THEN [acked EXCEPT !.added = @ \union {edit[a].token}]
              ELSE [acked EXCEPT !.removed = @ \union {edit[a].token}]
  /\ edit' = [edit EXCEPT ![a] = Idle]
  /\ UNCHANGED <<up, config, pool, disk, edits>>

\* The edits of the other endpoints are not saved, until a token's edit saves
\* everything.
updateSettings(v) ==
  /\ up /\ OneMore
  /\ config' = [config EXCEPT !.settings = v]
  /\ UNCHANGED <<up, pool, disk, edit, acked>>

Listed(keys, k) == Contains(keys, k)

\* The keys are read, and the new ones stored; neither saves anything.
BeginKeys(a, op, k, keys) ==
  /\ At(a, "idle") /\ OneMore
  /\ edit' = [edit EXCEPT ![a] = [Idle EXCEPT !.pc = "keys", !.op = op, !.key = k, !.keys = keys]]
  /\ acked' = [acked EXCEPT !.revoked = @ \ {k}, !.alone = @ /\ Quiet]
  /\ UNCHANGED <<up, config, pool, disk>>

createAPIKey(a, k) ==
  /\ Listed(config.keys, k) \/ Len(config.keys) < MaxKeys
  /\ BeginKeys(a, "create", k, IF Listed(config.keys, k) THEN config.keys ELSE Append(config.keys, k))

\* A value deletes the keys it is the name or the masked form of, too.
deleteAPIKey(a, k, namesakes) ==
  BeginKeys(a, "delete", k, Without(config.keys, {k} \union namesakes))

StoreKeys(a) ==
  /\ At(a, "keys")
  /\ config' = [config EXCEPT !.keys = edit[a].keys]
  /\ acked' = [acked EXCEPT !.revoked = @ \union (IF edit[a].op = "delete" THEN {edit[a].key} ELSE {})]
  /\ edit' = [edit EXCEPT ![a] = Idle]
  /\ UNCHANGED <<up, pool, disk, edits>>

\* Without keys the server is open to everyone.
AuthorizedKey(k) == config.keys = <<>> \/ Contains(config.keys, k)

\* The process dies anywhere; keys were promised nothing beyond its life.
AdminCrash ==
  /\ up /\ up' = FALSE
  /\ edit' = [a \in Admins |-> Idle]
  /\ acked' = [acked EXCEPT !.revoked = {}]
  /\ UNCHANGED <<config, pool, disk, edits>>

\* A file that does not parse stops the start.
StartUp ==
  /\ ~up /\ disk.state # "torn" /\ up' = TRUE
  /\ config' = Load(disk)
  /\ pool' = config'.tokens
  /\ UNCHANGED <<disk, edit, edits, acked>>

AdminNext ==
  \/ \E a \in Admins, t \in Token : addToken(a, t) \/ removeToken(a, t)
  \/ \E a \in Admins : \/ StoreList(a) \/ ReadList(a) \/ SetPool(a) \/ Marshal(a)
                       \/ Truncate(a) \/ Write(a) \/ SaveFails(a) \/ Answer(a)
  \/ \E v \in Setting : updateSettings(v)
  \/ \E a \in Admins, k \in Key :
       createAPIKey(a, k) \/ \E namesakes \in SUBSET Key : deleteAPIKey(a, k, namesakes)
  \/ \E a \in Admins : StoreKeys(a)
  \/ AdminCrash \/ StartUp

AdminSpec == AdminInit /\ [][AdminNext]_adminVars
----------------------------------------------------------------------------
AdminTypeOK ==
  /\ up \in BOOLEAN
  /\ config \in Config
  /\ pool \in Seq(Token)
  /\ disk \in [state: {"absent", "saved", "torn"}, data: Config]
  /\ edit \in [Admins -> [pc: {"idle", "store", "pool", "set", "keys", "marshal", "open", "write", "answer"},
                          op: {"none", "add", "remove", "create", "delete"},
                          token: Token, key: Key, list: Seq(Token), keys: Seq(Key), snap: Config]]
  /\ edits \in 0..MaxEdits
  /\ acked \in [added: SUBSET Token, removed: SUBSET Token,
                revoked: SUBSET Key, alone: BOOLEAN, saved: BOOLEAN]

\* As long as no two edits overlapped, the pool hands out exactly the configured
\* tokens when none is under way (config_api.go:98 and 146).  If besides none
\* failed to save, a token whose addition was answered is there, also after a
\* restart, and one whose removal was answered is not, unless the environment
\* lists it (config.go:264-268).  A deleted API key is refused as long as keys
\* are configured and the process runs (v2_handlers.go:133-158).
EditsTakeEffect ==
  up /\ Quiet =>
    /\ acked.alone => pool = config.tokens
    /\ acked.alone /\ acked.saved =>
         /\ acked.added \subseteq ToSet(pool)
         /\ acked.removed \intersect ToSet(pool) \subseteq ToSet(EnvTokens)
    /\ acked.alone => \A k \in acked.revoked : AuthorizedKey(k) => config.keys = <<>>

\* v2_handlers.go:132: deleteAPIKey removes "a key by exact value match".  The
\* keys with that name or masked form go with it, though no edit overlaps.
OnlyTheKeyDeleted ==
  [][\A a \in Admins :
       edit[a].op = "delete" /\ StoreKeys(a) /\ acked.alone =>
         ToSet(config.keys) \ {edit[a].key} \subseteq ToSet(config'.keys)]_adminVars

\* v2_handlers.go:100: keys are created "in-memory only; not persisted".  The
\* next edit of a token saves the whole configuration.
CreatedKeysNotSaved == ToSet(disk.data.keys) \subseteq ToSet(EnvKeys)
============================================================================
