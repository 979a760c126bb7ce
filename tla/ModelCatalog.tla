---------------------------- MODULE ModelCatalog ----------------------------
(***************************************************************************)
(* The catalog of models (infrastructure/config): settings.json and the    *)
(* environment a process is started with, the configuration it derives     *)
(* from them, and what the browser changes while servers run: models that  *)
(* are added to the file and to the process, and the active model of the   *)
(* process and its router.                                                 *)
(*                                                                         *)
(* A reference is a pair of names, a connection the three values a client  *)
(* is built from.  Each handler holds the write lock of its process from   *)
(* beginning to end (SseServer has the lock); the file has no lock, so the *)
(* reading and the renaming of one addition are two steps.                 *)
(*                                                                         *)
(* The embedding model, which is derived as the compaction model is, is    *)
(* left out; COMPACTION_MODEL is as if it stood in the file.  A file has   *)
(* the lower-case keys, the only ones that an addition looks for           *)
(* (model_catalog.go:99), and declares no limit of zero.                   *)
(***************************************************************************)
EXTENDS Integers, Sequences, Functions

CONSTANTS
  Processes,      \* the code server, the RAG server
  Environments,   \* what the processes may find in their environment
  Files,          \* what the settings may hold at first
  Inputs,         \* the models a user may add
  DefaultWindow, DefaultOutput,  \* tokens of a model without a limit
  Down,           \* the configuration of a process that does not run
  Idle,           \* no addition in progress
  MaxSaves        \* bound on the additions that reach the file

VARIABLES
  settings,   \* settings.json
  env,        \* the environment, the same for every process
  conf,       \* EnvAndFileConf of each process
  upstream,   \* the connection of each process's router
  adding,     \* the addition each process is at: what it read, what it will write
  saves

vars == <<settings, env, conf, upstream, adding, saves>>

-----------------------------------------------------------------------------
(* The catalog.                                                            *)

NoRef == <<>>
NoLimit == [context |-> 0, output |-> 0]

\* OPENAI_CONTEXT_WINDOW, OPENAI_MAX_OUTPUT_TOKENS, and the same of the compaction
\* model: the numbers that the environment and the file may set.
Keys == {"window", "output", "compactionWindow", "compactionOutput"}

\* The environment has a number of its own.
IsSet(key) == key \in DOMAIN env.numbers

Default(key) ==
  CASE key = "window" -> DefaultWindow [] key = "output" -> DefaultOutput [] OTHER -> 0

\* What EnvOrFile finds: the environment, the file, the default.
Setting(file, key) ==
  IF IsSet(key) THEN env.numbers[key]
  ELSE IF key \in DOMAIN file.numbers THEN file.numbers[key] ELSE Default(key)

Fits(window, output) == output > 0 /\ output < window

Values == {"key", "url", "name"}
NoConn == [v \in Values |-> ""]

\* The provider that a complete OPENAI_* environment adds.
EnvProvider ==
  [name |-> "env", key |-> "env", url |-> "env",
   models |-> <<[name |-> "env", limit |-> NoLimit]>>]
EnvRef == <<"env", "env">>

Entries(providers) ==
  UNION {{[provider |-> p, model |-> m] : m \in Range(p.models)} : p \in Range(providers)}

RefOf(entry) == <<entry.provider.name, entry.model.name>>
Refs(providers) == {RefOf(entry) : entry \in Entries(providers)}

AllDistinct(named) == \A i, j \in DOMAIN named : named[i].name = named[j].name => i = j

\* resolveModel: the model's limit, each part of it unless there is none or the
\* environment sets the global number.
Resolve(c, ref) ==
  LET entry == CHOOSE x \in Entries(c.providers) : RefOf(x) = ref
      limit == entry.model.limit
      Part(key, own) == IF limit = NoLimit \/ IsSet(key) THEN c.numbers[key] ELSE own
  IN  [ref     |-> ref,
       conn    |-> [v \in Values |-> IF v = "name" THEN entry.model.name ELSE entry.provider[v]],
       window  |-> Part("window", limit.context),
       output  |-> Part("output", limit.output),
       limited |-> limit # NoLimit]

Unresolved == [ref |-> NoRef, conn |-> NoConn, window |-> 0, output |-> 0, limited |-> FALSE]

\* validateModelCatalog.
ValidCatalog(providers, model) ==
  /\ AllDistinct(providers)
  /\ \A p \in Range(providers) :
       /\ p.name = EnvProvider.name => p = EnvProvider
       /\ p.models # <<>> /\ AllDistinct(p.models)
       /\ \A m \in Range(p.models) : m.limit # NoLimit => Fits(m.limit.context, m.limit.output)
  /\ IF providers = <<>> THEN model = NoRef ELSE model \in Refs(providers)

\* The types of the constants.  A prover does not know that a literal is a string.
Name == STRING \cup {EnvProvider.name}
ModelConfig == [name : Name, limit : [context : Int, output : Int]]
ProviderConfig == [name : Name, key : Name, url : Name, models : Seq(ModelConfig)]
ModelRef == (Name \X Name) \cup {NoRef}
IsSettings(file) ==
  /\ file \in [providers : Seq(ProviderConfig), model : ModelRef, compaction : ModelRef,
              numbers : {file.numbers}]
  /\ DOMAIN file.numbers \subseteq Keys /\ file.numbers \in [DOMAIN file.numbers -> Int]
ModelInput ==
  [provider : Name, key : Name, url : Name, name : Name,
   limit : [context : Int, output : Int]]

-----------------------------------------------------------------------------
(* Activation.                                                             *)

\* effectiveAuxiliaryBudget: what the environment sets, what the model declares,
\* what the file sets, what the model has.
Budget(resolved, own, numbers, key) ==
  IF IsSet(key) \/ (~resolved.limited /\ numbers[key] # 0) THEN numbers[key] ELSE own

\* The values of the compaction model.
Auxiliary(resolved, numbers) ==
  [ref    |-> resolved.ref,
   conn   |-> resolved.conn,
   window |-> Budget(resolved, resolved.window, numbers, "compactionWindow"),
   output |-> Budget(resolved, resolved.output, numbers, "compactionOutput")]

\* Mutant: the compaction model is the one of the start.
KeepsCompaction(c, ref) == [c EXCEPT !.model = ref, !.conn = Resolve(c, ref).conn]

\* setActiveModel: a compaction model nobody configured follows the main one.
SetActiveModel(c, ref) ==
  [c EXCEPT !.model = ref,
            !.conn = Resolve(c, ref).conn,
            !.compaction = IF c.configured THEN @ ELSE Auxiliary(Resolve(c, ref), c.numbers)]

\* resolveAuxiliaryModel: a complete environment needs no reference, another
\* replaces single values; another name replaces the limit as well.
ResolveCompaction(c, ref, main) ==
  LET Global(resolved) == [resolved EXCEPT !.window = c.numbers["window"],
                                           !.output = c.numbers["output"], !.limited = FALSE]
      base  == IF env.compaction = Values THEN Global(Unresolved)
               ELSE IF ref # NoRef THEN Resolve(c, ref) ELSE main
      sized == IF "name" \in env.compaction /\ base.conn["name"] # "own"
                 THEN Global(base) ELSE base
  IN  IF env.compaction = {} THEN sized
      ELSE [sized EXCEPT !.ref = EnvRef,
                         !.conn = [v \in Values |-> IF v \in env.compaction THEN "own" ELSE @[v]]]

-----------------------------------------------------------------------------
(* The start of a process: ParseEnvAndFile.                                *)

CatalogOf(file) ==
  IF env.main = Values THEN Append(file.providers, EnvProvider) ELSE file.providers

\* The environment's model, the file's, or the first of the catalog.
StartModel(file) ==
  IF env.main = Values THEN EnvRef
  ELSE IF file.model = NoRef /\ file.providers # <<>>
    THEN <<file.providers[1].name, file.providers[1].models[1].name>>
    ELSE file.model

NoCompaction == [ref |-> NoRef, conn |-> NoConn, window |-> 0, output |-> 0]

\* The configuration of a process that starts with this model.
Derived(file, model) ==
  LET read == [providers  |-> CatalogOf(file),
               model      |-> NoRef,
               conn       |-> NoConn,
               compaction |-> NoCompaction,
               configured |-> file.compaction # NoRef \/ env.compaction # {},
               numbers    |-> [key \in Keys |-> Setting(file, key)]]
      main == IF model = NoRef THEN Unresolved ELSE Resolve(read, model)
      c    == IF model = NoRef THEN read ELSE SetActiveModel(read, model)
  IN  [c EXCEPT !.compaction = Auxiliary(ResolveCompaction(read, file.compaction, main), c.numbers)]

\* Every early return of ParseEnvAndFile.
Loads(file) ==
  LET model == StartModel(file)
      c     == Derived(file, model)
  IN  /\ env.main \in {{}, Values}
      /\ env.main = Values => \A p \in Range(file.providers) : p.name # EnvProvider.name
      /\ ValidCatalog(CatalogOf(file), model)
      /\ \/ file.compaction = NoRef \/ env.compaction = Values
         \/ file.compaction \in Refs(CatalogOf(file))
      /\ Fits(c.numbers["window"], c.numbers["output"])
      /\ model # NoRef =>
           /\ Fits(c.compaction.window, c.compaction.output)
           /\ Fits(Resolve(c, model).window, Resolve(c, model).output)

Init ==
  /\ settings \in Files /\ env \in Environments
  /\ conf = [p \in Processes |-> Down]
  /\ upstream = [p \in Processes |-> NoConn]
  /\ adding = [p \in Processes |-> Idle]
  /\ saves = 0

\* A process that cannot load its settings does not come up.
Start(p) ==
  /\ conf[p] = Down /\ Loads(settings)
  /\ conf' = [conf EXCEPT ![p] = Derived(settings, StartModel(settings))]
  /\ upstream' = [upstream EXCEPT ![p] = conf'[p].conn]
  /\ UNCHANGED <<settings, env, adding, saves>>

-----------------------------------------------------------------------------
(* The handlers.                                                           *)

\* appendModelToProviders: the name is new, and a provider keeps its values.
MayAppend(providers, input) ==
  /\ input.provider # EnvProvider.name /\ Fits(input.limit.context, input.limit.output)
  /\ \A p \in Range(providers) : p.name = input.provider =>
       /\ p.key = input.key /\ p.url = input.url
       /\ \A m \in Range(p.models) : m.name # input.name

Appended(providers, input) ==
  LET model == [name |-> input.name, limit |-> input.limit]
      own   == {i \in DOMAIN providers : providers[i].name = input.provider}
  IN  IF own = {}
        THEN Append(providers, [name |-> input.provider, key |-> input.key, url |-> input.url,
                                models |-> <<model>>])
        ELSE [i \in DOMAIN providers |->
                IF i \in own THEN [providers[i] EXCEPT !.models = Append(@, model)]
                ELSE providers[i]]

\* AddModelToSettings up to the temporary file.
ReadSettings(p, input) ==
  /\ conf[p] # Down /\ adding[p] = Idle /\ saves < MaxSaves
  /\ MayAppend(conf[p].providers, input)
  /\ LET candidate == Appended(conf[p].providers, input)
         model == IF conf[p].model = NoRef THEN <<input.provider, input.name>> ELSE conf[p].model
     IN  ValidCatalog(candidate, model)
  /\ MayAppend(settings.providers, input)
  /\ adding' = [adding EXCEPT ![p] =
       [input |-> input, read |-> settings,
        document |-> [settings EXCEPT !.providers = Appended(@, input)]]]
  /\ UNCHANGED <<settings, env, conf, upstream, saves>>

\* The process takes the model over once the file has it; the first one becomes
\* the active model, of the router too (SwitchModelLocked).
Adopted(c, input) ==
  LET added == [c EXCEPT !.providers = Appended(@, input)]
  IN  IF c.model = NoRef THEN SetActiveModel(added, <<input.provider, input.name>>) ELSE added

\* writeSettingsAtomic renames the file.
SaveSettings(p) ==
  /\ adding[p] # Idle
  /\ settings' = adding[p].document
  /\ conf' = [conf EXCEPT ![p] = Adopted(@, adding[p].input)]
  /\ upstream' = [upstream EXCEPT ![p] = IF conf[p].model = NoRef THEN conf'[p].conn ELSE @]
  /\ adding' = [adding EXCEPT ![p] = Idle]
  /\ saves' = saves + 1
  /\ UNCHANGED env

\* A file operation fails; the temporary file is removed.
SaveFails(p) ==
  /\ adding[p] # Idle
  /\ adding' = [adding EXCEPT ![p] = Idle]
  /\ UNCHANGED <<settings, env, conf, upstream, saves>>

\* SwitchModel: not written to the file.
SwitchModel(p, ref) ==
  /\ conf[p] # Down /\ adding[p] = Idle
  /\ ref \in Refs(conf[p].providers)
  /\ conf' = [conf EXCEPT ![p] = SetActiveModel(@, ref)]
  /\ upstream' = [upstream EXCEPT ![p] = conf'[p].conn]
  /\ UNCHANGED <<settings, env, adding, saves>>

\* The process ends, or dies before or after the renaming of an addition.
Stop(p) ==
  /\ conf[p] # Down
  /\ \/ UNCHANGED <<settings, saves>>
     \/ adding[p] # Idle /\ settings' = adding[p].document /\ saves' = saves + 1
  /\ conf' = [conf EXCEPT ![p] = Down]
  /\ upstream' = [upstream EXCEPT ![p] = NoConn]
  /\ adding' = [adding EXCEPT ![p] = Idle]
  /\ UNCHANGED env

Next ==
  \E p \in Processes :
    \/ Start(p) \/ SaveSettings(p) \/ SaveFails(p) \/ Stop(p)
    \/ \E input \in Inputs : ReadSettings(p, input)
    \/ conf[p] # Down /\ \E ref \in Refs(conf[p].providers) : SwitchModel(p, ref)

Spec == Init /\ [][Next]_vars

-----------------------------------------------------------------------------
(* Properties.                                                             *)

Running == {p \in Processes : conf[p] # Down}

\* A process with models has an active one, which its clients and its router
\* are built for.
ActiveIsServed ==
  \A p \in Running :
    /\ conf[p].providers # <<>> <=> conf[p].model # NoRef
    /\ upstream[p] = conf[p].conn
    /\ conf[p].model # NoRef => conf[p].conn = Resolve(conf[p], conf[p].model).conn

\* However models were added and switched to, a process whose catalog is the
\* one of the file is configured as one that starts now with its active model.
\* An environment that replaces single values of the compaction model is the
\* exception: the others stay those of the main model of the start.
AsIfStarted ==
  env.compaction \in {{}, Values} =>
    \A p \in Running :
      conf[p].providers = CatalogOf(settings) =>
        conf[p] = Derived(settings, conf[p].model)

\* A pair of numbers set together, and for a compaction model that has only them a
\* pair that fits.
OverridesAgree ==
  LET own(key, global) == IF IsSet(key) \/ Setting(settings, key) # 0
                            THEN Setting(settings, key) ELSE Setting(settings, global)
  IN  /\ IsSet("window") <=> IsSet("output")
      /\ IsSet("compactionWindow") <=> IsSet("compactionOutput")
      /\ "name" \in env.compaction \/ IsSet("compactionWindow") =>
           Fits(own("compactionWindow", "window"), own("compactionOutput", "output"))

\* What a process could start with, it can start with after every addition, of
\* its own or of others, finished or not.  There are three exceptions, each of numbers
\* that are first looked at when there is a main model.  The environment sets one of
\* the main model's two numbers: OPENAI_MAX_OUTPUT_TOKENS=5000 bars the start with
\* an added model of 4096/1000 (config.go:517).  It sets one of the compaction
\* model's two.  Or it sets both, or names a compaction model, and the numbers that
\* this model has then do not fit each other.
KeepsLoading == Running # {} /\ OverridesAgree => Loads(settings)

\* A model leaves the file only when an addition is saved that read the file
\* before another one was saved.
EntriesKept ==
  [][\/ Refs(settings.providers) \subseteq Refs(settings'.providers)
     \/ \E p \in Processes : adding[p] # Idle /\ adding[p].read # settings]_settings

\* Once a first model was added in the browser, a restart needs no choice any
\* more: it finds the catalog and a model in it (config.go:462).
ComesUpAgain == Running # {} => Loads(settings)
=============================================================================
