----------- MODULE ConfigReload -----------
(* Loading and hot-reloading eri's configuration: pkg/config and the *)
(* SIGHUP loop of main.go.  Nomad renders the first search path and the *)
(* shared secrets and signals the process after each; the other paths are *)
(* clones a git pull rewrites without a signal.  A reload publishes the *)
(* new ConfigData before it fills in its directories, registers its *)
(* secrets for redaction, provisions the runtime homes (EnvSync) and marks *)
(* the agents dirty. *)
(*  *)
(* A configuration is a version number, with whether it names its own *)
(* directories; 0 is the built-in default, which no file holds.  A secret *)
(* is the version of the file it comes from, 0 when none could be read; a *)
(* file has tokens that collectCoreTokens collects and a password that it *)
(* does not. *)
EXTENDS Naturals, FiniteSets

CONSTANTS
    NPaths,            \* the length of ConfigSearchPaths
    Mistakes,          \* what an operator saves by mistake
    Slots,             \* agent processes
    ReloadBudgets      \* bounds: edits, kills, failures of Sync and of reads, agents started

\* Not YAML; an mcp_servers category that is none; no channels.default; a
\* policy or hook of a channel with a value that is none.
ASSUME ReloadAssumption ==
    /\ NPaths \in Nat \ {0} /\ Mistakes \subseteq {"syntax", "category", "no default", "policy", "hook"}
    /\ ReloadBudgets \subseteq [edits : Nat, kills : Nat, faults : Nat, agents : Nat]

VARIABLES
    files,        \* what each search path holds
    secretsFile,  \* /secrets/shared-secrets.json
    unsignalled,  \* Nomad has rendered a template and not yet signalled
    hup,          \* signals in the SIGHUP channel
    process,      \* "down", "booting" (no SIGHUP handler yet) or "up"
    published,    \* activeGlobalConfig
    redacted,     \* the secrets the sanitizer knows: <<which, version>>
    passedOver,   \* versions registered from another reading of the file (a ghost)
    loader,       \* the load in progress, at boot or by executeConfigReload
    homes,        \* the configuration the runtime homes were provisioned from
    poolModel,    \* the configuration the process pools take the model from
    agents,       \* the agent process of each slot
    reloadBudget

reloadVars == <<files, secretsFile, unsignalled, hup, process, published, redacted, passedOver, loader,
                homes, poolModel, agents, reloadBudget>>

Absent == [kind |-> "absent", v |-> 0, dirs |-> FALSE]
Faulty == {[kind |-> k, v |-> 0, dirs |-> FALSE] : k \in Mistakes}
Snapshot(v, dirs, secret) == [v |-> v, dirs |-> dirs, secret |-> secret]
Unloaded == Snapshot(0, FALSE, 0)
Good(v, dirs) == [kind |-> "good", v |-> v, dirs |-> dirs]
NoLoad == [pc |-> "idle", at |-> 0, found |-> Absent, secret |-> 0]
NoAgent == [state |-> "none", conf |-> 0, home |-> 0, dirty |-> FALSE, overtaken |-> FALSE]

ReloadInit ==
    /\ files = [p \in 1..NPaths |-> IF p = 1 THEN Good(9, FALSE) ELSE Absent]
    /\ secretsFile = 9 /\ unsignalled = FALSE /\ hup = 0
    /\ process = "down" /\ published = Unloaded
    /\ redacted = {} /\ passedOver = {} /\ loader = NoLoad /\ homes = 0 /\ poolModel = 0
    /\ agents = [a \in Slots |-> NoAgent]
    /\ reloadBudget \in ReloadBudgets

SpendReload(what) ==
    reloadBudget[what] > 0 /\ reloadBudget' = [reloadBudget EXCEPT ![what] = @ - 1]

\* Every edit writes a version of its own.
NextVersion == reloadBudget.edits + 1

--------------------
(* Outside the process: Nomad and the git pull. *)

\* The template of /local/config.yaml: the content an operator saved.
RenderConfig ==
    /\ SpendReload("edits")
    /\ \E c \in {Absent} \cup Faulty \cup {Good(NextVersion, d) : d \in BOOLEAN} :
          files[1] # c /\ files' = [files EXCEPT ![1] = c]
    /\ unsignalled' = TRUE
    /\ UNCHANGED <<secretsFile, hup, process, published, redacted, passedOver, loader, homes, poolModel, agents>>

\* 0: the variable with the secrets is gone, "{}" is rendered.
RenderSecrets ==
    /\ SpendReload("edits")
    /\ secretsFile' \in {NextVersion, 0} /\ unsignalled' = TRUE
    /\ UNCHANGED <<files, hup, process, published, redacted, passedOver, loader, homes, poolModel, agents>>

GitPull ==
    /\ SpendReload("edits")
    /\ \E p \in 2..NPaths, c \in {Absent, Good(NextVersion, TRUE)} \cup Faulty :
          files[p] # c /\ files' = [files EXCEPT ![p] = c]
    /\ UNCHANGED <<secretsFile, unsignalled, hup, process, published, redacted, passedOver, loader, homes,
                   poolModel, agents>>

Died ==
    /\ process' = "down" /\ hup' = 0 /\ loader' = NoLoad
    /\ published' = Unloaded /\ redacted' = {} /\ passedOver' = {}
    /\ poolModel' = 0 /\ agents' = [a \in Slots |-> NoAgent]

\* signal.Notify drops a signal its channel has no room for.  Before Notify
\* the default action of SIGHUP ends the process; Nomad restarts it.
NomadSignals ==
    /\ unsignalled /\ unsignalled' = FALSE
    /\ \/ process = "up" /\ hup' = 1
          /\ UNCHANGED <<process, published, redacted, passedOver, loader, poolModel, agents>>
       \/ process = "booting" /\ Died
       \/ process = "down"
          /\ UNCHANGED <<hup, process, published, redacted, passedOver, loader, poolModel, agents>>
    /\ UNCHANGED <<files, secretsFile, homes, reloadBudget>>

Killed ==
    /\ process # "down" /\ SpendReload("kills") /\ Died
    /\ UNCHANGED <<files, secretsFile, unsignalled, homes>>

--------------------
(* LoadConfigFromPaths, at boot and on every reload. *)

Unchanged == UNCHANGED <<files, secretsFile, unsignalled, homes, poolModel, agents>>

StartProcess ==
    /\ process = "down" /\ process' = "booting"
    /\ loader' = [NoLoad EXCEPT !.pc = "wait"]
    /\ UNCHANGED <<hup, published, redacted, passedOver, reloadBudget>> /\ Unchanged

\* startSIGHUPReloadLoop: one reload at a time, the next signal waits in the
\* channel.
TakeSignal ==
    /\ process = "up" /\ loader.pc = "idle" /\ hup = 1
    /\ hup' = 0 /\ loader' = [NoLoad EXCEPT !.pc = "wait"]
    /\ UNCHANGED <<process, published, redacted, passedOver, reloadBudget>> /\ Unchanged

\* LoadSharedSecrets: a file that cannot be read or parsed is an empty map.
SharedSecrets(s) ==
    \/ s = secretsFile /\ UNCHANGED reloadBudget
    \/ s = 0 /\ SpendReload("faults")

\* waitForColdBootConfig: until some path has a file, at most five seconds;
\* the shared secrets are read next.
ColdBootWaited ==
    /\ loader.pc = "wait"
    /\ \E s \in {secretsFile, 0} :
          SharedSecrets(s) /\ loader' = [loader EXCEPT !.pc = "read", !.at = 1, !.secret = s]
    /\ UNCHANGED <<hup, process, published, redacted, passedOver>> /\ Unchanged

\* UnmarshalYAML, and validateChannels on what it returns.
Parses(c) == c.kind \notin {"syntax", "category"}
Validates(c) == c.kind \notin {"no default", "policy", "hook"}

\* One round of LoadConfigFromLookup: an absent or empty file is skipped, one
\* that does not parse or validate is remembered, the first good one is taken.
ReadPath ==
    /\ loader.pc = "read" /\ loader.at <= NPaths
    /\ LET c == files[loader.at] IN
       loader' = IF c.kind # "absent" /\ Parses(c) /\ Validates(c)
                 THEN [loader EXCEPT !.pc = "publish", !.found = c]
                 ELSE [loader EXCEPT !.at = @ + 1]
    /\ UNCHANGED <<hup, process, published, redacted, passedOver, reloadBudget>> /\ Unchanged

\* No path was usable.  A reload posts an alert and keeps what is published;
\* at boot main ends with log.Fatalf.
LoadFails ==
    /\ loader.pc = "read" /\ loader.at > NPaths
    /\ \/ process = "up" /\ loader' = NoLoad
          /\ UNCHANGED <<hup, process, published, redacted, passedOver, poolModel, agents>>
       \/ process = "booting" /\ Died
    /\ UNCHANGED <<files, secretsFile, unsignalled, homes, reloadBudget>>

\* applyEnvironmentOverrides takes the secrets read with the file, and
\* activeGlobalConfig.update publishes a copy.
Publish ==
    /\ loader.pc = "publish"
    /\ published' = Snapshot(loader.found.v, loader.found.dirs, loader.secret)
    /\ loader' = [loader EXCEPT !.pc = "defaults"]
    /\ UNCHANGED <<hup, process, redacted, passedOver, reloadBudget>> /\ Unchanged

\* ensureConfigDefaults (main does the same at boot): written into the
\* published snapshot, then published again.
EnsureConfigDefaults ==
    /\ loader.pc = "defaults"
    /\ published' = [published EXCEPT !.dirs = TRUE]
    /\ loader' = [loader EXCEPT !.pc = "register"]
    /\ UNCHANGED <<hup, process, redacted, passedOver, reloadBudget>> /\ Unchanged

\* validateBrainStartupConfig: a boot without secrets may find no database.
StartupFails ==
    /\ loader.pc = "register" /\ process = "booting" /\ published.secret = 0 /\ Died
    /\ UNCHANGED <<files, secretsFile, unsignalled, homes, reloadBudget>>

\* collectCoreTokens leaves out OpenObservePassword.
CoreTokens(v) == {"token"} \X ({v} \ {0})
SharedTokens(v) == {"token", "password"} \X ({v} \ {0})

\* RegisterConfigTokens: the tokens of the configuration and all that the
\* shared file holds, read again.  The sanitizer never forgets one.
RegisterConfigTokens ==
    /\ loader.pc = "register"
    /\ \E s \in {secretsFile, 0} :
          /\ SharedSecrets(s)
          /\ redacted' = redacted \cup CoreTokens(published.secret) \cup SharedTokens(s)
          /\ passedOver' = passedOver \cup ({published.secret} \ {s})
    /\ loader' = [loader EXCEPT !.pc = "sync"]
    /\ UNCHANGED <<hup, process, published>> /\ Unchanged

--------------------
(* executeConfigReload after a successful load. *)

\* provisioner.Sync: an error is logged and the reload goes on; boot goes on
\* as well (InitializeBrainEnvironment).
ProvisionerSync ==
    /\ loader.pc = "sync"
    /\ \/ homes' = published.v /\ UNCHANGED reloadBudget
       \/ SpendReload("faults") /\ UNCHANGED homes
    /\ loader' = [loader EXCEPT !.pc = IF process = "up" THEN "models" ELSE "pools"]
    /\ UNCHANGED <<files, secretsFile, unsignalled, hup, process, published, redacted, passedOver,
                   poolModel, agents>>

\* The rest of boot: the pools are built from the configuration and the
\* SIGHUP handler is installed.
BootEnds ==
    /\ loader.pc = "pools"
    /\ poolModel' = published.v /\ process' = "up" /\ loader' = NoLoad
    /\ UNCHANGED <<files, secretsFile, unsignalled, hup, published, redacted, passedOver, homes, agents,
                   reloadBudget>>

\* reconcilePoolModelsAndVoiceTargets and UpdateModel of the ephemeral pool.
UpdateModels ==
    /\ loader.pc = "models"
    /\ poolModel' = published.v /\ loader' = [loader EXCEPT !.pc = "dirty"]
    /\ UNCHANGED <<files, secretsFile, unsignalled, hup, process, published, redacted, passedOver, homes,
                   agents, reloadBudget>>

\* MarkDirty of every pool: an idle agent is evicted, a busy one rotates when
\* its turn ends.  One still being created is in no pool yet and stays clean.
MarkedDirty(a) ==
    CASE agents[a].state = "idle" -> NoAgent
      [] agents[a].state = "busy" -> [agents[a] EXCEPT !.dirty = TRUE]
      [] agents[a].state = "starting" -> [agents[a] EXCEPT !.overtaken = TRUE]
      [] OTHER -> agents[a]
MarkIdleOnly ==
    /\ loader.pc = "dirty"
    /\ agents' = [a \in Slots |-> IF agents[a].state = "busy" THEN agents[a] ELSE MarkedDirty(a)]
    /\ loader' = NoLoad
    /\ UNCHANGED <<files, secretsFile, unsignalled, hup, process, published, redacted, passedOver, homes,
                   poolModel, reloadBudget>>
MarkDirtyAgents ==
    /\ loader.pc = "dirty"
    /\ agents' = [a \in Slots |-> MarkedDirty(a)]
    /\ loader' = NoLoad
    /\ UNCHANGED <<files, secretsFile, unsignalled, hup, process, published, redacted, passedOver, homes,
                   poolModel, reloadBudget>>

--------------------
(* Agents: ProcessPool has their life in detail; here only what each was *)
(* started from. *)

AgentOnly == UNCHANGED <<files, secretsFile, unsignalled, hup, process, published, redacted, passedOver,
                         loader, homes, poolModel>>

StartAgent(a) ==
    /\ process = "up" /\ agents[a].state = "none" /\ SpendReload("agents")
    /\ agents' = [agents EXCEPT ![a] = [NoAgent EXCEPT !.state = "starting", !.conf = poolModel,
                                                       !.home = homes]]
    /\ AgentOnly

AgentTurns(a) ==
    /\ \/ agents[a].state \in {"starting", "idle"}
          /\ agents' = [agents EXCEPT ![a].state = "busy"]
       \/ agents[a].state = "busy"
          /\ agents' = [agents EXCEPT ![a] = IF agents[a].dirty THEN NoAgent
                                             ELSE [agents[a] EXCEPT !.state = "idle"]]
    /\ UNCHANGED reloadBudget /\ AgentOnly

ConfigWork ==
    \/ NomadSignals \/ StartProcess \/ TakeSignal \/ ColdBootWaited \/ ReadPath \/ LoadFails
    \/ Publish \/ EnsureConfigDefaults \/ StartupFails \/ RegisterConfigTokens \/ ProvisionerSync \/ BootEnds
    \/ UpdateModels \/ MarkDirtyAgents

ReloadNext ==
    \/ RenderConfig \/ RenderSecrets \/ GitPull \/ Killed \/ ConfigWork
    \/ \E a \in Slots : StartAgent(a) \/ AgentTurns(a)

\* Nomad signals what it rendered and restarts a task that ended; the loop
\* and the load run on.
ReloadSpec == ReloadInit /\ [][ReloadNext]_reloadVars /\ WF_reloadVars(ConfigWork)

--------------------

\* Type correctness of the configuration store, its loader and the agents
\* (config.Config, reloadConfigOptions).
ReloadTypeOK ==
    /\ \A p \in 1..NPaths : files[p].kind \in {"absent", "good"} \cup Mistakes /\ files[p].v \in Nat
    /\ secretsFile \in Nat /\ unsignalled \in BOOLEAN /\ hup \in 0..1
    /\ process \in {"down", "booting", "up"}
    /\ published.v \in Nat /\ published.dirs \in BOOLEAN /\ published.secret \in Nat
    /\ redacted \subseteq {"token", "password"} \X Nat /\ passedOver \subseteq Nat /\ homes \in Nat /\ poolModel \in Nat
    /\ loader.pc \in {"idle", "wait", "read", "publish", "defaults", "register", "sync", "pools",
                      "models", "dirty"}
    /\ loader.at \in 0..NPaths + 1
    /\ \A a \in Slots : agents[a].state \in {"none", "starting", "idle", "busy"}

\* A process that takes work always has a configuration that was valid when
\* it was read, whatever was saved since: a reload that finds no valid file
\* changes nothing (executeConfigReload's return on error).
RunsOnValidConfig ==
    (process = "up") => published.v # 0 /\ (loader.pc # "defaults" => published.dirs)

\* Past RegisterConfigTokens every collected token of the published
\* configuration is known to the sanitizer, also when the file was rotated or
\* became unreadable between the load and the registration.  Only then is
\* the password, which is not collected, left in the clear.
SecretsAreRedacted ==
    process = "up" /\ loader.pc \in {"idle", "sync", "models", "dirty"} =>
        /\ CoreTokens(published.secret) \subseteq redacted
        /\ published.secret \in passedOver \/ SharedTokens(published.secret) \subseteq redacted

\* While no reload runs, an agent that is neither dirty nor was being created
\* when its pool was marked was started with the published model and the
\* current homes: MarkDirty comes after Sync and after the models, so that
\* what it replaces comes up new.
CleanAgentsAreCurrent ==
    loader.pc = "idle" =>
        \A a \in Slots : agents[a].state # "none" /\ ~agents[a].dirty /\ ~agents[a].overtaken =>
            agents[a].conf = poolModel /\ poolModel = published.v /\ agents[a].home = homes

\* Once edits stop, a valid configuration that Nomad rendered is in the end
\* the published one: a signal that is dropped because one waits, one that
\* arrives in the middle of a reload and one that ends a booting process lose
\* nothing.
EditSaved == files[1].kind = "good"
EditPublished == published.v = files[1].v \/ files[1].kind # "good"
EditsArePublished == EditSaved ~> EditPublished

\* A reload leaves a valid configuration, registered secrets and agents that run
\* with it, at whatever step edits, signals and turns meet it.
ConfigIsSound ==
    /\ ReloadTypeOK /\ RunsOnValidConfig /\ SecretsAreRedacted /\ CleanAgentsAreCurrent
====================
