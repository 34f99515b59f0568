----------- MODULE EnvSync -----------
(* Provisioner.Sync of pkg/env: at boot and on every reload it writes *)
(* settings, rules, MCP servers, skills and hooks into the home of the CLI *)
(* and into the home of each agent runtime.  It reads clones that a git *)
(* pull rewrites meanwhile, any of its file operations may fail and the *)
(* process may end between two of them. *)
(*  *)
(* A source is a directory of rules or a SKILL.md: the version it was *)
(* pulled at; 0 without any file, Torn with one that a pull has truncated *)
(* and not yet written, Half with one unlinked.  Compiled rules are what *)
(* was read of aerial's common directory, the user's and the target's own. *)
(* The copy of the rules in config/rules, settings.json and the hooks are *)
(* left out. *)
EXTENDS Naturals, Sequences, FiniteSets

CONSTANTS
    TargetOrder,    \* allRuntimeTargets, "discord" among them
    Skills,         \* names of skills
    SkillCategory,  \* the directory of each: "common" or a target
    Servers,        \* names of MCP servers that need credentials
    ServerPlans,    \* what mcp_servers may list: a set of names per category
    Sessions,       \* names of conversations
    PullOrder,      \* the order in which pulls write the sources
    EnvBudgets      \* bounds: pulls, syncs, crashes, faults, edits of the configuration

RuntimeTargets == {TargetOrder[i] : i \in 1..Len(TargetOrder)}

ASSUME EnvAssumption ==
    /\ "discord" \in RuntimeTargets
    /\ RuntimeTargets \cap {"base", "common", "user", "primary", "none"} = {}
    /\ SkillCategory \in [Skills -> {"common"} \cup RuntimeTargets]
    /\ TargetOrder \in Seq(RuntimeTargets)
    /\ \A i, j \in 1..Len(TargetOrder) : TargetOrder[i] = TargetOrder[j] => i = j
    /\ PullOrder \in Seq({"common", "user"} \cup RuntimeTargets \cup Skills)
    /\ ServerPlans \subseteq [{"base", "common"} \cup RuntimeTargets -> SUBSET Servers]
    /\ EnvBudgets \subseteq [pulls : Nat, syncs : Nat, crashes : Nat, faults : Nat, edits : Nat]

VARIABLES
    source,      \* the clones: rule directories and SKILL.md files
    pull,        \* the version a git pull is checking out, 0 for none
    servers,     \* mcp_servers of the published configuration
    sync,        \* the Sync in progress
    rules,       \* the rules directory of each home
    mcp,         \* the servers in the mcp_config.json of each home
    skills,      \* the skill links of each home
    installId,   \* installation_id
    replaced,    \* ids written over because reading them failed (a ghost)
    jetski,      \* the id inside jetski_state.pbtxt
    canonical,   \* the shared conversations
    runtimes,    \* conversations a home keeps in a directory of its own
    envBudget

envVars == <<source, pull, servers, sync, rules, mcp, skills, installId, replaced, jetski,
             canonical, runtimes, envBudget>>

Torn == 99
Half == 98
Missing == 0
HomeOrder == <<"primary">> \o TargetOrder
Homes == {"primary"} \cup RuntimeTargets
RuntimeTarget(h) == IF h = "primary" THEN "discord" ELSE h
RuleDirs == {"common", "user"} \cup RuntimeTargets
Files == RuleDirs \cup Skills
Categories == {"base", "common"} \cup RuntimeTargets
NoRules == [common |-> Missing, user |-> Missing, own |-> Missing]
NoSync ==
    [pc |-> "idle", at |-> 1, compiled |-> [t \in RuntimeTargets |-> NoRules], backup |-> NoRules,
     allowed |-> {}, quiet |-> TRUE, warned |-> FALSE, id |-> 0, slips |-> [h \in Homes |-> {}]]

EnvInit ==
    /\ source \in [Files -> {Missing, 1}] /\ \A f \in Files \ {"user"} : source[f] = 1
    /\ pull = 0
    /\ servers \in ServerPlans
    /\ sync = NoSync
    /\ rules = [h \in Homes |-> NoRules] /\ mcp = [h \in Homes |-> {}]
    /\ skills = [h \in Homes |-> {}] /\ installId = 0 /\ replaced = {} /\ jetski = 0
    /\ canonical = [s \in Sessions |-> "none"] /\ runtimes = [h \in Homes |-> {}]
    /\ envBudget \in EnvBudgets

SpendEnv(what) == envBudget[what] > 0 /\ envBudget' = [envBudget EXCEPT ![what] = @ - 1]
Faulted == SpendEnv("faults")

SyncOnly == UNCHANGED <<source, pull, servers, canonical, runtimes>>
SyncGoto(step) == sync' = [sync EXCEPT !.pc = step, !.at = 1]
\* Sync returns the first error: what comes after it is not done.
Abort == SyncGoto("failed")

--------------------
(* The clones and the configuration. *)

SourceMoved == sync' = [sync EXCEPT !.quiet = FALSE]
CloneOnly == UNCHANGED <<rules, mcp, skills, installId, replaced, jetski, canonical, runtimes>>

PullStarts ==
    /\ pull = 0 /\ SpendEnv("pulls")
    /\ pull' = envBudget.pulls + 1
    /\ SourceMoved /\ UNCHANGED <<source, servers>> /\ CloneOnly

\* Git writes one source after another: what comes before is whole by then.
PullTears(i) ==
    /\ pull # 0 /\ source[PullOrder[i]] \notin {pull, Torn, Missing, Half}
    /\ \E c \in {Torn, Missing} \cup (IF PullOrder[i] \in RuleDirs THEN {Half} ELSE {}) :
          source' = [f \in Files |-> IF f = PullOrder[i] THEN c
                                     ELSE IF f \in {PullOrder[k] : k \in 1..i - 1} THEN pull
                                     ELSE source[f]]
    /\ SourceMoved /\ UNCHANGED <<pull, servers, envBudget>> /\ CloneOnly

PullEnds ==
    /\ pull # 0 /\ pull' = 0
    /\ \E removed \in SUBSET (Skills \cup {"user"}) :
          source' = [f \in Files |-> IF f \in removed THEN Missing ELSE pull]
    /\ SourceMoved /\ UNCHANGED <<servers, envBudget>> /\ CloneOnly

\* A reload publishes another configuration; the Sync it runs comes after.
ConfigChanges ==
    /\ sync.pc = "idle" /\ SpendEnv("edits")
    /\ servers' \in ServerPlans
    /\ UNCHANGED <<source, pull, sync>> /\ CloneOnly

\* An agent found no link to the shared conversations in its home.
AgentKeepsConversation(h, s) ==
    /\ sync.pc = "idle" /\ s \notin runtimes[h] /\ SpendEnv("faults")
    /\ runtimes' = [runtimes EXCEPT ![h] = @ \cup {s}]
    /\ UNCHANGED <<source, pull, servers, sync, rules, mcp, skills, installId, replaced, jetski, canonical>>

Crash ==
    /\ sync.pc # "idle" /\ SpendEnv("crashes")
    /\ sync' = NoSync
    /\ UNCHANGED <<rules, mcp, skills, installId, replaced, jetski>> /\ SyncOnly

StartSync ==
    /\ sync.pc = "idle" /\ SpendEnv("syncs")
    /\ sync' = [NoSync EXCEPT !.pc = "id", !.quiet = (pull = 0)]
    /\ UNCHANGED <<rules, mcp, skills, installId, replaced, jetski>> /\ SyncOnly

--------------------
(* SyncSettings with OAuth: provisionOAuthState. *)

\* An id that can be read is kept.  Otherwise, also when reading it failed, a
\* new one is written over a file that os.WriteFile truncates first.  The
\* token is seeded before.
FreshId == 10 + envBudget.syncs
ReadInstallId ==
    /\ sync.pc = "id"
    /\ \/ /\ installId \notin {Missing, Torn}
          /\ sync' = [sync EXCEPT !.pc = "jetski", !.id = installId]
          /\ UNCHANGED <<installId, replaced, envBudget>>
       \/ /\ IF installId \in {Missing, Torn} THEN UNCHANGED envBudget ELSE Faulted
          /\ sync' = [sync EXCEPT !.pc = "idwrite", !.id = FreshId]
          /\ installId' = Torn /\ replaced' = replaced \cup {installId}
       \/ Faulted /\ Abort /\ UNCHANGED <<installId, replaced>>
    /\ UNCHANGED <<rules, mcp, skills, jetski>> /\ SyncOnly

WriteInstallId ==
    /\ sync.pc = "idwrite"
    /\ \/ installId' = sync.id /\ sync' = [sync EXCEPT !.pc = "jetski"] /\ UNCHANGED envBudget
       \/ Faulted /\ Abort /\ UNCHANGED installId
    /\ UNCHANGED <<rules, mcp, skills, replaced, jetski>> /\ SyncOnly

\* A state that cannot be read is written again.
SeedJetski ==
    /\ sync.pc = "jetski"
    /\ \/ jetski' = (IF jetski \in {Missing, Torn} THEN sync.id ELSE jetski)
          /\ SyncGoto("compile") /\ UNCHANGED envBudget
       \/ jetski' = sync.id /\ Faulted /\ SyncGoto("compile")
       \/ jetski \in {Missing, Torn} /\ jetski' = Torn /\ Faulted /\ Abort
    /\ UNCHANGED <<rules, mcp, skills, installId, replaced>> /\ SyncOnly

--------------------
(* SyncRules. *)

\* compileTargetRules, directory by directory: an empty file is a torn read
\* and ends the Sync, and so do two common directories without any file; one
\* of them, or a target, may have none of its own.
CompileCommon ==
    /\ sync.pc = "compile" /\ sync.at <= Len(TargetOrder)
    /\ IF source["common"] = Torn THEN Abort
       ELSE sync' = [sync EXCEPT !.pc = "user",
                                 !.compiled[TargetOrder[sync.at]].common = source["common"]]
    /\ UNCHANGED <<rules, mcp, skills, installId, replaced, jetski, envBudget>> /\ SyncOnly

CompileUser ==
    /\ sync.pc = "user"
    /\ LET t == TargetOrder[sync.at] IN
       IF source["user"] = Torn \/ {source["user"], sync.compiled[t].common} = {Missing} THEN Abort
       ELSE sync' = [sync EXCEPT !.pc = "own", !.compiled[t].user = source["user"]]
    /\ UNCHANGED <<rules, mcp, skills, installId, replaced, jetski, envBudget>> /\ SyncOnly

CompileOwn ==
    /\ sync.pc = "own"
    /\ LET t == TargetOrder[sync.at] IN
       IF source[t] = Torn THEN Abort
       ELSE sync' = [sync EXCEPT !.pc = "compile", !.at = @ + 1, !.compiled[t].own = source[t]]
    /\ UNCHANGED <<rules, mcp, skills, installId, replaced, jetski, envBudget>> /\ SyncOnly

Compiled ==
    /\ sync.pc = "compile" /\ sync.at > Len(TargetOrder) /\ SyncGoto("swap")
    /\ UNCHANGED <<rules, mcp, skills, installId, replaced, jetski, envBudget>> /\ SyncOnly

Home == HomeOrder[sync.at]
NextHome(step) == sync' = [sync EXCEPT !.at = @ + 1, !.pc = step]

\* A swap that fails ends the Sync for the primary home and is a warning for
\* a runtime, which keeps its old files.
SwapFails == IF Home = "primary" THEN Abort
             ELSE sync' = [sync EXCEPT !.at = @ + 1, !.pc = "swap", !.warned = TRUE]

\* atomicSwapRulesDir: staged beside it, the old directory is renamed away...
BackUpRules ==
    /\ sync.pc = "swap" /\ sync.at <= Len(HomeOrder)
    /\ \/ rules' = [rules EXCEPT ![Home] = NoRules]
          /\ sync' = [sync EXCEPT !.pc = "move", !.backup = rules[Home]]
          /\ UNCHANGED envBudget
       \/ Faulted /\ SwapFails /\ UNCHANGED rules
    /\ UNCHANGED <<mcp, skills, installId, replaced, jetski>> /\ SyncOnly

\* ... and the new one renamed in, or the old one back if that works.
RollbackFails ==
    envBudget.faults > 1 /\ envBudget' = [envBudget EXCEPT !.faults = @ - 2]
MoveRules ==
    /\ sync.pc = "move"
    /\ \/ rules' = [rules EXCEPT ![Home] = sync.compiled[RuntimeTarget(Home)]]
          /\ sync' = [sync EXCEPT !.pc = "link"] /\ UNCHANGED envBudget
       \/ Faulted /\ SwapFails /\ rules' = [rules EXCEPT ![Home] = sync.backup]
       \/ RollbackFails /\ SwapFails /\ UNCHANGED rules
    /\ UNCHANGED <<mcp, skills, installId, replaced, jetski>> /\ SyncOnly

\* linkSharedSessionStorage: conversations of a home's own directory move to
\* the shared one unless it has one of that name; a rename that fails is
\* ignored, and the directory is removed with what is left in it.
LinkSharedStorage ==
    /\ sync.pc = "link" /\ NextHome("swap")
    /\ \E left \in SUBSET runtimes[Home] :
        /\ IF left = {} THEN UNCHANGED envBudget ELSE Faulted
        /\ canonical' = [s \in Sessions |->
               IF s \in runtimes[Home] \ left /\ canonical[s] = "none" THEN Home ELSE canonical[s]]
    /\ runtimes' = [runtimes EXCEPT ![Home] = {}]
    /\ UNCHANGED <<source, pull, servers, rules, mcp, skills, installId, replaced, jetski>>

Swapped ==
    /\ sync.pc = "swap" /\ sync.at > Len(HomeOrder) /\ SyncGoto("mcp")
    /\ UNCHANGED <<rules, mcp, skills, installId, replaced, jetski, envBudget>> /\ SyncOnly

--------------------
(* SyncMCP, SyncSkills, SyncHooks. *)

\* LoadTargetMCPConfig, of the servers SanitizeMCPServersForDisk turns into
\* paths of the loopback proxy.
TargetServers(t) ==
    IF t = "ephemeral" THEN servers[t]
    ELSE servers["common"] \cup servers[t] \cup (IF t = "discord" THEN servers["base"] ELSE {})

\* ResolveUpstreamMCPServer: the servers the proxy finds an upstream for.
Upstream == UNION {servers[c] : c \in Categories}

\* EnsureTargetMcpConfig writes a temporary file and renames it.
WriteMCP ==
    /\ sync.pc = "mcp" /\ sync.at <= Len(HomeOrder)
    /\ \/ mcp' = [mcp EXCEPT ![Home] = TargetServers(RuntimeTarget(Home))]
          /\ NextHome("mcp") /\ UNCHANGED envBudget
       \/ Faulted /\ Abort /\ UNCHANGED mcp
    /\ UNCHANGED <<rules, skills, installId, replaced, jetski>> /\ SyncOnly

MCPWritten ==
    /\ sync.pc = "mcp" /\ sync.at > Len(HomeOrder) /\ SyncGoto("skills")
    /\ UNCHANGED <<rules, mcp, skills, installId, replaced, jetski, envBudget>> /\ SyncOnly

\* collectValidSkills: those of the target's categories whose SKILL.md has
\* content.
SkillsFor(t) ==
    {s \in Skills : /\ SkillCategory[s] \in {t} \cup (IF t = "ephemeral" THEN {} ELSE {"common"})
                    /\ source[s] \notin {Torn, Missing}}

\* reconcileTargetSkills: links that are not allowed go first.  A SKILL.md
\* that cannot be looked at counts as none, and a removal that fails is ignored.
PruneSkills ==
    /\ sync.pc = "skills" /\ sync.at <= Len(HomeOrder)
    /\ LET found == SkillsFor(RuntimeTarget(Home)) IN
       \E unseen \in SUBSET found : \E stuck \in SUBSET (skills[Home] \ (found \ unseen)) :
          /\ IF unseen \cup stuck = {} THEN UNCHANGED envBudget ELSE Faulted
          /\ skills' = [skills EXCEPT ![Home] = (@ \cap (found \ unseen)) \cup stuck]
          /\ sync' = [sync EXCEPT !.pc = "relink", !.allowed = found \ unseen,
                                  !.slips[Home] = unseen \cup stuck]
    /\ UNCHANGED <<rules, mcp, installId, replaced, jetski>> /\ SyncOnly

\* linkSkillTarget: a link is replaced by a rename; one that fails is a warning.
LinkSkills ==
    /\ sync.pc = "relink"
    /\ \/ /\ skills' = [skills EXCEPT ![Home] = @ \cup sync.allowed]
          /\ NextHome("skills") /\ UNCHANGED envBudget
       \/ /\ Faulted /\ \E s \in sync.allowed \ skills[Home] :
                skills' = [skills EXCEPT ![Home] = @ \cup (sync.allowed \ {s})]
          /\ sync' = [sync EXCEPT !.at = @ + 1, !.pc = "skills", !.warned = TRUE]
    /\ UNCHANGED <<rules, mcp, installId, replaced, jetski>> /\ SyncOnly

\* SyncHooks has no error to return; hooks.json has a default.
SkillsLinked ==
    /\ sync.pc = "skills" /\ sync.at > Len(HomeOrder) /\ SyncGoto("done")
    /\ UNCHANGED <<rules, mcp, skills, installId, replaced, jetski, envBudget>> /\ SyncOnly

SyncReturns ==
    /\ sync.pc \in {"done", "failed"} /\ sync' = NoSync
    /\ UNCHANGED <<rules, mcp, skills, installId, replaced, jetski, envBudget>> /\ SyncOnly

EnvNext ==
    \/ PullStarts \/ PullEnds \/ ConfigChanges \/ Crash \/ StartSync
    \/ \E i \in 1..Len(PullOrder) : PullTears(i)
    \/ \E h \in Homes, s \in Sessions : AgentKeepsConversation(h, s)
    \/ ReadInstallId \/ WriteInstallId \/ SeedJetski
    \/ CompileCommon \/ CompileUser \/ CompileOwn \/ Compiled
    \/ BackUpRules \/ MoveRules \/ LinkSharedStorage \/ Swapped
    \/ WriteMCP \/ MCPWritten \/ PruneSkills \/ LinkSkills \/ SkillsLinked \/ SyncReturns

EnvSpec == EnvInit /\ [][EnvNext]_envVars

--------------------

\* Type correctness of the homes, the clones and the Sync (env.Provisioner).
EnvTypeOK ==
    /\ source \in [Files -> Nat] /\ pull \in Nat
    /\ servers \in [Categories -> SUBSET Servers]
    /\ sync.at \in 1..Len(HomeOrder) + 1 /\ sync.allowed \subseteq Skills
    /\ \A h \in Homes : rules[h].common \in Nat /\ rules[h].user \in Nat /\ rules[h].own \in Nat
    /\ mcp \in [Homes -> SUBSET Servers] /\ skills \in [Homes -> SUBSET Skills]
    /\ installId \in Nat /\ replaced \subseteq Nat /\ jetski \in Nat
    /\ canonical \in [Sessions -> {"none"} \cup Homes]
    /\ runtimes \in [Homes -> SUBSET Sessions]

\* An agent never finds rules with a file that a pull had truncated, nor rules
\* without any common ones: the guardrails of compileTargetRules, and the swap
\* of whole directories.  A file that a pull had unlinked may be missing.
RulesAreWhole ==
    \A h \in Homes : rules[h] # NoRules =>
        /\ Torn \notin {rules[h].common, rules[h].user, rules[h].own}
        /\ {rules[h].common, rules[h].user} # {Missing}

\* Rules that were in place are given up only for others: a swap that fails
\* puts them back, unless the process ends in it or the way back fails too.
AtMove(h) == sync.pc = "move" /\ Home = h
GivesRulesBack ==
    \A h \in Homes : AtMove(h) /\ ~AtMove(h)' /\ sync.backup # NoRules =>
       rules'[h] # NoRules \/ sync' = NoSync \/ envBudget.faults - envBudget'.faults = 2
RulesAreGivenBack == [][GivesRulesBack]_envVars

\* A Sync that returns without error or warning, and during which no clone
\* changed, leaves every home with the rules, the servers and the skills of
\* its own target; only of skills that could not be looked at or removed
\* nothing is said.
CleanSyncIsComplete ==
    sync.pc = "done" /\ sync.quiet /\ ~sync.warned =>
        \A h \in Homes :
            /\ rules[h] = [common |-> source["common"], user |-> source["user"],
                           own |-> source[RuntimeTarget(h)]]
            /\ mcp[h] = TargetServers(RuntimeTarget(h))
            /\ skills[h] \ sync.slips[h] = SkillsFor(RuntimeTarget(h)) \ sync.slips[h]

\* After a Sync that wrote the servers, the loopback proxy finds an upstream
\* for every server a home sends to it: the two lists are built in two places
\* of mcp.go.
ProxyKnowsServers ==
    sync.pc \in {"skills", "relink", "done"} => \A h \in Homes : mcp[h] \subseteq Upstream

\* jetski_state.pbtxt names the installation id, whatever was interrupted
\* before, or one that was written over because it could not be read.
JetskiNamesInstallation ==
    jetski \notin {Missing, Torn} => jetski = installId \/ jetski \in replaced

\* A conversation in the shared storage is not replaced by what a home kept
\* under the same name, and what a home kept is there before the home's own
\* directory goes, unless a rename failed.
ConversationsStay ==
    \A s \in Sessions :
        /\ canonical[s] # "none" => canonical'[s] = canonical[s]
        /\ \A h \in Homes : s \in runtimes[h] \ runtimes'[h] =>
              canonical'[s] # "none" \/ envBudget'.faults < envBudget.faults
SharedConversationsStay == [][ConversationsStay]_envVars

\* The agents' homes are never half synchronised as far as an agent can see, and a
\* clean Sync makes them complete.
EnvIsSound ==
    /\ EnvTypeOK /\ RulesAreWhole /\ CleanSyncIsComplete /\ ProxyKnowsServers
    /\ JetskiNamesInstallation
====================
