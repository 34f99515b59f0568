----------- MODULE NomadVars -----------
(* hangar: service configurations as Nomad variables.  Every push to the *)
(* configuration repository and every full sync goes through the mapped *)
(* variables in order and puts those whose file changed; a cache of what *)
(* was pushed saves the calls.  The callers run side by side. *)
EXTENDS Naturals, Sequences, FiniteSets

CONSTANTS VarOrder,     \* the variables, hangar's own last
          VarCallers,   \* pushes and full syncs under way
          VarBudgets    \* bounds: commits and failed commands

VARIABLES
    confRemote,  \* [variable -> content] at GitHub, with the commit it came with
    confDisk,    \* checked out
    confHead,    \* the commits fetched so far
    nomadVar,    \* [variable -> content] in Nomad
    pushedCache, \* lastPushedConfig: content, and commit when there was one
    caller,      \* [caller -> where it is]
    varBudget,
    varDoubt     \* ghost: variables left open by a command that failed, a bad file,
                 \* a guess, or a put of what the file no longer holds

varVars == <<confRemote, confDisk, confHead, nomadVar, pushedCache, caller, varBudget, varDoubt>>

NomadVarNames == {VarOrder[i] : i \in DOMAIN VarOrder}

ASSUME VarAssumption ==
  VarOrder \in Seq(NomadVarNames) /\ VarBudgets \subseteq [commits : Nat, faults : Nat]

NoCommit == 0
NeverPushed == [hash |-> 0, commit |-> NoCommit]
AtRest == [pc |-> "idle", at |-> 0, gated |-> FALSE, changed |-> {}, commit |-> NoCommit,
           hash |-> 0, rev |-> 0]
Content(n, good) == [rev |-> n, good |-> good]

VarTypeOK ==
    /\ \A v \in NomadVarNames : confDisk[v].rev <= confHead /\ nomadVar[v] <= confHead
    /\ \A p \in VarCallers : caller[p].pc # "idle" => caller[p].at \in 1..Len(VarOrder) + 1

VarInit ==
    /\ confRemote = [v \in NomadVarNames |-> Content(1, TRUE)]
    /\ confDisk = confRemote /\ confHead = 1
    /\ nomadVar = [v \in NomadVarNames |-> 0]
    /\ pushedCache = [v \in NomadVarNames |-> NeverPushed]
    /\ caller = [p \in VarCallers |-> AtRest]
    /\ varBudget \in VarBudgets
    /\ varDoubt = NomadVarNames       \* until the sync at start-up

\* A commit changes some of the files; one may be no valid YAML.
ConfigCommit(vs) ==
    /\ confHead <= varBudget.commits
    /\ confRemote = confDisk \/ \A v \in vs : confRemote[v] = confDisk[v]
    /\ \E good \in BOOLEAN :
         confRemote' = [v \in NomadVarNames |->
                           IF v \in vs THEN Content(confHead + 1, good) ELSE confRemote[v]]
    /\ UNCHANGED <<confDisk, confHead, nomadVar, pushedCache, caller, varBudget, varDoubt>>

\* SyncRepo: the checkout follows GitHub.  Nothing may be new, when another caller
\* has fetched it before.
Fetched == {v \in NomadVarNames : confRemote[v] # confDisk[v]}
FetchedHead == IF Fetched = {} THEN confHead ELSE confHead + 1
Fetch == confDisk' = confRemote /\ confHead' = FetchedHead

VarFault == varBudget.faults > 0 /\ varBudget' = [varBudget EXCEPT !.faults = @ - 1]

\* ExecuteGitPushEvent of the configuration repository: only what the pull
\* changed is put, and the entries say which commit it was.  When the files
\* cannot be listed the handler answers an error and puts nothing.
ConfigPush(p) ==
    /\ caller[p].pc = "idle" /\ Fetch
    /\ \/ /\ caller' = [caller EXCEPT ![p] = [AtRest EXCEPT !.pc = "hash", !.at = 1, !.gated = TRUE,
                                               !.changed = Fetched, !.commit = FetchedHead]]
          /\ varDoubt' = varDoubt \cup {v \in Fetched : ~confRemote[v].good}
          /\ UNCHANGED varBudget
       \/ /\ VarFault /\ Fetched # {}
          /\ varDoubt' = varDoubt \cup Fetched
          /\ UNCHANGED caller
    /\ UNCHANGED <<confRemote, nomadVar, pushedCache>>

SyncFromZero(p) ==
    /\ caller[p].pc = "idle" /\ \A q \in VarCallers : caller[q].pc = "idle" \/ caller[q].gated
    /\ Fetch
    /\ caller' = [caller EXCEPT ![p] = [AtRest EXCEPT !.pc = "hash", !.changed = Fetched]]
    /\ UNCHANGED <<confRemote, nomadVar, pushedCache, varBudget, varDoubt>>

\* TriggerSync, one at a time: it pulls every repository and then looks at every
\* variable, unless a pull failed.
FullSync(p) ==
    /\ caller[p].pc = "idle" /\ \A q \in VarCallers : caller[q].pc = "idle" \/ caller[q].gated
    /\ Fetch
    /\ caller' = [caller EXCEPT ![p] = [AtRest EXCEPT !.pc = "sync", !.at = 1, !.changed = Fetched]]
    /\ UNCHANGED <<confRemote, nomadVar, pushedCache, varBudget, varDoubt>>

\* The other repositories: when one of them fails the variables are left alone.
SyncOthers(p) ==
    /\ caller[p].pc = "sync"
    /\ \/ /\ caller' = [caller EXCEPT ![p].pc = "hash"]
          /\ UNCHANGED <<varBudget, varDoubt>>
       \/ /\ VarFault
          /\ caller' = [caller EXCEPT ![p] = AtRest]
          /\ varDoubt' = varDoubt \cup caller[p].changed
    /\ UNCHANGED <<confRemote, confDisk, confHead, nomadVar, pushedCache>>

Here(p) == VarOrder[caller[p].at]
StillAhead(p) == {VarOrder[i] : i \in caller[p].at..Len(VarOrder)}
VarStep(p) == [caller EXCEPT ![p].pc = "hash", ![p].at = @ + 1]

\* isServiceConfigChangedInGit
ChangedByPush(t, v) == ~t.gated \/ v \in t.changed

HitOnAnyEntry(v, h, c) == pushedCache[v] # NeverPushed

\* What pushNomadConfigVar compares with the cache.
CacheHit(v, h, c) ==
    LET e == pushedCache[v]
    IN  e.hash = h /\ (e.commit = c \/ c = NoCommit)

\* SyncServiceConfigsToNomad: the file of the next variable is read and hashed.  An
\* invalid file ends the whole pass; a variable outside the push is taken to be
\* up to date.
HashFile(p) ==
    LET t == caller[p]
        v == Here(p)
    IN  /\ t.pc = "hash" /\ t.at <= Len(VarOrder)
        /\ IF ~confDisk[v].good
           THEN /\ caller' = [caller EXCEPT ![p] = AtRest]
                /\ varDoubt' = varDoubt \cup (StillAhead(p) \cap (t.changed \cup (IF t.gated THEN {} ELSE NomadVarNames)))
                /\ UNCHANGED pushedCache
           ELSE IF ~ChangedByPush(t, v)
           THEN /\ pushedCache' = [pushedCache EXCEPT ![v] = [hash |-> confDisk[v].rev, commit |-> NoCommit]]
                /\ varDoubt' = IF nomadVar[v] = confDisk[v].rev THEN varDoubt ELSE varDoubt \cup {v}
                /\ caller' = VarStep(p)
           ELSE /\ caller' = IF CacheHit(v, confDisk[v].rev, t.commit) THEN VarStep(p)
                             ELSE [caller EXCEPT ![p].pc = "put", ![p].hash = confDisk[v].rev]
                /\ UNCHANGED <<pushedCache, varDoubt>>
        /\ UNCHANGED <<confRemote, confDisk, confHead, nomadVar, varBudget>>

PassDone(p) ==
    /\ caller[p].pc = "hash" /\ caller[p].at > Len(VarOrder)
    /\ caller' = [caller EXCEPT ![p] = AtRest]
    /\ UNCHANGED <<confRemote, confDisk, confHead, nomadVar, pushedCache, varBudget, varDoubt>>

\* nomad var put reads the file itself, valid or not by now.
ReadForPut(p) ==
    /\ caller[p].pc = "put"
    /\ caller' = [caller EXCEPT ![p].pc = "send", ![p].rev = confDisk[Here(p)].rev]
    /\ UNCHANGED <<confRemote, confDisk, confHead, nomadVar, pushedCache, varBudget, varDoubt>>

RememberBeforePut(p) ==
    LET v == Here(p)
    IN  /\ caller[p].pc = "send"
        /\ pushedCache' = [pushedCache EXCEPT ![v] = [hash |-> caller[p].hash, commit |-> caller[p].commit]]
        /\ \/ /\ nomadVar' = [nomadVar EXCEPT ![v] = caller[p].rev]
              /\ varDoubt' = IF caller[p].rev = confDisk[v].rev THEN varDoubt \ {v} ELSE varDoubt \cup {v}
              /\ caller' = VarStep(p) /\ UNCHANGED varBudget
           \/ /\ VarFault
              /\ caller' = [caller EXCEPT ![p] = AtRest]
              /\ UNCHANGED <<nomadVar, varDoubt>>
        /\ UNCHANGED <<confRemote, confDisk, confHead>>

\* -force: what was read replaces whatever is there, which another caller may
\* have put since.  When the command fails, written or not, the pass ends.
PutVar(p) ==
    LET v == Here(p)
    IN  /\ caller[p].pc = "send"
        /\ \/ /\ nomadVar' = [nomadVar EXCEPT ![v] = caller[p].rev]
              /\ varDoubt' = IF caller[p].rev = confDisk[v].rev THEN varDoubt \ {v} ELSE varDoubt \cup {v}
              /\ caller' = [caller EXCEPT ![p].pc = "remember"]
              /\ UNCHANGED varBudget
           \/ /\ VarFault
              /\ \/ nomadVar' = [nomadVar EXCEPT ![v] = caller[p].rev]
                 \/ UNCHANGED nomadVar
              /\ varDoubt' = varDoubt \cup (StillAhead(p) \cap (caller[p].changed \cup {v}))
              /\ caller' = [caller EXCEPT ![p] = AtRest]
        /\ UNCHANGED <<confRemote, confDisk, confHead, pushedCache>>

RememberVar(p) ==
    /\ caller[p].pc = "remember"
    /\ pushedCache' = [pushedCache EXCEPT ![Here(p)] = [hash |-> caller[p].hash, commit |-> caller[p].commit]]
    /\ caller' = VarStep(p)
    /\ UNCHANGED <<confRemote, confDisk, confHead, nomadVar, varBudget, varDoubt>>

VarNext ==
    \/ \E vs \in SUBSET NomadVarNames : vs # {} /\ ConfigCommit(vs)
    \/ \E p \in VarCallers :
          \/ ConfigPush(p) \/ FullSync(p) \/ SyncOthers(p) \/ HashFile(p) \/ PassDone(p)
          \/ ReadForPut(p) \/ PutVar(p) \/ RememberVar(p)

VarSpec == VarInit /\ [][VarNext]_varVars
--------------------
\* Every configuration that was checked out is in its Nomad variable or on its
\* way there, however pushes and syncs overlap, unless a command failed, a file was
\* invalid, a variable was taken to be up to date when it was not, or a put was
\* overtaken: what it had read was no longer the file when it was written.
ConfigsArePut ==
    (\A p \in VarCallers : caller[p].pc = "idle") =>
        \A v \in NomadVarNames \ varDoubt : nomadVar[v] = confDisk[v].rev

\* The cache never claims a content that Nomad does not have, so that a full sync
\* repairs a failed put, unless a push that did not touch the variable claimed it or
\* an overtaken put replaced it.
CacheIsTruthful ==
    \A v \in NomadVarNames :
        pushedCache[v].hash = confDisk[v].rev /\ nomadVar[v] # confDisk[v].rev => v \in varDoubt

\* Nomad's variables follow the configuration files, and the cache of hashes that
\* saves a put never hides a difference, but for the doubts varDoubt records.
VarsAreSound ==
    /\ VarTypeOK /\ ConfigsArePut /\ CacheIsTruthful
====================
