----------- MODULE BurstPlan -----------
(* Which messages of a channel wake the agent.  While a turn runs, new *)
(* messages wait in the worker's queue; the next turn takes them as one *)
(* burst, and PlanBurstExecution (burst.go) cuts it into the leading *)
(* messages nobody answers, the one active message, and the trailing ones, *)
(* which the end of the turn either puts back or files as ambient.  The *)
(* plan asks a classifier that may fail, be cut off by the shutdown, or *)
(* stand behind an open circuit breaker (classifier.go). *)
(*  *)
(* One thread is modelled, with a scope (a queue and a worker) per effort *)
(* that has a process pool of its own (resolveScopeKey); the scopes share *)
(* one classifier.  A message is abstracted to what the plan tells apart: *)
(* its author, whom it addresses (by name, or by an id that only a bot who *)
(* knows its own user and roles recognises), whether it is banter, its *)
(* effort and its model.  Interrupts and retries are TurnQueue's and *)
(* TurnAttempts' subject. *)
EXTENDS Integers, Sequences, SequencesExt, FiniteSets, FiniteSetsExt

CONSTANTS
    BurstSize,         \* messages per burst (5 in the code)
    FailureThreshold,  \* failures in a row that open the circuit (3)
    BurstScripts       \* what may happen: records of ScriptShape

VARIABLES
    burstScript,     \* the channel's policy, the pools, and the budgets
    mail,       \* the messages posted so far, by id
    lanes,      \* scope -> ids in its channel
    burstTurns,      \* scope -> the turn of its worker
    fate,       \* id -> the status of its row, "ambient" and "answered" both completed
    verdict,    \* id -> the reason noted when it was filed as ambient
    stranded,   \* ids of rows that keep a status because the statement failed
    unseen,     \* ids last judged by a bot that did not know it was addressed
    poolUp,     \* the pool's context is alive
    circuit     \* the breaker: open, failures in a row, cooldowns since a success

burstVars == <<burstScript, mail, lanes, burstTurns, fate, verdict, stranded, unseen, poolUp, circuit>>
rowVars == <<fate, verdict, stranded>>

(* Messages and their effort. *)
Efforts == {"low", "medium", "high"}
Scopes == {"base", "low", "medium"}
Ids == DOMAIN mail

\* resolveMessageEffort: an unknown effort is high, a missing one is read off the model.
MessageEffort(m) ==
    CASE m.effort \in Efforts -> m.effort
      [] m.effort \notin Efforts \cup {""} -> "high"
      [] m.effort = "" /\ m.model = "medium" -> "medium"
      [] m.effort = "" /\ m.model = "flash" -> "low"
      [] OTHER -> "high"

PoolKeys == BOOLEAN \X Efforts

\* WorkerPool.Pool for either lifetime.
HasPool(effort) == {<<FALSE, effort>>, <<TRUE, effort>>} \cap burstScript.pools # {}

\* resolveScopeKey: a lane of its own only for an effort that has a pool.
ScopeOf(m) ==
    LET effort == MessageEffort(m)
    IN IF effort # "high" /\ HasPool(effort) THEN effort ELSE "base"

\* resolveBurstEffort: medium wins over low, low over high.
BurstEffort(burst) ==
    LET efforts == {MessageEffort(mail[id]) : id \in Range(burst)}
    IN IF "medium" \in efforts THEN "medium" ELSE IF "low" \in efforts THEN "low" ELSE "high"

\* resolveExecutionPool: the stateful pool, else the ephemeral one, else the primary.
ExecutionPool(effort) ==
    IF <<FALSE, effort>> \in burstScript.pools THEN <<FALSE, effort>>
    ELSE IF <<TRUE, effort>> \in burstScript.pools THEN <<TRUE, effort>> ELSE <<FALSE, "high">>

(* What the plan reads off a message. *)
\* isTier1Wake: a mention of the bot or of a role it has, a reply to it, or an HTTP client.
\* A mention by id is recognised by a bot whose identity resolveBotIdentity found.
Tier1Wake(id, known) ==
    mail[id].author = "http-client" \/ mail[id].to = "aerial" \/ (mail[id].to = "role" /\ known)

\* isHTTPClientBurst: every message of it came over HTTP.
HTTPClientBurst(burst) == \A id \in Range(burst) : mail[id].author = "http-client"

\* isDirectedAtOther: it mentions or answers somebody known, and not Aerial.
DirectedAtOther(id, known) == ~Tier1Wake(id, known) /\ mail[id].to \in {"other", "role"}

\* IsHeuristicSkip: banter, an acknowledgement or a command to another bot.
HeuristicSkip(id) == mail[id].banter

\* isBurstDirectedAtOther: what an author adds after a directed message counts with it.
BurstDirectedAtOther(burst, known) ==
    LET directed(i) == DirectedAtOther(burst[i], known)
        follows(i) == \E j \in 1..(i - 1) : directed(j) /\ mail[burst[j]].author = mail[burst[i]].author
    IN /\ \E i \in DOMAIN burst : directed(i)
       /\ \A i \in DOMAIN burst : directed(i) \/ HeuristicSkip(burst[i]) \/ follows(i)

\* normalizeWakeMode.
WakeMode(raw) ==
    CASE raw \in {"mentions", "direct"} -> "mention"
      [] raw = "always" -> "all"
      [] raw \in {"ambient", ""} -> "classifier"
      [] OTHER -> raw

(* PlanBurstExecution.  A plan is the index of the active message (0: all *)
(* ambient) and, for each message, whether it wakes and why.  It is made *)
(* of what the classifier said to the turn's requests, one after another: *)
(* "wake" (a score that reaches the threshold), "sleep", "failed", "cut" *)
(* by the shutdown, or "open" when the circuit let no request through. *)
Info(wake, why) == [wake |-> wake, why |-> why]

\* fillBurstWakeInfos and buildTriggeredBurstPlan.
Uniform(burst, at, wakeWhy, otherWhy) ==
    [wake |-> at,
     infos |-> [i \in DOMAIN burst |-> IF i = at THEN Info(TRUE, wakeWhy) ELSE Info(FALSE, otherWhy)]]

\* resolveWakeHookOverride: what on_wake answers, or its on_timeout when it does not.
HookOverride == IF burstScript.hook = "timeout" THEN burstScript.onTimeout ELSE burstScript.hook

Addressed(t) == {i \in DOMAIN t.burst : Tier1Wake(t.burst[i], t.known)}
FirstAddressed(t) == Min(Addressed(t))

\* The trailing messages that go to the classifier one by one.
InDoubt(t) ==
    {i \in (FirstAddressed(t) + 1)..Len(t.burst) :
        /\ ~Tier1Wake(t.burst[i], t.known)
        /\ WakeMode(burstScript.mode) # "mention" /\ burstScript.threshold /\ ~HeuristicSkip(t.burst[i])
        /\ ~DirectedAtOther(t.burst[i], t.known)}

\* Nobody addressed Aerial and the mode leaves it to the classifier: the burst as a whole.
AllInDoubt(t) ==
    /\ WakeMode(burstScript.mode) \notin {"mention", "all"} /\ burstScript.threshold
    /\ \E id \in Range(t.burst) : ~HeuristicSkip(id)
    /\ ~BurstDirectedAtOther(t.burst, t.known)

\* The requests of a turn, a whole burst as 0.
Requests(t) ==
    IF HookOverride \in {"wake", "drop"} THEN << >>
    ELSE IF Addressed(t) # {} THEN SetToSortSeq(InDoubt(t), <)
    ELSE IF AllInDoubt(t) THEN <<0>> ELSE << >>

AddressedPlanFirstOnly(t) == Uniform(t.burst, FirstAddressed(t), "direct_address", "burst_ambient")

\* populateTier1TrailingWakeInfos, after the first message that addresses Aerial.
AddressedPlan(t) ==
    LET asked == Requests(t)
        said(i) == t.says[CHOOSE k \in DOMAIN asked : asked[k] = i]
        info(i) ==
            IF i < FirstAddressed(t) THEN Info(FALSE, "burst_prescan_leading")
            ELSE IF i \in Addressed(t) THEN Info(TRUE, "direct_address")
            ELSE IF i \in Range(asked) THEN Info(said(i) = "wake", said(i))
            ELSE Info(FALSE, IF DirectedAtOther(t.burst[i], t.known) THEN "directed_at_other" ELSE "heuristic_skip")
    IN [wake |-> FirstAddressed(t), infos |-> [i \in DOMAIN t.burst |-> info(i)]]

UnaddressedPlan(t) ==
    CASE WakeMode(burstScript.mode) = "mention" -> Uniform(t.burst, 0, "", "mention_mode_ambient")
      [] WakeMode(burstScript.mode) = "all" -> Uniform(t.burst, 1, "all_wake", "all_wake_trailing")
      [] OTHER ->
            IF ~burstScript.threshold THEN Uniform(t.burst, 0, "", "classifier disabled")
            ELSE IF \A id \in Range(t.burst) : HeuristicSkip(id) THEN Uniform(t.burst, 0, "", "heuristic_skip")
            ELSE IF ~AllInDoubt(t) THEN Uniform(t.burst, 0, "", "directed_at_other")
            ELSE IF t.says[1] = "wake" THEN Uniform(t.burst, 1, "wake", "burst_ambient")
            ELSE Uniform(t.burst, 0, "", t.says[1])

\* PlanBurstExecution: the hook first, then the addresses, then the mode.
PlanOf(t) ==
    CASE HookOverride = "wake" -> Uniform(t.burst, 1, "hook_wake_override", "hook_wake_trailing")
      [] HookOverride = "drop" -> Uniform(t.burst, 0, "", "hook_drop_override")
      [] HookOverride \notin {"wake", "drop"} /\ Addressed(t) # {} -> AddressedPlan(t)
      [] OTHER -> UnaddressedPlan(t)

(* The worker's turn around the plan. *)
NoBurst == [stage |-> "idle", burst |-> <<>>, known |-> TRUE, says |-> <<>>, calling |-> FALSE,
            wake |-> 0, infos |-> <<>>, pool |-> <<FALSE, "high">>]
Stages == {"idle", "claimed", "asking", "planned", "running", "trailing", "stopped"}
ClosedCircuit == [open |-> FALSE, failures |-> 0, cooldowns |-> 0]

SpendBurst(what) == burstScript[what] > 0 /\ burstScript' = [burstScript EXCEPT ![what] = @ - 1]

\* A statement on some of the rows; one that fails is logged and its row stays as it was.
WriteRows(status) ==
    \E lost \in {{}} \cup {{id} : id \in DOMAIN status} :
        /\ IF lost = {} THEN UNCHANGED burstScript ELSE SpendBurst("faults")
        /\ fate' = [id \in Ids |-> IF id \in DOMAIN status \ lost THEN status[id] ELSE fate[id]]
        /\ stranded' = stranded \cup lost

BurstInit ==
    /\ burstScript \in BurstScripts
    /\ mail = <<>> /\ fate = <<>> /\ verdict = <<>> /\ stranded = {} /\ unseen = {}
    /\ lanes = [s \in Scopes |-> <<>>]
    /\ burstTurns = [s \in Scopes |-> NoBurst]
    /\ poolUp = TRUE
    /\ circuit = ClosedCircuit

\* EnqueueBurst of a message just saved.
PostMessage(m) ==
    /\ poolUp /\ Len(mail) < burstScript.posts
    /\ mail' = Append(mail, m)
    /\ fate' = Append(fate, "pending") /\ verdict' = Append(verdict, "")
    /\ lanes' = [lanes EXCEPT ![ScopeOf(m)] = Append(@, Len(mail) + 1)]
    /\ UNCHANGED <<burstScript, burstTurns, stranded, unseen, poolUp, circuit>>

\* drainBurstMessages and claimPendingBurst: a message whose row is not PENDING is left out.
TakeBurst(s) ==
    LET n == IF Len(lanes[s]) < BurstSize THEN Len(lanes[s]) ELSE BurstSize
        burst == SelectSeq(SubSeq(lanes[s], 1, n), LAMBDA id : fate[id] = "pending")
        claimed == SelectSeq(burst, LAMBDA id : id \notin stranded' \ stranded)
    IN /\ poolUp /\ burstTurns[s].stage = "idle" /\ n > 0
       /\ WriteRows([id \in Range(burst) |-> "processing"])
       /\ burstTurns' = IF claimed = << >> THEN burstTurns
                        ELSE [burstTurns EXCEPT ![s] = [NoBurst EXCEPT !.stage = "claimed", !.burst = claimed]]
       /\ lanes' = [lanes EXCEPT ![s] = SubSeq(@, n + 1, Len(@))]
       /\ UNCHANGED <<mail, verdict, unseen, poolUp, circuit>>

\* shouldEvaluateAmbientWake.
EvaluatesWake(burst) == burstScript.channel /\ ~HTTPClientBurst(burst)

\* evaluateAmbientWake: the burst of a thread is taken whole, that of a channel is
\* triaged, as the bot that resolveBotIdentity finds: its user or its roles may be missing.
StartPlan(s) ==
    LET t == burstTurns[s]
        called == {id \in Range(t.burst) : mail[id].to = "role"} IN
    /\ t.stage = "claimed"
    /\ \/ /\ ~EvaluatesWake(t.burst)
          /\ burstTurns' = [burstTurns EXCEPT ![s].stage = "running", ![s].pool = ExecutionPool(BurstEffort(t.burst))]
          /\ UNCHANGED <<burstScript, unseen>>
       \/ /\ EvaluatesWake(t.burst)
          /\ \E known \in BOOLEAN :
                /\ burstTurns' = [burstTurns EXCEPT ![s].stage = "asking", ![s].known = known]
                /\ unseen' = IF known THEN unseen \ called ELSE unseen \cup called
                /\ IF known THEN UNCHANGED burstScript ELSE called # {} /\ SpendBurst("faults")
    /\ UNCHANGED <<mail, lanes, rowVars, poolUp, circuit>>

\* classifyWithPrompt up to its request: behind an open circuit none is sent.  The
\* lock is not held during the request.  classifySystemOne looks at no circuit.
Ask(s) ==
    LET t == burstTurns[s] IN
    /\ t.stage = "asking" /\ ~t.calling /\ Len(t.says) < Len(Requests(t))
    /\ burstTurns' = IF circuit.open /\ burstScript.protocol = "agy"
                     THEN [burstTurns EXCEPT ![s].says = Append(@, "open")]
                     ELSE [burstTurns EXCEPT ![s].calling = TRUE]
    /\ UNCHANGED <<burstScript, mail, lanes, rowVars, unseen, poolUp, circuit>>

\* recordFailure and recordSuccess.
RecordOutcome(c, outcome) ==
    IF outcome \in {"wake", "sleep"} THEN ClosedCircuit
    ELSE [c EXCEPT !.failures = @ + 1, !.open = @ \/ c.failures + 1 >= FailureThreshold]

\* The request's answer or error, which may have come just before the shutdown.
Hear(s) ==
    /\ burstTurns[s].calling
    /\ \E outcome \in {"wake", "sleep"} \cup (IF poolUp THEN {"failed"} ELSE {"cut"}) :
          /\ burstTurns' = [burstTurns EXCEPT ![s].calling = FALSE, ![s].says = Append(@, outcome)]
          /\ circuit' = RecordOutcome(circuit, outcome)
    /\ UNCHANGED <<burstScript, mail, lanes, rowVars, unseen, poolUp>>

MakePlan(s) ==
    LET t == burstTurns[s] IN
    /\ t.stage = "asking" /\ ~t.calling /\ Len(t.says) = Len(Requests(t))
    /\ burstTurns' = [burstTurns EXCEPT ![s].stage = "planned", ![s].says = << >>,
                                        ![s].wake = PlanOf(t).wake, ![s].infos = PlanOf(t).infos]
    /\ UNCHANGED <<burstScript, mail, lanes, rowVars, unseen, poolUp, circuit>>

\* completeAmbientMessage for the messages at the given places of the burst, next to
\* what else becomes of rows in the same step.
FileAmbient(t, places, other) ==
    LET filed == {t.burst[i] : i \in places}
        why(id) == t.infos[CHOOSE i \in places : t.burst[i] = id].why
    IN /\ WriteRows([id \in filed \cup DOMAIN other |-> IF id \in filed THEN "ambient" ELSE other[id]])
       /\ verdict' = [id \in Ids |-> IF id \in filed /\ fate'[id] = "ambient" THEN why(id) ELSE verdict[id]]

\* handleAllAmbientPlan and markAmbientBurst: a plan made during the shutdown is not believed.
FileAll(s) ==
    /\ burstTurns[s].stage = "planned" /\ burstTurns[s].wake = 0
    /\ \/ ~poolUp /\ burstTurns' = [burstTurns EXCEPT ![s].stage = "stopped"] /\ UNCHANGED <<burstScript, rowVars>>
       \/ /\ poolUp
          /\ FileAmbient(burstTurns[s], DOMAIN burstTurns[s].burst, << >>)
          /\ burstTurns' = [burstTurns EXCEPT ![s] = NoBurst]
    /\ UNCHANGED <<mail, lanes, unseen, poolUp, circuit>>

\* runChannelAmbientTriage, the rest: the leading messages are filed, the active one runs.
FileLeading(s) ==
    LET t == burstTurns[s] IN
    /\ t.stage = "planned" /\ t.wake > 0
    /\ FileAmbient(t, 1..(t.wake - 1), << >>)
    /\ burstTurns' = [burstTurns EXCEPT ![s].stage = "running",
                              ![s].pool = ExecutionPool(BurstEffort(<<t.burst[t.wake]>>))]
    /\ UNCHANGED <<mail, lanes, unseen, poolUp, circuit>>

\* The messages a turn answers: the active one, or the whole burst of a thread.
ActiveMessages(t) == IF t.wake = 0 THEN Range(t.burst) ELSE {t.burst[t.wake]}
Trailing(t) == IF t.wake = 0 THEN {} ELSE (t.wake + 1)..Len(t.burst)

\* The attempts end: answered, failed, or (with every message behind it) suppressed by a
\* quota lockout.  A turn cut off by the shutdown writes nothing.
EndAttempts(s) ==
    LET t == burstTurns[s] IN
    /\ t.stage = "running"
    /\ \/ /\ poolUp
          /\ \E end \in {"answered", "failed"} : WriteRows([id \in ActiveMessages(t) |-> end])
          /\ burstTurns' = [burstTurns EXCEPT ![s].stage = "trailing"]
       \/ /\ WriteRows([id \in ActiveMessages(t) \cup {t.burst[i] : i \in Trailing(t)} |-> "failed"])
          /\ burstTurns' = [burstTurns EXCEPT ![s] = NoBurst]
       \/ /\ ~poolUp /\ burstTurns' = [burstTurns EXCEPT ![s].stage = "trailing"]
          /\ UNCHANGED <<burstScript, fate, stranded>>
    /\ UNCHANGED <<mail, lanes, verdict, unseen, poolUp, circuit>>

\* handleTrailing: what wakes goes back to the end of its lane, whatever became of the
\* statement that makes its row PENDING, the rest is filed, and during the shutdown
\* nothing is touched.
PutBackBurst(s) ==
    LET t == burstTurns[s]
        waking == {i \in Trailing(t) : t.infos[i].wake}
        back == [k \in 1..Cardinality(waking) |-> t.burst[SetToSortSeq(waking, <)[k]]]
    IN /\ t.stage = "trailing"
       /\ \/ /\ ~poolUp /\ burstTurns' = [burstTurns EXCEPT ![s].stage = "stopped"]
             /\ UNCHANGED <<burstScript, lanes, rowVars>>
          \/ /\ poolUp
             /\ FileAmbient(t, Trailing(t) \ waking, [id \in Range(back) |-> "pending"])
             /\ lanes' = [lanes EXCEPT ![s] = @ \o back]
             /\ burstTurns' = [burstTurns EXCEPT ![s] = NoBurst]
       /\ UNCHANGED <<mail, unseen, poolUp, circuit>>

\* classifyWithPrompt finds the cooldown over and closes the circuit, the failures kept.
CoolDown ==
    /\ circuit.open /\ circuit.cooldowns < burstScript.cooldowns
    /\ circuit' = [circuit EXCEPT !.open = FALSE, !.cooldowns = @ + 1]
    /\ UNCHANGED <<burstScript, mail, lanes, burstTurns, rowVars, unseen, poolUp>>

StopBursts ==
    /\ poolUp /\ SpendBurst("stops") /\ poolUp' = FALSE
    /\ UNCHANGED <<mail, lanes, burstTurns, rowVars, unseen, circuit>>

\* The next process: RecoverInterrupted makes every unsettled row PENDING and enqueues it.
BootAgain ==
    LET unsettled == {id \in Ids : fate[id] \in {"pending", "processing"}}
    IN /\ ~poolUp /\ \A s \in Scopes : burstTurns[s].stage \in {"idle", "stopped"}
       /\ poolUp' = TRUE
       /\ fate' = [id \in Ids |-> IF id \in unsettled THEN "pending" ELSE fate[id]]
       /\ lanes' = [s \in Scopes |-> SetToSortSeq({id \in unsettled : ScopeOf(mail[id]) = s}, <)]
       /\ burstTurns' = [s \in Scopes |-> NoBurst]
       /\ circuit' = ClosedCircuit /\ stranded' = {}
       /\ UNCHANGED <<burstScript, mail, verdict, unseen>>

BurstWork ==
    \/ \E s \in Scopes :
          \/ TakeBurst(s) \/ StartPlan(s) \/ Ask(s) \/ Hear(s) \/ MakePlan(s) \/ FileAll(s) \/ FileLeading(s)
          \/ EndAttempts(s) \/ PutBackBurst(s)
    \/ BootAgain

BurstNext ==
    \/ BurstWork
    \/ \E m \in burstScript.drafts : PostMessage(m)
    \/ CoolDown \/ StopBursts

BurstSpec == BurstInit /\ [][BurstNext]_burstVars /\ WF_burstVars(BurstWork)

(* Properties. *)
Fates == {"pending", "processing", "ambient", "answered", "failed"}

\* Every row has one status, every place of a turn is a place of its burst, and the
\* breaker counts what it saw.
BurstTypeOK ==
    /\ poolUp \in BOOLEAN
    /\ \A id \in Ids : fate[id] \in Fates
    /\ \A s \in Scopes :
          /\ Range(lanes[s]) \subseteq Ids
          /\ burstTurns[s].stage \in Stages /\ Range(burstTurns[s].burst) \subseteq Ids
          /\ Len(burstTurns[s].burst) <= BurstSize /\ burstTurns[s].wake \in 0..Len(burstTurns[s].burst)
          /\ burstTurns[s].pool \in PoolKeys
          /\ burstTurns[s].stage = "planned" => DOMAIN burstTurns[s].infos = DOMAIN burstTurns[s].burst
    /\ circuit.open \in BOOLEAN /\ circuit.failures \in Nat /\ circuit.cooldowns \in Nat

\* A message that addresses Aerial is never filed as ambient by the plan, wherever in a
\* burst it stood and however often it was put back; only the channel's own on_wake hook
\* can do that, and a triage that did not know the bot's user or roles, which takes a
\* mention by id for one of somebody else (PlanBurstExecution, resolveBotIdentity).
AddressIsNeverAmbient ==
    \A id \in Ids : fate[id] = "ambient" /\ Tier1Wake(id, TRUE) =>
        verdict[id] \in {"hook_drop_override", "hook_wake_trailing"} \/ id \in unseen

\* Nothing is filed on the word of a classifier the shutdown cut off: handleAllAmbientPlan
\* and handleTrailing leave such messages to the next process.
NoVerdictFromShutdown == \A id \in Ids : fate[id] = "ambient" => verdict[id] # "cut"

\* Two turns of one thread that run at a time have two process pools, although the lease
\* of each is named after the thread alone (resolveScopeKey against resolveExecutionPool).
OneTurnPerProcess ==
    \A s, t \in Scopes :
        s # t /\ burstTurns[s].stage = "running" /\ burstTurns[t].stage = "running" => burstTurns[s].pool # burstTurns[t].pool

\* A classifier that is down is asked FailureThreshold times, and then by each scope once
\* after a cooldown; a request that is under way when the circuit opens counts too, for
\* the breaker is looked at before the request and set after it (classifyWithPrompt).
OutageIsCheap ==
    burstScript.protocol = "agy" =>
        circuit.failures < FailureThreshold + Cardinality(Scopes) * (1 + circuit.cooldowns)

\* A waiting message waits in exactly one place of one lane, and one that is being worked
\* on belongs to exactly one turn, so that no cut of a burst drops or doubles a message; a
\* row whose statement failed is left to the next process.
RowsArePlaced ==
    poolUp => \A id \in Ids \ stranded :
        LET waits == {p \in Scopes \X (1..Len(mail)) : p[2] <= Len(lanes[p[1]]) /\ lanes[p[1]][p[2]] = id}
            owners == {s \in Scopes : burstTurns[s].stage # "idle" /\ id \in Range(burstTurns[s].burst)}
        IN /\ fate[id] = "pending" => Cardinality(waits) = 1 /\ owners = {}
           /\ fate[id] = "processing" => waits = {} /\ Cardinality(owners) = 1

\* Every message is settled in the end: a put back one is not put back for ever, and what
\* a shutdown left is taken up by the next process.  A row whose statement failed waits
\* for that process.
MessageWaits(id) == id \in Ids /\ fate[id] \notin {"ambient", "answered", "failed"}
MessageSettled(id) == id \in Ids /\ (fate[id] \in {"ambient", "answered", "failed"} \/ id \in stranded)
MessagesAreSettled ==
    \A id \in 1..Max({s.posts : s \in BurstScripts}) : MessageWaits(id) ~> MessageSettled(id)

\* Bursts are cut, classified and run without losing, doubling or misfiling a
\* message, also when the classifier is down or the process stops.
BurstsAreSound ==
    /\ BurstTypeOK /\ AddressIsNeverAmbient /\ NoVerdictFromShutdown /\ OneTurnPerProcess
    /\ OutageIsCheap /\ RowsArePlaced
====================
