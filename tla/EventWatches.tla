----------- MODULE EventWatches -----------
(* Event watches: haro keeps a row per watch (event_triggers), synapse *)
(* tells haro when an event has happened, and haro claims the matching rows *)
(* and sends their prompts to eri.  A one-shot watch is claimed by deleting *)
(* its row and put back when its prompt could not be sent; a persistent one *)
(* keeps its row. *)
(*  *)
(* A target in VanadisTargets is a build or a chunk: it ends once, vanadis *)
(* knows that it has, and synapse fires its event from the job that ended *)
(* it.  Every other target belongs to an outside source, whose events come *)
(* by webhook and become River jobs. *)
EXTENDS Naturals, FiniteSets

CONSTANTS Watches, OneShot,       \* all watches, and those that fire once
          Targets, VanadisTargets,
          TargetOf,               \* the target of each watch
          EventTypes, TypeOf,     \* what may happen to a target, and what a watch waits for
          Handlers,               \* concurrent requests haro serves
          HTTPAttempts,           \* doHTTPWithRetry: 3 in the code
          RiverAttempts,          \* MaxAttempts of the job: 5 in the code
          MaxEvents,              \* bound: webhooks per outside target
          MaxCrashes,             \* bound: crashes of haro or synapse
          MaxFaults               \* bound: failed statements, calls and timeouts

ASSUME WatchAssumption ==
    /\ OneShot \subseteq Watches
    /\ VanadisTargets \subseteq Targets
    /\ TargetOf \in [Watches -> Targets]
    /\ TypeOf \in [Watches -> EventTypes] /\ "none" \notin EventTypes
    /\ HTTPAttempts \in Nat \ {0} /\ RiverAttempts \in Nat \ {0}
    /\ MaxEvents \in Nat /\ MaxCrashes \in Nat /\ MaxFaults \in Nat

VARIABLES
    reg,        \* how far the registration of each watch has come
    held,       \* the rows of event_triggers
    ended,      \* vanadis targets in a terminal state
    happened,   \* the event of each target that was reported last
    notice,     \* what synapse is doing about each target's event
    fire,       \* the fire requests haro is serving
    events, watchCrashes, watchFaults,
    prompts,    \* ghost: how often eri has accepted the prompt of a watch
    doubts,     \* ghost: how often haro took an accepted prompt for a failure
    cancelled,  \* ghost: watches whose user was told that they are cancelled
    lost,       \* ghost: claimed one-shots that never got back into the table
    missed,     \* ghost: targets whose event synapse has given up
    late        \* ghost: watches put back after synapse had stopped listening

watchVars == <<reg, held, ended, happened, notice, fire, events, watchCrashes, watchFaults,
               prompts, doubts, cancelled, lost, missed, late>>

watchGhosts == <<prompts, doubts, cancelled, lost, missed, late>>

NoNotice == [pc |-> "idle", http |-> 0, river |-> 0]

NoRequest == [on |-> {}, todo |-> {}, err |-> FALSE, live |-> FALSE]

WatchTypeOK ==
    /\ reg \in [Watches -> {"new", "validated", "inserted", "registered", "refused"}]
    /\ held \subseteq Watches
    /\ ended \subseteq VanadisTargets
    /\ happened \in [Targets -> EventTypes \cup {"none"}]
    /\ notice \in [Targets -> [pc : {"idle", "check", "send", "wait"},
                               http : 0..HTTPAttempts-1, river : 0..RiverAttempts-1]]
    /\ fire \in [Handlers -> [on : SUBSET Targets, todo : SUBSET Watches,
                              err : BOOLEAN, live : BOOLEAN]]
    /\ events \in [Targets -> 0..MaxEvents]
    /\ watchCrashes \in 0..MaxCrashes /\ watchFaults \in 0..MaxFaults
    /\ prompts \in [Watches -> Nat] /\ doubts \in [Watches -> Nat]
    /\ cancelled \subseteq Watches /\ lost \subseteq Watches /\ late \subseteq Watches
    /\ missed \subseteq Targets

WatchInit ==
    /\ reg = [w \in Watches |-> "new"]
    /\ held = {} /\ ended = {} /\ happened = [t \in Targets |-> "none"]
    /\ notice = [t \in Targets |-> NoNotice]
    /\ fire = [h \in Handlers |-> NoRequest]
    /\ events = [t \in Targets |-> 0]
    /\ watchCrashes = 0 /\ watchFaults = 0
    /\ prompts = [w \in Watches |-> 0] /\ doubts = [w \in Watches |-> 0]
    /\ cancelled = {} /\ lost = {} /\ missed = {} /\ late = {}

WatchFault == watchFaults < MaxFaults /\ watchFaults' = watchFaults + 1
NoWatchFault == UNCHANGED watchFaults
--------------------
(* Registration: HandleWatchEvent *)

\* ValidateLiveEventTarget: only builds and chunks are looked up, and an error
\* of the look-up counts as a refusal.
TargetIsLive(w) == TargetOf[w] \notin ended

HandleWatchEvent(w) ==
    /\ reg[w] = "new"
    /\ \/ TargetIsLive(w) /\ reg' = [reg EXCEPT ![w] = "validated"]
       \/ ~TargetIsLive(w) /\ reg' = [reg EXCEPT ![w] = "refused"]
    /\ UNCHANGED <<held, ended, happened, notice, fire, events, watchCrashes, watchFaults, watchGhosts>>

InsertEventTrigger(w) ==
    /\ reg[w] = "validated"
    /\ \/ /\ reg' = [reg EXCEPT ![w] = "inserted"]
          /\ held' = held \cup {w}
          /\ NoWatchFault
       \/ /\ reg' = [reg EXCEPT ![w] = "refused"]
          /\ UNCHANGED held
          /\ WatchFault
    /\ UNCHANGED <<ended, happened, notice, fire, events, watchCrashes, watchGhosts>>

\* The guard after the insertion: a target that has ended meanwhile, or a
\* look-up that fails, takes the row out again and refuses the watch.
RecheckTarget(w) ==
    /\ reg[w] = "inserted"
    /\ \/ /\ TargetIsLive(w) \/ TargetOf[w] \notin VanadisTargets
          /\ reg' = [reg EXCEPT ![w] = "registered"]
          /\ UNCHANGED held
          /\ NoWatchFault
       \/ /\ TargetOf[w] \in VanadisTargets
          /\ reg' = [reg EXCEPT ![w] = "refused"]
          /\ \/ /\ held' = held \ {w}
                /\ IF TargetIsLive(w) THEN WatchFault ELSE NoWatchFault
             \/ UNCHANGED held /\ WatchFault        \* the removal fails as well
    /\ UNCHANGED <<ended, happened, notice, fire, events, watchCrashes, watchGhosts>>

\* A row that a fire request has claimed is not found, and the user is told so.
HandleCancelEventWatch(w) ==
    /\ reg[w] = "registered"
    /\ w \in held
    /\ held' = held \ {w}
    /\ cancelled' = cancelled \cup {w}
    /\ UNCHANGED <<reg, ended, happened, notice, fire, events, watchCrashes, watchFaults,
                   prompts, doubts, lost, missed, late>>
--------------------
(* synapse: an event happens *)

\* The build or chunk reaches its end in vanadis, and the job that moved it
\* there goes on to fire the event (evaluateVanadisAdvancementTriggers and
\* evaluateVanadisFailureTriggers); a build that is cancelled fires none.
TargetEnds(t) ==
    /\ t \in VanadisTargets \ ended
    /\ ended' = ended \cup {t}
    /\ \/ /\ \E e \in EventTypes : happened' = [happened EXCEPT ![t] = e]
          /\ notice' = [notice EXCEPT ![t] = [NoNotice EXCEPT !.pc = "send"]]
       \/ UNCHANGED <<happened, notice>>
    /\ UNCHANGED <<reg, held, fire, events, watchCrashes, watchFaults, watchGhosts>>

HandleEventsWebhook(t) ==
    /\ t \notin VanadisTargets
    /\ notice[t].pc = "idle"
    /\ events[t] < MaxEvents
    /\ events' = [events EXCEPT ![t] = @ + 1]
    /\ \E e \in EventTypes : happened' = [happened EXCEPT ![t] = e]
    /\ notice' = [notice EXCEPT ![t] = [NoNotice EXCEPT !.pc = "check"]]
    /\ UNCHANGED <<reg, held, ended, fire, watchCrashes, watchFaults, watchGhosts>>

\* The watches of the target that wait for what has happened to it.
Matching(t) == {w \in held : TargetOf[w] = t /\ TypeOf[w] = happened[t]}

\* A look-up that finds no watch drops the event; one that fails lets it through.
CheckEventTriggers(t) ==
    /\ notice[t].pc = "check"
    /\ \/ /\ Matching(t) = {}
          /\ notice' = [notice EXCEPT ![t] = NoNotice]
          /\ NoWatchFault
       \/ /\ notice' = [notice EXCEPT ![t].pc = "send"]
          /\ IF Matching(t) = {} THEN WatchFault ELSE NoWatchFault
    /\ UNCHANGED <<reg, held, ended, happened, fire, events, watchCrashes, watchGhosts>>

\* What synapse does when an attempt has failed: the HTTP client tries again,
\* then River does; an event that is not a job of its own is only logged.
RetryOrGiveUp(t) ==
    LET n == notice[t]
    IN  \/ /\ n.http + 1 < HTTPAttempts
           /\ notice' = [notice EXCEPT ![t].pc = "send", ![t].http = @ + 1]
           /\ UNCHANGED missed
        \/ /\ n.http + 1 >= HTTPAttempts
           /\ t \notin VanadisTargets
           /\ n.river + 1 < RiverAttempts
           /\ notice' = [notice EXCEPT ![t] = [pc |-> "send", http |-> 0, river |-> n.river + 1]]
           /\ UNCHANGED missed
        \/ /\ n.http + 1 >= HTTPAttempts
           /\ t \in VanadisTargets \/ n.river + 1 >= RiverAttempts
           /\ notice' = [notice EXCEPT ![t] = NoNotice]
           /\ missed' = missed \cup {t}

\* The request does not reach haro, or haro cannot run the claim, or cannot tell
\* that it was committed: then the rows it deleted are gone.
SendFails(t) ==
    /\ notice[t].pc = "send"
    /\ WatchFault
    /\ RetryOrGiveUp(t)
    /\ \/ UNCHANGED <<held, lost>>
       \/ held' = held \ (Matching(t) \cap OneShot) /\ lost' = lost \cup (Matching(t) \cap OneShot)
    /\ UNCHANGED <<reg, ended, happened, fire, events, watchCrashes,
                   prompts, doubts, cancelled, late>>

\* The HTTP client gives up; haro sees the request cancelled and goes on.
ClientTimesOut(t) ==
    /\ notice[t].pc = "wait"
    /\ WatchFault
    /\ fire' = [h \in Handlers |-> IF t \in fire[h].on
                                   THEN [fire[h] EXCEPT !.live = FALSE] ELSE fire[h]]
    /\ RetryOrGiveUp(t)
    /\ UNCHANGED <<reg, held, ended, happened, events, watchCrashes,
                   prompts, doubts, cancelled, lost, late>>

\* River rescues a job of a crashed process and counts an attempt; the job that
\* ended a chunk finds it ended when it runs again, and fires nothing.
SynapseCrash ==
    /\ watchCrashes < MaxCrashes
    /\ watchCrashes' = watchCrashes + 1
    /\ LET busy == {t \in Targets : notice[t].pc \in {"send", "wait"}}
           dead == {t \in busy : t \in VanadisTargets \/ notice[t].river + 1 >= RiverAttempts}
       IN  /\ busy # {}
           /\ missed' = missed \cup dead
           /\ notice' = [t \in Targets |->
                           IF t \in busy \ dead
                           THEN [pc |-> "send", http |-> 0, river |-> notice[t].river + 1]
                           ELSE NoNotice]
    /\ fire' = [h \in Handlers |-> [fire[h] EXCEPT !.live = FALSE]]
    /\ UNCHANGED <<reg, held, ended, happened, events, watchFaults,
                   prompts, doubts, cancelled, lost, late>>
--------------------
(* haro: handleFireEventTriggers *)

FreeHandlers == {h \in Handlers : fire[h] = NoRequest}

ClaimWithoutDelete(t, h) ==
    /\ notice[t].pc = "send"
    /\ h \in FreeHandlers
    /\ fire' = [fire EXCEPT ![h] = [on |-> {t}, todo |-> Matching(t),
                                    err |-> FALSE, live |-> TRUE]]
    /\ notice' = [notice EXCEPT ![t].pc = "wait"]
    /\ UNCHANGED <<reg, held, ended, happened, events, watchCrashes, watchFaults, watchGhosts>>

\* ClaimEventTriggers is one statement: it deletes the one-shot rows and
\* returns them with the persistent ones.
ClaimEventTriggers(t, h) ==
    /\ notice[t].pc = "send"
    /\ h \in FreeHandlers
    /\ fire' = [fire EXCEPT ![h] = [on |-> {t}, todo |-> Matching(t),
                                    err |-> FALSE, live |-> TRUE]]
    /\ held' = held \ (Matching(t) \cap OneShot)
    /\ notice' = [notice EXCEPT ![t].pc = "wait"]
    /\ UNCHANGED <<reg, ended, happened, events, watchCrashes, watchFaults, watchGhosts>>

DispatchPromptOK(h, w) ==
    /\ fire[h].live
    /\ w \in fire[h].todo
    /\ fire' = [fire EXCEPT ![h].todo = @ \ {w}]
    /\ prompts' = [prompts EXCEPT ![w] = @ + 1]
    /\ UNCHANGED <<reg, held, ended, happened, notice, events, watchCrashes, watchFaults,
                   doubts, cancelled, lost, missed, late>>

\* The prompt fails, or eri takes it and the answer is lost.  A one-shot watch
\* is inserted again under a context that is not cancelled with the request.
PutBack(h, w) ==
    /\ held' = IF w \in OneShot THEN held \cup {w} ELSE held
    /\ late' = IF w \in OneShot /\ ~fire[h].live THEN late \cup {w} ELSE late
    /\ UNCHANGED lost

PutBackFails(w) ==
    /\ w \in OneShot
    /\ lost' = lost \cup {w}
    /\ UNCHANGED <<held, late>>

DispatchPromptFails(h, w) ==
    /\ w \in fire[h].todo
    /\ fire' = [fire EXCEPT ![h].todo = @ \ {w}, ![h].err = TRUE]
    /\ \/ /\ PutBack(h, w)
          /\ \/ fire[h].live /\ WatchFault
             \/ ~fire[h].live /\ NoWatchFault
       \/ PutBackFails(w) /\ WatchFault
    /\ \/ UNCHANGED <<prompts, doubts>>
       \/ /\ prompts' = [prompts EXCEPT ![w] = @ + 1]
          /\ doubts' = [doubts EXCEPT ![w] = @ + 1]
    /\ UNCHANGED <<reg, ended, happened, notice, events, watchCrashes, cancelled, missed>>

\* 200 when every prompt was sent, 502 otherwise, which synapse retries.
AnswerFire(h) ==
    /\ fire[h].on # {} /\ fire[h].todo = {}
    /\ fire' = [fire EXCEPT ![h] = NoRequest]
    /\ \/ /\ ~fire[h].live
          /\ UNCHANGED <<notice, missed>>
       \/ /\ fire[h].live /\ ~fire[h].err
          /\ notice' = [t \in Targets |-> IF t \in fire[h].on THEN NoNotice ELSE notice[t]]
          /\ UNCHANGED missed
       \/ /\ fire[h].live /\ fire[h].err
          /\ \E t \in fire[h].on : RetryOrGiveUp(t)
    /\ UNCHANGED <<reg, held, ended, happened, events, watchCrashes, watchFaults,
                   prompts, doubts, cancelled, lost, late>>

HaroCrash ==
    /\ watchCrashes < MaxCrashes
    /\ watchCrashes' = watchCrashes + 1
    /\ lost' = lost \cup (OneShot \cap UNION {fire[h].todo : h \in Handlers})
    /\ fire' = [h \in Handlers |-> NoRequest]
    /\ reg' = [w \in Watches |-> IF reg[w] \in {"validated", "inserted"} THEN "refused" ELSE reg[w]]
    /\ notice' = [t \in Targets |-> IF notice[t].pc = "wait" THEN [notice[t] EXCEPT !.pc = "send"]
                                                             ELSE notice[t]]
    /\ UNCHANGED <<held, ended, happened, events, watchFaults,
                   prompts, doubts, cancelled, missed, late>>
--------------------
WatchWork ==
    \/ \E w \in Watches : InsertEventTrigger(w) \/ RecheckTarget(w)
    \/ \E t \in Targets : CheckEventTriggers(t)
    \/ \E t \in Targets, h \in Handlers : ClaimEventTriggers(t, h)
    \/ \E h \in Handlers, w \in Watches : DispatchPromptOK(h, w) \/ DispatchPromptFails(h, w)
    \/ \E h \in Handlers : AnswerFire(h)

WatchNext ==
    \/ WatchWork
    \/ \E w \in Watches : HandleWatchEvent(w) \/ HandleCancelEventWatch(w)
    \/ \E t \in Targets : TargetEnds(t) \/ HandleEventsWebhook(t)
                          \/ SendFails(t) \/ ClientTimesOut(t)
    \/ SynapseCrash \/ HaroCrash

\* Goroutines, the HTTP client and River keep running.
WatchFairness == WF_watchVars(WatchWork)

WatchSpec == WatchInit /\ [][WatchNext]_watchVars /\ WatchFairness
--------------------
InHand(w) == {h \in Handlers : w \in fire[h].todo}

\* A one-shot watch has at most one owner, the table or one fire request, so
\* that two events, or an event and its own retry, cannot both take it; eri is
\* asked more than once only for a prompt it took while haro missed the answer.
OneShotWatchFiresOnce ==
    \A w \in OneShot :
        /\ Cardinality(InHand(w)) <= 1
        /\ InHand(w) # {} => w \notin held
        /\ prompts[w] <= 1 + doubts[w]

\* A registered watch that nobody has cancelled and that has not fired is in the
\* table or in a request's hands, through every failed dispatch: only a crash of
\* haro, a failed re-insertion or a claim whose answer is lost loses it.  A
\* persistent watch stays for ever.
NoWatchVanishes ==
    \A w \in Watches :
        /\ reg[w] = "registered"
        /\ w \notin cancelled
        /\ w \notin lost
        /\ w \in OneShot => prompts[w] = 0
        => w \in held \/ (w \in OneShot /\ InHand(w) # {})

\* The check after the insertion closes the race between a registration and the
\* end of its target: no registered watch waits for a target that has ended the way
\* it waits for and whose event nobody is going to fire.  The exceptions are events
\* synapse has given up and watches put back after its last request.
NoStrandedWatch ==
    \A w \in held :
        /\ reg[w] = "registered"
        /\ TargetOf[w] \in ended
        /\ happened[TargetOf[w]] = TypeOf[w]
        /\ w \in OneShot
        => \/ notice[TargetOf[w]].pc # "idle"
           \/ InHand(w) # {}
           \/ TargetOf[w] \in missed
           \/ w \in late

\* Once the user has been told that a one-shot watch is cancelled, its prompt is
\* not sent.
SilentWhenCancelled ==
    \A w \in OneShot \cap cancelled : prompts'[w] = prompts[w]
CancelledWatchIsSilent == [][SilentWhenCancelled]_watchVars

\* A webhook that synapse has accepted is answered or given up after a bounded
\* number of attempts, whatever fails on the way.
NoticeOpen(t) == notice[t].pc = "send"
NoticeOver(t) == notice[t].pc = "idle"
NoticeEnds == \A t \in Targets : NoticeOpen(t) ~> NoticeOver(t)

\* Event watches over two services: fired once, not lost, not left waiting for an
\* event that is over, through crashes, lost answers and retries.
WatchesAreSound ==
    /\ WatchTypeOK /\ OneShotWatchFiresOnce /\ NoWatchVanishes /\ NoStrandedWatch
====================
