----------- MODULE VoicePool -----------
(* Voice turns of one device: WorkerPool.ExecuteVoiceTurn (pkg/queue), *)
(* the GeminiAPIPool it speaks through and the DynamicVoicePool that swaps *)
(* pools when the configuration changes (pkg/runner).  The conversation is *)
(* kept twice, in the memory of a session and in a transcript file; a new *)
(* session reads the file.  The voice pool is built without session *)
(* records, so a session is the device's and is never rotated. *)
(*  *)
(* A turn is a number; a message of the history is its turn and role, and *)
(* so is a line of the file.  Of the text of a stream only the round it *)
(* came in is kept. *)
EXTENDS Naturals, Sequences, SequencesExt, FiniteSets

CONSTANTS
    MaxHistoryTurns,   \* GeminiAPIPoolConfig.MaxHistoryTurns
    MaxToolRounds,     \* maxToolIterations
    VoiceBudgets       \* bounds: turns, reloads, closes, restarts, failures

ASSUME VoiceAssumption == MaxHistoryTurns \in Nat \ {0} /\ MaxToolRounds \in Nat \ {0}

VARIABLES
    script,     \* the transcript file: its whole lines
    torn,       \* it ends in half a line, which the next line runs into
    heard,      \* the turns answered so far, in the order they ended
    elder,      \* the turn a process that is being replaced still runs, or 0
    vpools,     \* the pools built so far and their session of the device
    vcur,       \* DynamicVoicePool.currentPool, 0 for none
    reload,     \* the MarkDirty that holds reloadMu
    closing,    \* DynamicVoicePool.Close
    objects,    \* session objects created
    vturn,      \* the turn that holds the device's scope lock
    voiceBudget

voiceVars == <<script, torn, heard, elder, vpools, vcur, reload, closing, objects, vturn, voiceBudget>>
conversation == <<script, torn, heard, elder>>

NoSession == [obj |-> 0, hist |-> << >>, blind |-> FALSE]
NoSink == [emitted |-> FALSE, purged |-> FALSE, acc |-> {}, held |-> << >>, spoken |-> << >>]
NoVoiceTurn ==
    [pc |-> "idle", id |-> 0, pool |-> 0, sess |-> NoSession, round |-> 0, text |-> {},
     sent |-> 0, request |-> << >>, sink |-> NoSink]

NoReload == [pc |-> "idle", cand |-> 0]
OpenPool == [state |-> "open", sess |-> NoSession]

VoiceInit ==
    /\ script = << >> /\ torn = FALSE /\ heard = << >> /\ elder = 0 /\ vpools = <<OpenPool>> /\ vcur = 1
    /\ reload = NoReload /\ closing = "no"
    /\ objects = 0 /\ vturn = NoVoiceTurn
    /\ voiceBudget \in VoiceBudgets

SpendVoice(what) == voiceBudget[what] > 0 /\ voiceBudget' = [voiceBudget EXCEPT ![what] = @ - 1]

--------------------
(* The conversation. *)

LastOf(s, n) == IF Len(s) > n THEN SubSeq(s, Len(s) - n + 1, Len(s)) ELSE s
User(t) == [role |-> "user", turn |-> t]
Model(t) == [role |-> "model", turn |-> t]

Blank == [role |-> "none", turn |-> 0]    \* an entry without content

HydrateOldest(file) == SubSeq(file, 1, IF Len(file) > 2 * MaxHistoryTurns THEN 2 * MaxHistoryTurns ELSE Len(file))
\* hydrateHistory: an entry without content is skipped.
HydrateHistory(file) == LastOf(SelectSeq(file, LAMBDA m : m # Blank), 2 * MaxHistoryTurns)

\* A file that cannot be read is an empty history.
Hydrates(h) ==
    \/ h = HydrateHistory(script) /\ UNCHANGED voiceBudget
    \/ h = << >> /\ script # << >> /\ SpendVoice("failures")
Histories == {HydrateHistory(script), << >>}

\* finalizeTurnHistory: memory takes answered turns, the file takes all.
FinalizeTurnHistory(h, t, answered) ==
    LastOf(IF answered THEN h \o <<User(t), Model(t)>> ELSE h, 2 * MaxHistoryTurns)

\* appendTranscript: one Write of both lines, appended.  Whatever fails in it
\* is only logged; of a Write that was cut some whole lines are left, and half
\* of the next one, which nobody can read and which swallows a line later.
AppendTranscript(t, answered) ==
    \E whole \in 0..2, half \in BOOLEAN :
        LET lines == SubSeq(<<User(t), IF answered THEN Model(t) ELSE Blank>>, 1, whole) IN
        /\ IF whole = 2 THEN ~half /\ UNCHANGED voiceBudget ELSE SpendVoice("failures")
        /\ script' = script \o (IF torn /\ whole > 0 THEN Tail(lines) ELSE lines)
        /\ torn' = (half \/ (torn /\ whole = 0))
        /\ heard' = IF answered THEN Append(heard, t) ELSE heard

\* GetOrCreateSession in a pool that is open.
NewSession(h) == [obj |-> objects + 1, hist |-> h, blind |-> FALSE]

--------------------
(* The sinks.  The sentence detector holds text until a sentence ends. *)

\* Whether the text held so far ends a sentence is up to the text.
FindSentenceBoundary == BOOLEAN

\* OnTextDelta
Fed(k, round, whole) ==
    LET held == Append(k.held, round) IN
    IF whole THEN [k EXCEPT !.acc = @ \cup {round}, !.spoken = @ \o held, !.held = << >>, !.emitted = TRUE]
    ELSE [k EXCEPT !.acc = @ \cup {round}, !.held = held]

\* resetIntermediateBuffer, at a tool call and when it has completed.
ResetIntermediateBuffer(k) ==
    [k EXCEPT !.purged = @ \/ k.acc # {} \/ k.emitted, !.acc = {}, !.emitted = FALSE]

FlushedHeld(k) == IF k.held = << >> THEN k
              ELSE [k EXCEPT !.spoken = @ \o k.held, !.held = << >>, !.emitted = TRUE]

\* What OnResult makes of the response of all rounds.
Response(k, text) == IF k.acc # {} THEN k.acc ELSE IF k.purged THEN {} ELSE text

\* OnComplete, and finalizeVoiceTurnOutcome: a response that was not emitted
\* is spoken at the end.
Completed(k, text) ==
    LET f == FlushedHeld(k) IN
    IF ~f.emitted /\ Response(k, text) # {}
    THEN [f EXCEPT !.spoken = @ \o SetToSeq(Response(k, text)), !.emitted = TRUE]
    ELSE f

\* OnError: what the listener has begun to hear is completed.
Rescued(k) == IF k.acc # {} \/ k.emitted THEN Completed(k, k.acc) ELSE k

--------------------
(* A voice turn. *)

\* ExecuteVoiceTurn up to the scope lock: one turn of a device at a time.
ExecuteVoiceTurn ==
    /\ SpendVoice("turns") /\ vturn.pc = "idle"
    /\ vturn' = [NoVoiceTurn EXCEPT !.pc = "choose", !.id = vturn.id + 1]
    /\ UNCHANGED <<conversation, vpools, vcur, reload, closing, objects>>

\* The lease's Execute returns and the lease is released, without rotation.
EndTurn(t) == [NoVoiceTurn EXCEPT !.id = t.id, !.sink = t.sink]

\* activePool, then the lease in the pool it returned.
ActivePool ==
    /\ vturn.pc = "choose"
    /\ vturn' = IF vcur = 0 THEN EndTurn(vturn) ELSE [vturn EXCEPT !.pc = "lease", !.pool = vcur]
    /\ UNCHANGED <<conversation, vpools, vcur, reload, closing, objects, voiceBudget>>

AcquireLease ==
    /\ vturn.pc = "lease"
    /\ LET p == vturn.pool IN
       \/ /\ vpools[p].state = "closed"
          /\ vturn' = EndTurn(vturn) /\ UNCHANGED <<vpools, objects, voiceBudget>>
       \/ /\ vpools[p].state # "closed" /\ vpools[p].sess.obj # 0
          /\ vturn' = [vturn EXCEPT !.pc = "send", !.sess = vpools[p].sess]
          /\ UNCHANGED <<vpools, objects, voiceBudget>>
       \/ /\ vpools[p].state # "closed" /\ vpools[p].sess.obj = 0
          /\ \E h \in Histories :
                /\ Hydrates(h)
                /\ vpools' = [vpools EXCEPT ![p].sess = NewSession(h)]
                /\ vturn' = [vturn EXCEPT !.pc = "send", !.sess = NewSession(h)]
          /\ objects' = objects + 1
    /\ UNCHANGED <<conversation, vcur, reload, closing>>

\* The history and the prompt; context retrieved for it is not kept.
Request(s) == Append(s.hist, User(vturn.id))

\* The head of Send: a session without history reads the file again.
Send ==
    /\ vturn.pc = "send"
    /\ \/ /\ vpools[vturn.pool].state = "closed"
          /\ vturn' = EndTurn(vturn) /\ UNCHANGED voiceBudget
       \/ /\ vpools[vturn.pool].state # "closed"
          /\ \E h \in Histories \cup {vturn.sess.hist} :
                /\ IF vturn.sess.hist # << >> THEN h = vturn.sess.hist /\ UNCHANGED voiceBudget ELSE Hydrates(h)
                /\ LET s == IF vturn.sess.hist # << >> THEN vturn.sess
                            ELSE [vturn.sess EXCEPT !.hist = h, !.blind = FALSE]
                   IN vturn' = [vturn EXCEPT !.pc = "stream", !.sess = s, !.round = 1, !.sent = 1,
                                             !.request = Request(s)]
    /\ UNCHANGED <<conversation, vpools, vcur, reload, closing, objects>>

ProcessSSEPart ==
    /\ vturn.pc \in {"stream", "fallback"} /\ vturn.round \notin vturn.text
    /\ \E whole \in FindSentenceBoundary :
        vturn' = [vturn EXCEPT !.text = @ \cup {vturn.round}, !.sink = Fed(@, vturn.round, whole)]
    /\ UNCHANGED <<conversation, vpools, vcur, reload, closing, objects, voiceBudget>>

\* The stream ends with calls of tools or without.
ConsumeSSEStream ==
    /\ vturn.pc = "stream"
    /\ \E calls \in BOOLEAN : vturn' = [vturn EXCEPT !.pc = IF calls THEN "tools" ELSE "after"]
    /\ UNCHANGED <<conversation, vpools, vcur, reload, closing, objects, voiceBudget>>

\* A refused request, a broken stream or a client that went away: the text
\* so far is rescued for the listener, the turn fails and is not remembered.
FailTurn ==
    /\ SpendVoice("failures") /\ vturn.pc = "stream"
    /\ vturn' = EndTurn([vturn EXCEPT !.sink = Rescued(@)])
    /\ UNCHANGED <<conversation, vpools, vcur, reload, closing, objects>>

AnotherRound(round) == round < MaxToolRounds

ExecutePendingToolCalls ==
    /\ vturn.pc = "tools"
    /\ vturn' = IF AnotherRound(vturn.round)
                THEN [vturn EXCEPT !.pc = "stream", !.round = @ + 1, !.sent = @ + 1,
                                   !.sink = ResetIntermediateBuffer(@)]
                ELSE [vturn EXCEPT !.pc = "after", !.round = @ + 1, !.sink = ResetIntermediateBuffer(@)]
    /\ UNCHANGED <<conversation, vpools, vcur, reload, closing, objects, voiceBudget>>

\* runEmptyTextFallbackStream asks once more, without tools, when there is
\* no text but more to go on than the prompt alone.
RunEmptyTextFallback ==
    /\ vturn.pc = "after"
    /\ vturn' = IF vturn.text = {} /\ (Len(vturn.request) > 1 \/ vturn.round > 1)
                THEN [vturn EXCEPT !.pc = "fallback", !.sent = @ + 1]
                ELSE [vturn EXCEPT !.pc = "finalize"]
    /\ UNCHANGED <<conversation, vpools, vcur, reload, closing, objects, voiceBudget>>

\* Its stream ends; an error of it is only logged.
FallbackEnds ==
    /\ vturn.pc = "fallback"
    /\ vturn' = [vturn EXCEPT !.pc = "finalize"]
    /\ UNCHANGED <<conversation, vpools, vcur, reload, closing, objects, voiceBudget>>

\* finalizeTurnHistory, the result's way through the sinks and Release.  The
\* session may by now belong to no pool; a session that another pool has
\* already read from the file does not learn of the turn.
FinalizeVoiceTurnOutcome ==
    /\ vturn.pc = "finalize"
    /\ LET answered == vturn.text # {}
           h == FinalizeTurnHistory(vturn.sess.hist, vturn.id, answered)
           p == vturn.pool
       IN /\ AppendTranscript(vturn.id, answered)
          /\ vpools' = [q \in DOMAIN vpools |->
                          IF vpools[q].sess.obj = vturn.sess.obj
                          THEN [vpools[q] EXCEPT !.sess = [vturn.sess EXCEPT !.hist = h]]
                          ELSE [vpools[q] EXCEPT !.sess.blind = q # p /\ vpools[q].sess.obj # 0]]
          /\ vturn' = EndTurn([vturn EXCEPT !.sink = Completed(@, vturn.text)])
    /\ UNCHANGED <<elder, vcur, reload, closing, objects>>

VoiceWork ==
    \/ ActivePool \/ AcquireLease \/ Send \/ ProcessSSEPart \/ ConsumeSSEStream
    \/ ExecutePendingToolCalls \/ RunEmptyTextFallback \/ FallbackEnds \/ FinalizeVoiceTurnOutcome

\* A process that is being replaced ends its turn, which the sessions of the
\* new one that have read the file do not learn of.
ElderEnds ==
    /\ elder # 0 /\ elder' = 0
    /\ \E answered \in BOOLEAN : AppendTranscript(elder, answered)
    /\ vpools' = [q \in DOMAIN vpools |-> [vpools[q] EXCEPT !.sess.blind = @ \/ vpools[q].sess.obj # 0]]
    /\ vturn' = [vturn EXCEPT !.sess.blind = @ \/ vturn.sess.obj # 0]
    /\ UNCHANGED <<vcur, reload, closing, objects>>
ElderIsKilled ==
    /\ elder # 0 /\ elder' = 0
    /\ UNCHANGED <<script, torn, heard, vpools, vcur, reload, closing, objects, vturn, voiceBudget>>

--------------------
(* Hot reload. *)

\* MarkDirty with an unchanged fingerprint: the sessions are forgotten.
MarkDirtySameKey ==
    /\ SpendVoice("reloads") /\ reload.pc = "idle" /\ closing = "no"
    /\ vpools' = [vpools EXCEPT ![vcur].sess = NoSession]
    /\ UNCHANGED <<conversation, vcur, reload, closing, objects, vturn>>

MarkDirtyNewKey ==
    /\ SpendVoice("reloads") /\ reload.pc = "idle" /\ closing = "no"
    /\ vpools' = Append(vpools, OpenPool)
    /\ reload' = [pc |-> "init", cand |-> Len(vpools) + 1]
    /\ UNCHANGED <<conversation, vcur, closing, objects, vturn>>

\* Initialize prewarms the device, of a candidate and of the pool a process
\* starts with: its session reads the file now.
InitializeCandidate ==
    /\ reload.pc \in {"init", "boot"}
    /\ IF vpools[reload.cand].sess.obj = 0 /\ vpools[reload.cand].state # "closed"
       THEN /\ \E h \in Histories : /\ Hydrates(h)
                                    /\ vpools' = [vpools EXCEPT ![reload.cand].sess = NewSession(h)]
            /\ objects' = objects + 1
       ELSE UNCHANGED <<vpools, objects, voiceBudget>>
    /\ reload' = IF reload.pc = "init" THEN [reload EXCEPT !.pc = "swap"] ELSE NoReload
    /\ UNCHANGED <<conversation, vcur, closing, vturn>>

ClosedPool == [state |-> "closed", sess |-> NoSession]

InitializeFails ==
    /\ SpendVoice("failures") /\ reload.pc = "init"
    /\ vpools' = [vpools EXCEPT ![reload.cand] = ClosedPool]
    /\ reload' = NoReload
    /\ UNCHANGED <<conversation, vcur, closing, objects, vturn>>

\* The parent may have been closed while the candidate was built.
SwapPools ==
    /\ reload.pc = "swap"
    /\ IF closing # "no"
       THEN vpools' = [vpools EXCEPT ![reload.cand] = ClosedPool] /\ UNCHANGED vcur
       ELSE vpools' = [vpools EXCEPT ![vcur].state = "retiring"] /\ vcur' = reload.cand
    /\ reload' = NoReload
    /\ UNCHANGED <<conversation, closing, objects, vturn, voiceBudget>>

RetireOld ==
    /\ \E p \in DOMAIN vpools : vpools[p].state = "retiring" /\ vpools' = [vpools EXCEPT ![p] = ClosedPool]
    /\ UNCHANGED <<conversation, vcur, reload, closing, objects, vturn, voiceBudget>>

CloseBegins ==
    /\ SpendVoice("closes") /\ closing = "no"
    /\ vpools' = [vpools EXCEPT ![vcur] = ClosedPool]
    /\ vcur' = 0 /\ closing' = "waiting"
    /\ UNCHANGED <<conversation, reload, objects, vturn>>

\* retiringWg.Wait
CloseReturns ==
    /\ closing = "waiting" /\ \A p \in DOMAIN vpools : vpools[p].state # "retiring"
    /\ closing' = "done"
    /\ UNCHANGED <<conversation, vpools, vcur, reload, objects, vturn, voiceBudget>>

\* A new process takes the device over, with the file alone; the old one may
\* still be at the end of a turn.
VoiceRestart ==
    /\ SpendVoice("restarts")
    /\ elder' = IF vturn.pc \in {"stream", "tools", "after", "fallback", "finalize"} THEN vturn.id ELSE elder
    /\ vpools' = <<OpenPool>> /\ vcur' = 1 /\ closing' = "no"
    /\ \E warm \in BOOLEAN : reload' = IF warm THEN [pc |-> "boot", cand |-> 1] ELSE NoReload
    /\ vturn' = EndTurn([vturn EXCEPT !.sink = NoSink])
    /\ UNCHANGED <<script, torn, heard, objects>>

ReloadWork == InitializeCandidate \/ SwapPools \/ RetireOld \/ CloseReturns

VoiceNext ==
    \/ ExecuteVoiceTurn \/ VoiceWork \/ FailTurn
    \/ MarkDirtySameKey \/ MarkDirtyNewKey \/ InitializeFails \/ ReloadWork
    \/ CloseBegins \/ VoiceRestart \/ ElderEnds \/ ElderIsKilled

\* A goroutine that can go on does, and a stream ends.
VoiceSpec == VoiceInit /\ [][VoiceNext]_voiceVars /\ WF_voiceVars(VoiceWork) /\ WF_voiceVars(ReloadWork)

--------------------
(* Properties. *)

Answered(h) == SelectSeq(h, LAMBDA m : m.role = "model")

\* Every variable has its type, and a history keeps its bound.
VoiceTypeOK ==
    /\ vcur \in 0..Len(vpools) /\ reload.cand \in 0..Len(vpools)
    /\ reload.pc \in {"idle", "init", "boot", "swap"} /\ closing \in {"no", "waiting", "done"}
    /\ \A p \in DOMAIN vpools : /\ vpools[p].state \in {"open", "retiring", "closed"}
                                /\ Len(vpools[p].sess.hist) <= 2 * MaxHistoryTurns
    /\ vturn.pc \in {"idle", "choose", "lease", "send", "stream", "tools", "after", "fallback", "finalize"}

Unwritten == {t \in Range(heard) : Model(t) \notin Range(script)}
TurnsWritten(turns) == SelectSeq(turns, LAMBDA t : t \notin Unwritten)

\* A request carries the last answered turns of the conversation without a
\* gap, across reloads, restarts and forgotten sessions.  Not counted are the
\* turns whose answer the file lacks because writing it failed, and a session
\* is exempt that had read the file when a turn of another pool or of the
\* process before was written (appendTranscript, DynamicVoicePool.MarkDirty).
MemoryHasNoGap ==
    (vturn.pc = "stream" /\ ~vturn.sess.blind) =>
        LET remembered == Answered(vturn.request)
        IN IsSuffix(TurnsWritten([i \in DOMAIN remembered |-> remembered[i].turn]), TurnsWritten(heard))

\* As long as every turn was answered and written in full, user and model
\* alternate in what is sent, from the user's first word: trimming cuts pairs.
RequestsAlternate ==
    (vturn.pc = "stream" /\ script = FoldLeft(LAMBDA f, t : f \o <<User(t), Model(t)>>, << >>, heard)) =>
        \A i \in DOMAIN vturn.request : vturn.request[i].role = IF i % 2 = 1 THEN "user" ELSE "model"

\* What was streamed is spoken once: text from before a tool call that was
\* already spoken is not repeated with the result (BufferingTurnSink's purge).
NothingIsSpokenTwice == IsInjective(vturn.sink.spoken)

\* A turn asks the model at most MaxToolRounds times and once more for text.
RequestsAreBounded == vturn.sent <= MaxToolRounds + 1

\* While it is not closed the voice pool always has an open pool, and one
\* that Close has finished with leaves none open, not even a candidate that
\* was being built: a reload neither leaks a pool nor revives a closed one.
PoolsAreAccountedFor ==
    /\ closing = "no" => vcur # 0 /\ vpools[vcur].state = "open"
    /\ (closing = "done" /\ reload.pc = "idle") => \A p \in DOMAIN vpools : vpools[p].state = "closed"
    /\ (reload.pc = "idle" /\ closing = "no") =>
           \A p \in DOMAIN vpools \ {vcur} : vpools[p].state # "open"

\* A voice turn ends, and with it the device's lock is free again.
VoiceTurnOver == vturn.pc = "idle"
VoiceTurnsEnd == ~VoiceTurnOver ~> VoiceTurnOver

\* A voice conversation is continuous and bounded while pools are reloaded, closed
\* and restarted under it.
VoiceIsSound ==
    /\ VoiceTypeOK /\ MemoryHasNoGap /\ RequestsAlternate /\ NothingIsSpokenTwice
    /\ RequestsAreBounded /\ PoolsAreAccountedFor
====================
