----------- MODULE PhoneCall -----------
(* prospera: one phone call from its row in voice_calls to its report. *)
(* Twilio's webhooks, the media session that bridges the line to Gemini, *)
(* the operator's end_call, the batcher of live transcripts and the report *)
(* run side by side and meet in the row. *)
EXTENDS Naturals, FiniteSets

CONSTANTS MaxTurns,        \* bound: [CallKinds -> turns spoken]
          MaxCallFaults    \* bound

CallKinds == {"outbound", "inbound", "voicemail"}
\* The goroutines that post to Discord: the batcher of live transcripts, the
\* report of the operator's end_call, that of the status webhook, and the
\* voicemail recording.
Posters == {"batch", "operator", "status", "recording"}
Hooks == {"voice", "amd", "status", "recording"}

VARIABLES
    kind,       \* what sort of call this is
    callRow,    \* the row in voice_calls
    line,       \* the call at Twilio
    hooks,      \* Twilio's webhooks under way: delivered in any order
    amdRead,    \* the state handleTwilioAMD has read and writes back
    dialler,    \* InitiateCall's progress
    token,      \* a stream token waits to be consumed
    media,      \* the MediaStreamSession
    poster,     \* [Posters -> where it is and what it has read]
    ending,     \* the end_call tool's progress and the row it has read
    livePosted, \* transcript turns posted to Discord
    summaries,  \* reports posted to Discord
    recording,  \* the voicemail's recording was handed over
    spoken,     \* ghost: turns spoken on the line
    cutOff,     \* ghost: turns whose append failed: context, database or no row
    callFaults

callVars == <<kind, callRow, line, hooks, amdRead, dialler, token, media, poster, ending,
              livePosted, summaries, recording, spoken, cutOff, callFaults>>

NoRow == [state |-> "none", ended |-> FALSE, bound |-> FALSE, turns |-> 0, cursor |-> 0, report |-> "none"]
NoMedia == [pc |-> "none", start |-> FALSE, hangup |-> FALSE, mark |-> "no",
            frames |-> FALSE, buffer |-> FALSE, taken |-> FALSE]
Lounging == [pc |-> "idle", total |-> 0, cursor |-> 0]
NotEnding == [pc |-> "idle", bound |-> FALSE]
Terminal == {"completed", "no-answer", "failed"}    \* busy and canceled are as no-answer

CallTypeOK ==
    /\ callRow.cursor <= callRow.turns /\ callRow.turns <= spoken
    /\ callRow.report \in {"none", "pending", "awaiting_recording", "processing", "delivered", "failed"}
    /\ media.pc \in {"none", "run", "cut"} /\ (media.pc = "none" => media = NoMedia)
    /\ hooks \subseteq Hooks
    /\ \A p \in Posters : poster[p].pc \in {"idle", "claim", "flush", "live", "advance", "post"}

CallInit ==
    /\ kind \in CallKinds
    /\ callRow = NoRow /\ line = "none" /\ hooks = {} /\ amdRead = "none"
    /\ dialler = "idle" /\ token = FALSE
    /\ media = NoMedia
    /\ poster = [p \in Posters |-> Lounging]
    /\ ending = NotEnding
    /\ livePosted = 0 /\ summaries = 0 /\ recording = FALSE
    /\ spoken = 0 /\ cutOff = 0 /\ callFaults = 0

--------------------
(* The row *)

\* UpdateCallState: the state is overwritten, whatever it was; the end of the
\* call is recorded once and stays.  A call without a row finds nothing to write.
UpdateCallState(r, s) == IF r = NoRow THEN r ELSE [r EXCEPT !.state = s, !.ended = @ \/ s \in Terminal]
Bind(r) == IF r = NoRow THEN r ELSE [r EXCEPT !.bound = TRUE]

CallFault == callFaults < MaxCallFaults /\ callFaults' = callFaults + 1

\* AppendTranscriptTurn: when it fails, for want of a row or of the database, the
\* error is logged and the turn is gone.
Appended(has, kept) ==
    /\ kept => has /\ callRow # NoRow
    /\ cutOff' = cutOff + (IF has /\ ~kept THEN 1 ELSE 0)
    /\ IF has /\ ~kept /\ callRow # NoRow THEN CallFault ELSE UNCHANGED callFaults
WithTurn(kept) == IF kept THEN [callRow EXCEPT !.turns = @ + 1] ELSE callRow

\* TransitionReportStatus, the compare-and-swap both kinds of report start with.
ClaimAny(r, from) == TRUE
MayClaim(r, from) == r.report \in from

\* InitiateCall: the row, then Twilio, then the provider's id.
Dial ==
    /\ kind = "outbound" /\ dialler = "idle" /\ callRow = NoRow
    /\ callRow' = [NoRow EXCEPT !.state = "initiated", !.report = "pending"]
    /\ dialler' = "created"
    /\ UNCHANGED <<kind, line, hooks, amdRead, token, media, poster, ending, livePosted, summaries,
                   recording, spoken, cutOff, callFaults>>

CreateCall ==
    /\ dialler = "created"
    /\ \/ /\ line' = "queued" /\ dialler' = "bind"
          /\ UNCHANGED <<callRow, callFaults>>
       \/ /\ CallFault
          /\ callRow' = UpdateCallState(callRow, "failed")
          /\ dialler' = "done" /\ UNCHANGED line
    /\ UNCHANGED <<kind, hooks, amdRead, token, media, poster, ending, livePosted, summaries,
                   recording, spoken, cutOff>>

BindProviderCallSID ==
    /\ dialler = "bind"
    /\ callRow' = Bind(callRow) /\ dialler' = "done"
    /\ UNCHANGED <<kind, line, hooks, amdRead, token, media, poster, ending, livePosted, summaries,
                   recording, spoken, cutOff, callFaults>>

--------------------
(* The line, as Twilio reports it *)

\* Somebody calls, or the callee answers: Twilio asks what to do with the call.
\* Answering machine detection reports on outbound calls later.
PickUp ==
    /\ \/ kind # "outbound" /\ line = "none"
       \/ kind = "outbound" /\ line = "queued"
    /\ line' = "live"
    /\ hooks' = hooks \cup {"voice"} \cup (IF kind = "outbound" THEN {"amd"} ELSE {})
    /\ UNCHANGED <<kind, callRow, amdRead, dialler, token, media, poster, ending, livePosted, summaries,
                   recording, spoken, cutOff, callFaults>>

\* The line ends: the caller hangs up or nobody answers.  A caller may have
\* left a message.
LineEnds ==
    /\ line \in {"queued", "live"}
    /\ line' = "over"
    /\ \E msg \in IF kind = "voicemail" /\ callRow.report = "awaiting_recording" THEN BOOLEAN ELSE {FALSE} :
         hooks' = hooks \cup {"status"} \cup (IF msg THEN {"recording"} ELSE {})
    /\ UNCHANGED <<kind, callRow, amdRead, dialler, token, media, poster, ending, livePosted, summaries,
                   recording, spoken, cutOff, callFaults>>

\* handleTwilioVoice: an outbound call is looked up (and bound); an inbound one
\* gets its row, as a stream for known callers and as a recording for others.
\* When the row cannot be created the call goes on without one.
NewRow == [NoRow EXCEPT !.state = "in-progress", !.bound = TRUE,
                        !.report = IF kind = "inbound" THEN "pending" ELSE "awaiting_recording"]
HandleTwilioVoice ==
    /\ "voice" \in hooks
    /\ hooks' = hooks \ {"voice"}
    /\ \/ /\ callRow' = IF kind = "outbound" THEN Bind(callRow) ELSE NewRow
          /\ UNCHANGED callFaults
       \/ kind # "outbound" /\ CallFault /\ UNCHANGED callRow
    /\ token' = (kind # "voicemail")
    /\ UNCHANGED <<kind, line, amdRead, dialler, media, poster, ending, livePosted, summaries,
                   recording, spoken, cutOff>>

\* handleTwilioAMD reads the row, tells the session (AnsweringMachine), and
\* writes the state it has read back with the answer.
ReadAMD ==
    /\ "amd" \in hooks /\ amdRead = "none"
    /\ amdRead' = callRow.state
    /\ callRow' = Bind(callRow)
    /\ UNCHANGED <<kind, line, hooks, dialler, token, media, poster, ending, livePosted, summaries,
                   recording, spoken, cutOff, callFaults>>

WriteAMD ==
    /\ amdRead # "none"
    /\ callRow' = UpdateCallState(callRow, amdRead)
    /\ amdRead' = "none" /\ hooks' = hooks \ {"amd"}
    /\ UNCHANGED <<kind, line, dialler, token, media, poster, ending, livePosted, summaries,
                   recording, spoken, cutOff, callFaults>>

\* isTerminalState: what the status webhook starts a report for.
IsTerminal(s) == s \in Terminal

\* handleTwilioStatus: Twilio's word on the end of the call; it starts a report.
\* It is ignored for a call without a row.
HandleTwilioStatus(s) ==
    /\ "status" \in hooks
    /\ s = IF callRow.state = "initiated" THEN "no-answer" ELSE "completed"
    /\ hooks' = hooks \ {"status"}
    /\ IF callRow = NoRow
       THEN UNCHANGED <<callRow, poster>>
       ELSE /\ callRow' = UpdateCallState(Bind(callRow), s)
            /\ poster' = IF IsTerminal(s) THEN [poster EXCEPT !["status"].pc = "claim"] ELSE poster
    /\ UNCHANGED <<kind, line, amdRead, dialler, token, media, ending, livePosted, summaries,
                   recording, spoken, cutOff, callFaults>>

HandleTwilioVoicemail ==
    /\ "recording" \in hooks
    /\ hooks' = hooks \ {"recording"}
    /\ recording' = TRUE
    /\ poster' = IF callRow = NoRow THEN poster ELSE [poster EXCEPT !["recording"].pc = "claim"]
    /\ UNCHANGED <<kind, callRow, line, amdRead, dialler, token, media, ending, livePosted, summaries,
                   spoken, cutOff, callFaults>>

--------------------
(* The media session *)

\* HandleMediaWebSocket consumes the token and registers the session; the token
\* may have expired, and Gemini may refuse the connection.
OpenStream ==
    /\ token /\ media.pc = "none" /\ line = "live"
    /\ token' = FALSE
    /\ \/ media' = [NoMedia EXCEPT !.pc = "run"] /\ UNCHANGED callFaults
       \/ /\ CallFault
          /\ UNCHANGED media
    /\ UNCHANGED <<kind, callRow, line, hooks, amdRead, dialler, poster, ending, livePosted, summaries,
                   recording, spoken, cutOff>>

Running == media.pc = "run"

\* handleTwilioStart
StreamStart ==
    /\ Running /\ ~media.start
    /\ media' = [media EXCEPT !.start = TRUE]
    /\ callRow' = UpdateCallState(Bind(callRow), "in-progress")
    /\ UNCHANGED <<kind, line, hooks, amdRead, dialler, token, poster, ending, livePosted, summaries,
                   recording, spoken, cutOff, callFaults>>

\* handleServerContent: Gemini sends a transcription, and audio with it.
Speak ==
    /\ Running /\ media.start /\ spoken < MaxTurns[kind] /\ ~media.buffer /\ ~media.taken
    /\ spoken' = spoken + 1
    /\ media' = [media EXCEPT !.buffer = TRUE, !.frames = TRUE]
    /\ UNCHANGED <<kind, callRow, line, hooks, amdRead, dialler, token, poster, ending, livePosted,
                   summaries, recording, cutOff, callFaults>>

\* flushTranscriptBuf, by Gemini's loop: the buffer is emptied under the lock,
\* the turn appended after it, under the session's context.
TakeTurn ==
    /\ Running /\ media.buffer /\ ~media.taken
    /\ media' = [media EXCEPT !.buffer = FALSE, !.taken = TRUE]
    /\ UNCHANGED <<kind, callRow, line, hooks, amdRead, dialler, token, poster, ending, livePosted,
                   summaries, recording, spoken, cutOff, callFaults>>

AppendTurn ==
    /\ media.taken
    /\ media' = [media EXCEPT !.taken = FALSE]
    /\ IF media.pc = "run"
       THEN \E kept \in BOOLEAN : Appended(TRUE, kept) /\ callRow' = WithTurn(kept)
       ELSE cutOff' = cutOff + 1 /\ UNCHANGED <<callRow, callFaults>>
    /\ UNCHANGED <<kind, line, hooks, amdRead, dialler, token, poster, ending, livePosted, summaries,
                   recording, spoken>>

\* enqueueOutboundUlaw's frames, one tick of pacerLoop at a time.
PaceFrame ==
    /\ Running /\ media.frames
    /\ media' = [media EXCEPT !.frames = FALSE]
    /\ UNCHANGED <<kind, callRow, line, hooks, amdRead, dialler, token, poster, ending, livePosted,
                   summaries, recording, spoken, cutOff, callFaults>>

\* An idle tick sends the hangup mark once; without a stream it goes nowhere.
PaceMark ==
    /\ Running /\ ~media.frames /\ media.hangup /\ media.mark = "no"
    /\ media' = [media EXCEPT !.mark = IF media.start THEN "wire" ELSE "lost"]
    /\ UNCHANGED <<kind, callRow, line, hooks, amdRead, dialler, token, poster, ending, livePosted,
                   summaries, recording, spoken, cutOff, callFaults>>

\* Gemini calls end_call: the hangup waits for the audio.
ToolEndCall ==
    /\ Running /\ media.start /\ ~media.hangup /\ ~media.taken
    /\ media' = [media EXCEPT !.hangup = TRUE]
    /\ UNCHANGED <<kind, callRow, line, hooks, amdRead, dialler, token, poster, ending, livePosted,
                   summaries, recording, spoken, cutOff, callFaults>>

HangUp == IF line = "live" THEN "over" ELSE line

\* flushPendingTranscripts by Twilio's loop, whose context is never cancelled.
FlushAndComplete == \E kept \in BOOLEAN :
    /\ Appended(media.buffer, kept)
    /\ callRow' = UpdateCallState(WithTurn(kept), "completed")

\* The mark comes back: everything was played.  handleTwilioHangupMark flushes,
\* hangs up and closes the call, and the session is over; when the hangup fails,
\* the stream was all there was to the call.
MarkReturns ==
    /\ Running /\ media.mark = "wire"
    /\ FlushAndComplete
    /\ media' = [media EXCEPT !.pc = "cut", !.buffer = FALSE]
    /\ line' = HangUp
    /\ hooks' = IF line = "live" THEN hooks \cup {"status"} ELSE hooks
    /\ UNCHANGED <<kind, amdRead, dialler, token, poster, ending, livePosted, summaries, recording,
                   spoken>>

\* The line is over: Twilio stops the stream, with or without saying so.
StreamStops ==
    /\ Running /\ line = "over"
    /\ \/ FlushAndComplete /\ media' = [media EXCEPT !.pc = "cut", !.buffer = FALSE]
       \/ media' = [media EXCEPT !.pc = "cut"] /\ UNCHANGED <<callRow, cutOff, callFaults>>
    /\ UNCHANGED <<kind, line, hooks, amdRead, dialler, token, poster, ending, livePosted, summaries,
                   recording, spoken>>

\* Gemini's connection breaks: readGeminiLoop dials the fallback model, unless
\* the call is being hung up; when that fails the stream is closed, and with it
\* the call.
GeminiBreaks ==
    /\ Running /\ ~media.taken
    /\ CallFault
    /\ \/ ~media.hangup /\ UNCHANGED <<media, line, hooks>>
       \/ /\ media' = [media EXCEPT !.pc = "cut"]
          /\ line' = HangUp
          /\ hooks' = IF line = "live" THEN hooks \cup {"status"} ELSE hooks
    /\ UNCHANGED <<kind, callRow, amdRead, dialler, token, poster, ending, livePosted, summaries,
                   recording, spoken, cutOff>>

\* Run's deferred flush, and deregisterSession.
CloseSession ==
    /\ media.pc = "cut" /\ ~media.taken
    /\ \E kept \in BOOLEAN : Appended(media.buffer, kept) /\ callRow' = WithTurn(kept)
    /\ media' = NoMedia
    /\ UNCHANGED <<kind, line, hooks, amdRead, dialler, token, poster, ending, livePosted, summaries,
                   recording, spoken>>

--------------------
(* The end_call tool *)

\* EndCall reads the row, tells the session, hangs up at Twilio when the row had
\* a provider id, marks the call completed and delivers the report itself.
EndCall ==
    /\ ending.pc = "idle" /\ callRow # NoRow /\ poster["operator"].pc = "idle" /\ summaries = 0
    /\ kind # "voicemail"
    /\ ending' = [pc |-> "hangup", bound |-> callRow.bound]
    /\ media' = IF Running THEN [media EXCEPT !.hangup = TRUE] ELSE media
    /\ UNCHANGED <<kind, callRow, line, hooks, amdRead, dialler, token, poster, livePosted, summaries,
                   recording, spoken, cutOff, callFaults>>

EndCallHangUp ==
    /\ ending.pc = "hangup"
    /\ ending' = [ending EXCEPT !.pc = "done"]
    /\ callRow' = UpdateCallState(callRow, "completed")
    /\ poster' = [poster EXCEPT !["operator"].pc = "claim"]
    /\ \/ /\ ending.bound /\ line \in {"queued", "live"}
          /\ line' = "over" /\ hooks' = hooks \cup {"status"} /\ UNCHANGED callFaults
       \/ /\ ending.bound /\ line \in {"queued", "live"}
          /\ CallFault /\ UNCHANGED <<line, hooks>>
       \/ /\ ~(ending.bound /\ line \in {"queued", "live"})
          /\ UNCHANGED <<line, hooks, callFaults>>
    /\ UNCHANGED <<kind, amdRead, dialler, token, media, livePosted, summaries, recording, spoken, cutOff>>

--------------------
(* Posting to Discord *)

PosterAt(p, pc) == [poster EXCEPT ![p].pc = pc]
Reports == {"operator", "status", "recording"}

\* flushActiveSessions: the batcher's tick over the registered sessions.
BatchTick ==
    /\ poster["batch"].pc = "idle" /\ media.pc # "none" /\ callRow.cursor < callRow.turns
    /\ poster' = PosterAt("batch", "flush")
    /\ UNCHANGED <<kind, callRow, line, hooks, amdRead, dialler, token, media, ending, livePosted,
                   summaries, recording, spoken, cutOff, callFaults>>

ClaimableBy(p) == IF p = "recording" THEN {"awaiting_recording"} ELSE {"pending"}

\* DeliverCallReport and ProcessVoicemailRecording claim the report; whoever
\* comes second has nothing to do.
ReportClaim(p) ==
    /\ poster[p].pc = "claim"
    /\ IF MayClaim(callRow, ClaimableBy(p))
       THEN /\ callRow' = [callRow EXCEPT !.report = "processing"]
            /\ poster' = PosterAt(p, IF p = "recording" THEN "post" ELSE "flush")
       ELSE /\ poster' = [poster EXCEPT ![p] = Lounging]
            /\ UNCHANGED callRow
    /\ UNCHANGED <<kind, line, hooks, amdRead, dialler, token, media, ending, livePosted, summaries,
                   recording, spoken, cutOff, callFaults>>

\* FlushLiveTranscript: the turns past the cursor are read, posted, and the
\* cursor advanced from where it was read.
FlushRead(p) ==
    /\ poster[p].pc = "flush"
    /\ poster' = [poster EXCEPT ![p] =
         IF callRow.cursor >= callRow.turns
         THEN IF p = "batch" THEN Lounging ELSE [@ EXCEPT !.pc = "post"]
         ELSE [pc |-> "live", total |-> callRow.turns, cursor |-> callRow.cursor]]
    /\ UNCHANGED <<kind, callRow, line, hooks, amdRead, dialler, token, media, ending, livePosted,
                   summaries, recording, spoken, cutOff, callFaults>>

AfterFlush(p) == [poster EXCEPT ![p] = IF p = "batch" THEN Lounging ELSE [@ EXCEPT !.pc = "post"]]

FlushPost(p) ==
    /\ poster[p].pc = "live"
    /\ \/ /\ livePosted' = IF poster[p].total > livePosted THEN poster[p].total ELSE livePosted
          /\ poster' = PosterAt(p, "advance") /\ UNCHANGED callFaults
       \/ /\ CallFault
          /\ poster' = AfterFlush(p) /\ UNCHANGED livePosted
    /\ UNCHANGED <<kind, callRow, line, hooks, amdRead, dialler, token, media, ending, summaries,
                   recording, spoken, cutOff>>

AdvanceLiveTranscriptCursor(r, w) == IF r.cursor = w.cursor THEN [r EXCEPT !.cursor = w.total] ELSE r

FlushAdvance(p) ==
    /\ poster[p].pc = "advance"
    /\ callRow' = AdvanceLiveTranscriptCursor(callRow, poster[p])
    /\ poster' = AfterFlush(p)
    /\ UNCHANGED <<kind, line, hooks, amdRead, dialler, token, media, ending, livePosted, summaries,
                   recording, spoken, cutOff, callFaults>>

\* The summary of the call as it was read, or the voicemail's audio, is posted;
\* the download or the post may fail.
ReportPost(p) ==
    /\ poster[p].pc = "post"
    /\ \/ /\ summaries' = summaries + 1
          /\ callRow' = [callRow EXCEPT !.report = "delivered"] /\ UNCHANGED callFaults
       \/ /\ CallFault
          /\ callRow' = [callRow EXCEPT !.report = "failed"] /\ UNCHANGED summaries
    /\ poster' = [poster EXCEPT ![p] = Lounging]
    /\ UNCHANGED <<kind, line, hooks, amdRead, dialler, token, media, ending, livePosted, recording,
                   spoken, cutOff>>

--------------------
(* A restart *)

\* Sessions, tokens and goroutines are gone and the webhooks of the outage with
\* them; a call that was streaming ends.  ReconcileOrphanedCalls then closes the
\* rows that have no provider id and those Twilio no longer knows as active.
ProsperaRestart ==
    /\ callRow # NoRow \/ line # "none"
    /\ CallFault
    /\ media' = NoMedia /\ token' = FALSE /\ amdRead' = "none"
    /\ dialler' = "done" /\ ending' = [NotEnding EXCEPT !.pc = "done"]
    /\ poster' = [p \in Posters |-> Lounging]
    /\ cutOff' = cutOff + (IF media.buffer THEN 1 ELSE 0) + (IF media.taken THEN 1 ELSE 0)
    /\ line' = IF media.pc = "run" /\ media.start THEN "over" ELSE line
    /\ hooks' \in SUBSET hooks
    /\ callRow' = IF callRow.ended THEN callRow
                  ELSE IF ~callRow.bound THEN UpdateCallState(callRow, "failed")
                  ELSE IF line' \in {"queued", "live"} THEN callRow
                  ELSE UpdateCallState(callRow, "completed")
    /\ UNCHANGED <<kind, livePosted, summaries, recording, spoken>>

CallSteps ==
    \/ Dial \/ CreateCall \/ BindProviderCallSID
    \/ HandleTwilioVoice \/ ReadAMD \/ WriteAMD \/ HandleTwilioVoicemail
    \/ \E s \in Terminal : HandleTwilioStatus(s)
    \/ OpenStream \/ StreamStart \/ AppendTurn \/ PaceFrame \/ PaceMark
    \/ MarkReturns \/ StreamStops \/ CloseSession
    \/ EndCallHangUp
    \/ \E p \in Reports : ReportClaim(p) \/ ReportPost(p)
    \/ \E p \in Posters : FlushRead(p) \/ FlushPost(p) \/ FlushAdvance(p)

CallNext ==
    \/ CallSteps
    \/ PickUp \/ LineEnds \/ Speak \/ TakeTurn \/ ToolEndCall \/ GeminiBreaks \/ EndCall \/ BatchTick
    \/ ProsperaRestart

CallFairness == WF_callVars(CallSteps)
CallSpec == CallInit /\ [][CallNext]_callVars /\ CallFairness

--------------------
\* One report of a call reaches Discord, however many of the operator's
\* end_call, the status webhook and the recording ask for it.
SummaryPostedOnce == summaries <= 1

\* A voicemail is reported with its recording: Twilio's status, which may come
\* before the recording, never uses the report up.
VoicemailWaitsForRecording == kind = "voicemail" /\ callRow.report \in {"processing", "delivered", "failed"} => recording

\* The live transcript in Discord has no gap: what lies before the cursor was
\* posted.
NothingSkippedLive == callRow.cursor <= livePosted

\* Two flushes of one transcript never set the cursor back, which would repeat
\* turns for ever.
CursorAdvances ==
    callRow'.cursor >= callRow.cursor
CursorOnlyAdvances == [][CursorAdvances]_callVars

\* When a session is gone, every turn spoken is in the row, except one whose append
\* failed: its context was cancelled, the database refused it, or the call has no row.
WordsAreKept == media.pc = "none" => callRow.turns + cutOff = spoken

\* When Twilio says that a call is over, its report is settled: delivered or
\* failed, not forgotten.  (A restart may forget it, and so does a status that
\* overtakes the webhook that creates an inbound call's row.)
ReportDue == "status" \in hooks /\ callRow.report = "pending" /\ callFaults = 0
ReportSettled == callRow.report \in {"delivered", "failed"} \/ callFaults > 0
EveryCallIsReported == ReportDue ~> ReportSettled

\* A hangup that is asked for happens once the audio has been played.
HangupAsked == Running /\ media.hangup /\ callFaults = 0
HangupDone == ~Running \/ media.mark = "lost" \/ callFaults > 0
HangupHappens == HangupAsked ~> HangupDone

\* A call is reported once and completely, whichever of the webhooks, the media
\* session, the posters and the end of the call comes first.
CallIsSound ==
    /\ CallTypeOK /\ SummaryPostedOnce /\ VoicemailWaitsForRecording /\ NothingSkippedLive
    /\ WordsAreKept
====================
