----------- MODULE CallAudio -----------
(* prospera: what a call's audio goes through.  The controller that holds *)
(* the greeting back until somebody has spoken and fallen silent, the mixed *)
(* recording with its two cursors, and the mu-law codec between Twilio and *)
(* Gemini. *)
EXTENDS Integers, Sequences, FiniteSets

CONSTANTS FrameMs,                           \* 20 in the code
          SpeechMs, SilenceMs, HoldMs,       \* 250, 600 and 2500 in the code
          MaxRecording,                      \* maxRecordingSamples, in frames
          MaxFrames                          \* bound: inbound frames

ASSUME AudioAssumption ==
    /\ FrameMs \in Nat \ {0} /\ SpeechMs \in Nat \ {0} /\ SilenceMs \in Nat \ {0} /\ HoldMs \in Nat \ {0}
    /\ MaxRecording \in Nat

VARIABLES
    amd,        \* AMDGreetingController
    cadence,    \* ghost: the inbound frames while it held, TRUE when loud
    webhooked,  \* ghost: Twilio's own detection has spoken
    greetings,  \* greetings released to Gemini
    rec,        \* recordedPCM's length, inCursor and outCursor
    code        \* the mu-law code under the codec's test

audioVars == <<amd, cadence, webhooked, greetings, rec, code>>

AmdStates == {"holding", "released", "machine", "voicemail"}

AudioTypeOK ==
    /\ amd.state \in AmdStates /\ amd.speech >= 0 /\ amd.silence >= 0
    /\ amd.speech = 0 \/ amd.silence = 0
    /\ rec.in <= MaxRecording /\ rec.out <= MaxRecording
    /\ code \in 0..255

AudioInit ==
    /\ amd = [state |-> "holding", total |-> 0, speech |-> 0, silence |-> 0,
              qualified |-> FALSE, active |-> FALSE]
    /\ cadence = <<>> /\ webhooked = FALSE /\ greetings = 0
    /\ rec = [len |-> 0, in |-> 0, out |-> 0]
    /\ code = 0

--------------------
(* Holding the greeting *)

\* Frames carry no time of their own: each one counts for FrameMs.
Elapse(a) == IF FrameMs > a.total THEN [delta |-> FrameMs - a.total, total |-> FrameMs]
             ELSE [delta |-> FrameMs, total |-> a.total + FrameMs]

Loud(a, d) == [a EXCEPT !.speech = @ + d, !.silence = 0, !.qualified = @ \/ a.speech + d >= SpeechMs]
QuietKeepsSpeech(a, d) == [a EXCEPT !.silence = @ + d]
Quiet(a, d) == [a EXCEPT !.silence = @ + d, !.speech = 0]

OnInboundFrame(a, loud) ==
    LET e == Elapse(a)
        b == [(IF loud THEN Loud(a, e.delta) ELSE Quiet(a, e.delta)) EXCEPT !.total = e.total]
    IN  IF \/ ~loud /\ b.qualified /\ b.silence >= SilenceMs
           \/ b.total >= HoldMs /\ b.speech = 0 /\ ~b.qualified
        THEN [b EXCEPT !.state = "released"]
        ELSE b

\* OnAMDWebhook: Twilio's answer, unless the conversation is under way.
OnAMDWebhook(a, answeredBy) ==
    IF a.active THEN a
    ELSE CASE answeredBy \in {"human", "unknown"} ->
                IF a.state = "holding" THEN [a EXCEPT !.state = "released"] ELSE a
           [] answeredBy \in {"machine_start", "fax"} -> [a EXCEPT !.state = "machine"]
           [] answeredBy = "machine_end_beep" -> [a EXCEPT !.state = "voicemail"]
           [] answeredBy = "machine_end_other" ->
                IF a.state = "released" THEN a ELSE [a EXCEPT !.state = "voicemail"]
           [] OTHER -> a

\* handleAMDAction: the greeting is given once.
Greeted(old, new) == greetings + (IF old.state = "holding" /\ new.state = "released" THEN 1 ELSE 0)

--------------------
(* The recording *)

AtLeast(m, n) == IF m > n THEN m ELSE n
AtMost(m, n) == IF m < n THEN m ELSE n

\* recordInboundPCM: mixed into what is there, appended past its end.
RecordInbound(r) ==
    LET in == AtMost(r.in + 1, MaxRecording) IN [r EXCEPT !.in = in, !.len = AtLeast(@, in)]

\* recordOutboundUlaw: never before the present.
RecordOutbound(r) ==
    LET from == AtLeast(r.out, r.in)
        to == AtMost(from + 1, MaxRecording)
    IN  [r EXCEPT !.out = to, !.len = AtLeast(@, to)]

\* sendTwilioClear: what Twilio had not played yet is taken off again.
ClearKeepsCursor(r) == IF r.out > r.in THEN [r EXCEPT !.len = r.in] ELSE r
ClearRecording(r) ==
    IF r.out > r.in /\ r.in <= r.len THEN [r EXCEPT !.len = r.in, !.out = r.in] ELSE r

--------------------
(* The codec: G.711 mu-law, on integers *)

Inv(b) == 255 - b
\* Shifting by n bits multiplies or divides by this.
Bit(n) == 2^n
Decode(b) ==
    LET i == Inv(b)
        exponent == (i \div 16) % 8
        mantissa == i % 16
        sample == (mantissa * 8 + 132) * Bit(exponent) - 132
    IN  IF i >= 128 THEN -sample ELSE sample

EncodeNoBias(s) ==
    LET m == AtMost(IF s < 0 THEN -s ELSE s, 32635)
        exponent == IF m < 128 THEN 0 ELSE CHOOSE e \in 0..7 : m \div Bit(e + 7) = 1
    IN  Inv((IF s < 0 THEN 128 ELSE 0) + exponent * 16 + ((m \div Bit(exponent + 3)) % 16))

Encode(s) ==
    LET m == AtMost(IF s < 0 THEN -s ELSE s, 32635) + 132
        exponent == CHOOSE e \in 0..7 : m \div Bit(e + 7) = 1
    IN  Inv((IF s < 0 THEN 128 ELSE 0) + exponent * 16 + ((m \div Bit(exponent + 3)) % 16))

--------------------
\* handleInboundTwilioMedia: recorded, then shown to the controller.
InboundFrame(loud) ==
    /\ code = 0 /\ Len(cadence) < MaxFrames
    /\ rec' = RecordInbound(rec)
    /\ IF amd.state = "holding"
       THEN /\ amd' = OnInboundFrame(amd, loud)
            /\ cadence' = Append(cadence, loud)
            /\ greetings' = Greeted(amd, amd')
       ELSE UNCHANGED <<amd, cadence, greetings>>
    /\ UNCHANGED <<webhooked, code>>

AmdWebhook(answeredBy) ==
    /\ code = 0 /\ ~webhooked
    /\ webhooked' = TRUE
    /\ amd' = OnAMDWebhook(amd, answeredBy)
    /\ greetings' = Greeted(amd, amd')
    /\ rec' = IF amd'.state # amd.state /\ amd'.state \in {"machine", "voicemail"}
              THEN ClearRecording(rec) ELSE rec
    /\ UNCHANGED <<cadence, code>>

\* The second turn of the caller, or a tool call, marks the conversation active.
MarkConversationActive ==
    /\ ~amd.active /\ greetings > 0
    /\ amd' = [amd EXCEPT !.active = TRUE]
    /\ UNCHANGED <<cadence, webhooked, greetings, rec, code>>

\* The pacer plays a frame; an interruption clears what was not played.
OutboundFrame ==
    /\ code = 0 /\ greetings > 0 /\ rec.out < rec.in + 2
    /\ rec' = RecordOutbound(rec)
    /\ UNCHANGED <<amd, cadence, webhooked, greetings, code>>

Interrupted ==
    /\ greetings > 0 /\ rec' = ClearRecording(rec) /\ rec' # rec
    /\ UNCHANGED <<amd, cadence, webhooked, greetings, code>>

\* The next code to try.
ProbeCodec ==
    /\ cadence = <<>> /\ ~webhooked /\ code < 255
    /\ code' = code + 1
    /\ UNCHANGED <<amd, cadence, webhooked, greetings, rec>>

AudioNext ==
    \/ \E loud \in BOOLEAN : InboundFrame(loud)
    \/ \E a \in {"human", "machine_start", "machine_end_beep", "machine_end_other", "other"} : AmdWebhook(a)
    \/ MarkConversationActive \/ OutboundFrame \/ Interrupted \/ ProbeCodec

AudioSpec == AudioInit /\ [][AudioNext]_audioVars

--------------------
\* What the controller is for, said about the frames: somebody spoke for
\* SpeechMs without a pause and then was silent for SilenceMs, or HoldMs have
\* passed and nobody has.
Frames(ms) == (ms + FrameMs - 1) \div FrameMs
HasSpoken(h) ==
    \E i \in 1..Len(h) : i + Frames(SpeechMs) - 1 <= Len(h) /\ \A k \in i..i + Frames(SpeechMs) - 1 : h[k]
Spoken(h) ==
    LET n == Len(h) IN
    \/ n >= Frames(SilenceMs) /\ (\A k \in n - Frames(SilenceMs) + 1..n : ~h[k]) /\ HasSpoken(h)
    \/ n >= Frames(HoldMs) /\ ~h[n] /\ ~HasSpoken(h)

\* The greeting is released by the frame that completes such a cadence, and by
\* no earlier one.
ReleasedByCadence ==
    ~webhooked => /\ amd.state = "released" <=> cadence # <<>> /\ Spoken(cadence)
                  /\ \A n \in 1..Len(cadence) - 1 : ~Spoken(SubSeq(cadence, 1, n))

\* The recording is as long as the later of its two cursors: no gap, and nothing
\* of what was cleared.
RecordingHasNoGap == rec.len = AtLeast(rec.in, rec.out)

\* Decoding and encoding again changes no sample: the one exception is the
\* second zero, which becomes the first.
CodecRoundTrip == Encode(Decode(code)) = IF code = 127 THEN 255 ELSE code

\* The audio path: the greeting is released by the caller's cadence, the recording
\* has no gap and the codec returns what it was given.
AudioIsSound ==
    /\ AudioTypeOK /\ ReleasedByCadence /\ RecordingHasNoGap /\ CodecRoundTrip
====================
