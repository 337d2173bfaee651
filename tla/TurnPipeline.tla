---------------------------- MODULE TurnPipeline ----------------------------
(***************************************************************************)
(* A call with separate speech recognition, language model and speech      *)
(* synthesis (src/service.rs): the audio thread cuts the caller's frames   *)
(* into utterances and answers each of them before it takes the next       *)
(* frame; idle prompts and the control API speak from tasks of their own.  *)
(* All of them synthesize with one SherpaWorker and queue what they say to *)
(* one paced speaker, and suppress the caller's input for as long as they  *)
(* expect it to play.                                                      *)
(*                                                                         *)
(* Time is counted in frames: in a Tick the speaker plays one unit and one *)
(* frame arrives.  Recognition and the language model are awaited calls of *)
(* the thread that return or fail.                                         *)
(***************************************************************************)
EXTENDS Integers, FiniteSets, SherpaWorker

CONSTANTS
    SilenceFrames,  \* turn_silence_ms
    MinFrames,      \* min_utterance_ms
    PreRollFrames,  \* frames kept from before the first speech
    Post,           \* post_tts_input_suppression_ms
    IdleAfter,      \* idle_prompt_after_ms
    EndBuffer,      \* end_call_buffer_ms
    MaxSegments,    \* bound: parts split_tts_text makes of a reply
    SpeakSegments,  \* bound: parts it makes of other texts
    MaxSpeaks,      \* bound: texts spoken through the control API
    MaxTime         \* bound: last instant of the clock

ASSUME TurnAssumption ==
    /\ Clients = {"turn", "prompt", "speak"}
    /\ SilenceFrames \in Nat \ {0} /\ MinFrames \in Nat \ {0}
    /\ PreRollFrames \in Nat \ {0} /\ Post \in Nat /\ IdleAfter \in Nat \ {0}
    /\ EndBuffer \in Nat
    /\ MaxSegments \in Nat \ {0} /\ SpeakSegments \in 1..MaxSegments
    /\ MaxSpeaks \in Nat /\ MaxTime \in Nat

VARIABLES
    now,              \* clock
    speaker,          \* units of speech the paced writer has not played
    pcm,              \* frames the audio thread has not taken
    detector,         \* TurnDetector
    thread,           \* what the audio thread does
    utterance,        \* the frames it is transcribing
    speech,           \* by client, the text that it is synthesizing
    suppressedUntil,  \* input_suppressed_until
    generation,       \* idle_watch_generation
    sleeping,         \* idle prompts that wait for their time
    said,             \* length of the transcript
    endRequested,
    byeAt,            \* when schedule_end_call sends the BYE
    call,             \* "active" or "ended"
    speaks,           \* history: uses of the control API so far
    exposed           \* history: speech the suppression does not cover

input == <<pcm, detector, thread, utterance>>
activity == <<suppressedUntil, generation, sleeping, said>>
ending == <<endRequested, byeAt, call>>
vars == <<workerVars, now, speaker, input, speech, activity, ending, speaks, exposed>>

Never == -1
Silent == [text |-> "none", left |-> 0, units |-> 0]
Listening == [buffer |-> <<>>, preRoll |-> <<>>, speaking |-> FALSE,
              silent |-> 0, speech |-> 0]

Init ==
    /\ WorkerInit
    /\ now = 0
    /\ speaker = <<>>
    /\ pcm = <<>>
    /\ detector = Listening
    /\ thread = "listen"
    /\ utterance = <<>>
    /\ speech = [c \in Clients |-> Silent]
    /\ suppressedUntil = Never
    /\ generation = 0
    /\ sleeping = {}
    /\ said = 0
    /\ endRequested = FALSE
    /\ byeAt = Never
    /\ call = "active"
    /\ speaks = 0
    /\ exposed = FALSE

-----------------------------------------------------------------------------
(* The turn detector.                                                      *)

Spoken(f) == f.kind # "quiet"

\* Mutation of Remembered: the oldest frame is not dropped.
RememberedAll(frames, f) == Append(frames, f)

\* remember_pre_roll
Remembered(frames, f) ==
    Append(IF Len(frames) = PreRollFrames THEN Tail(frames) ELSE frames, f)

\* push_frame, up to the end of an utterance.
Pushed(d, f) ==
    IF Spoken(f) THEN
        [d EXCEPT !.speaking = TRUE, !.silent = 0, !.speech = @ + 1,
                  !.preRoll = IF d.speaking THEN @ ELSE <<>>,
                  !.buffer = IF d.speaking THEN Append(@, f)
                             ELSE Append(@ \o d.preRoll, f)]
    ELSE IF d.speaking THEN
        [d EXCEPT !.silent = @ + 1, !.buffer = Append(@, f)]
    ELSE [d EXCEPT !.preRoll = Remembered(@, f)]

Complete(d) == d.speaking /\ d.silent >= SilenceFrames

\* finish: what it emits, and what it leaves behind.
Emitted(d) == IF d.speaking /\ d.speech >= MinFrames THEN d.buffer ELSE <<>>
Finished(d) == Listening

\* Mutation of Reset: the frames of an utterance that began are kept.
ResetKeepingBuffer(d) == [Listening EXCEPT !.buffer = d.buffer]

Reset(d) == Listening

-----------------------------------------------------------------------------
(* The audio thread between two turns.                                     *)

InputIsSuppressed == suppressedUntil # Never /\ now < suppressedUntil

\* The thread goes to process what the detector emits, or goes on listening.
Process(frames) ==
    /\ utterance' = frames
    /\ thread' = IF frames = <<>> THEN "listen" ELSE "stt"

TakeFrame ==
    /\ thread = "listen"
    /\ pcm # <<>>
    /\ pcm' = Tail(pcm)
    /\ LET pushed == Pushed(detector, Head(pcm)) IN
       IF InputIsSuppressed THEN detector' = Reset(detector) /\ Process(<<>>)
       ELSE IF Complete(pushed) THEN /\ detector' = Finished(pushed)
                                     /\ Process(Emitted(pushed))
       ELSE detector' = pushed /\ Process(<<>>)
    /\ UNCHANGED <<workerVars, now, speaker, speech, activity, ending, speaks, exposed>>

\* The reader is closed and empty: the last utterance, then the thread ends.
FinishInput ==
    /\ thread = "listen"
    /\ pcm = <<>> /\ call = "ended"
    /\ detector' = Finished(detector)
    /\ IF Emitted(detector) # <<>> THEN Process(Emitted(detector))
       ELSE thread' = "done" /\ UNCHANGED utterance
    /\ UNCHANGED <<workerVars, now, speaker, pcm, speech, activity, ending, speaks, exposed>>

-----------------------------------------------------------------------------
(* process_detected_utterance.                                             *)

\* Recognition or the language model failed, or found no words.
GiveUpTurn ==
    /\ thread \in {"stt", "llm"}
    /\ thread' = "listen"
    /\ utterance' = <<>>
    /\ UNCHANGED <<workerVars, now, speaker, pcm, detector, speech,
                   activity, ending, speaks, exposed>>

Speak(c, text, n) ==
    speech' = [speech EXCEPT ![c] = [text |-> text, left |-> n, units |-> 0]]

\* record_caller_text
HearWords ==
    /\ thread = "stt"
    /\ said' = said + 1
    /\ thread' = "noting"
    /\ utterance' = <<>>
    /\ UNCHANGED <<workerVars, now, speaker, pcm, detector, speech, suppressedUntil,
                   generation, sleeping, ending, speaks, exposed>>

\* Mutation of CallerNoted: the caller's words are no activity.
CallerNotNoted == UNCHANGED activity

\* note_activity, an access of its own after that of record_caller_text
CallerNoted ==
    /\ generation' = generation + 1
    /\ UNCHANGED <<suppressedUntil, sleeping, said>>

NoteWords ==
    /\ thread = "noting"
    /\ CallerNoted
    /\ thread' = "llm"
    /\ UNCHANGED <<workerVars, now, speaker, pcm, detector, utterance, speech,
                   ending, speaks, exposed>>

\* fast_path_end_call_response: a farewell without the language model.
NoteHangUp ==
    /\ thread = "noting"
    /\ CallerNoted
    /\ thread' = "tts"
    /\ Speak("turn", "farewell", 1)
    /\ UNCHANGED <<workerVars, now, speaker, pcm, detector, utterance, ending,
                   speaks, exposed>>

Reply(text, n) ==
    /\ thread = "llm"
    /\ thread' = "tts"
    /\ Speak("turn", text, n)
    /\ UNCHANGED <<workerVars, now, speaker, pcm, detector, utterance,
                   activity, ending, speaks, exposed>>

-----------------------------------------------------------------------------
(* queue_tts_text, one segment after the other.                            *)

AskSegment(c) ==
    /\ speech[c].left > 0
    /\ Ask(c)
    /\ UNCHANGED <<now, speaker, input, speech, activity, ending, speaks, exposed>>

\* Mutation of SuppressInputFor: only what plays, not how long it echoes.
SuppressInputWhilePlaying(total) ==
    suppressedUntil' = IF suppressedUntil < now + total THEN now + total
                                                        ELSE suppressedUntil

\* suppress_input_for never shortens what was asked for before.
SuppressInputFor(total) ==
    suppressedUntil' = IF suppressedUntil < now + total + Post
                       THEN now + total + Post ELSE suppressedUntil

\* Mutation of ScheduleEnd: the farewell's playback is not waited for.
ScheduleEndAtOnce(total) ==
    IF endRequested THEN UNCHANGED <<endRequested, byeAt>>
    ELSE endRequested' = TRUE /\ byeAt' = now + EndBuffer

\* schedule_end_call
ScheduleEnd(total) ==
    IF endRequested THEN UNCHANGED <<endRequested, byeAt>>
    ELSE endRequested' = TRUE /\ byeAt' = now + total + EndBuffer

\* schedule_idle_prompt, for the generation that note_activity returned
IdlePrompt(total) ==
    [at |-> now + total + IdleAfter, gen |-> generation + 1, said |-> said]

\* After the last segment: suppression and transcript.
AllQueued(total) ==
    /\ SuppressInputFor(total)
    /\ said' = said + 1
    /\ UNCHANGED <<generation, sleeping>>

\* Speech that plays later than its suppression assumes, or whose echo is
\* taken outside it: another text plays before or within it, or a task other
\* than the thread speaks while the thread takes no frames, or goes on
\* synthesizing after it began to play.
Exposing(c) ==
    \/ speech[c].units = 0 /\ speaker # <<>>
    \/ c # "turn" /\ (thread # "listen" \/ pcm # <<>> \/ speech[c].left > 1)

SegmentQueued(c) ==
    /\ speech[c].left > 0
    /\ call = "active"
    /\ ReadAnswer(c)
    /\ Head(stdout) # Invalid
    /\ speaker' = Append(speaker, [own |-> Head(stdout) = Request(c),
                                   closing |-> /\ speech[c].text = "farewell"
                                               /\ ~endRequested])
    /\ exposed' = (exposed \/ Exposing(c))
    /\ speech' = [speech EXCEPT ![c].left = @ - 1, ![c].units = @ + 1]
    /\ IF speech[c].left = 1 THEN AllQueued(speech[c].units + 1)
       ELSE UNCHANGED activity
    /\ UNCHANGED <<now, input, ending, speaks>>

\* The text is in the transcript, but not yet noted as activity.
Unnoted(c) == speech[c].text # "none" /\ speech[c].left = 0

\* The end of queue_tts_text, note_activity; then the thread, whose turn it was,
\* schedules the end of the call or an idle prompt.
NoteSpeech(c) ==
    /\ Unnoted(c)
    /\ generation' = generation + 1
    /\ speech' = [speech EXCEPT ![c] = Silent]
    /\ thread' = IF c = "turn" THEN "listen" ELSE thread
    /\ IF speech[c].text = "farewell" THEN ScheduleEnd(speech[c].units)
       ELSE UNCHANGED <<endRequested, byeAt>>
    /\ sleeping' = IF speech[c].text = "reply"
                   THEN sleeping \cup {IdlePrompt(speech[c].units)} ELSE sleeping
    /\ UNCHANGED <<workerVars, now, speaker, pcm, detector, utterance,
                   suppressedUntil, said, call, speaks, exposed>>

\* The request fails, its answer is an error, or the speaker is closed: what
\* was queued before plays without suppression and is not in the transcript.
SpeechFails(c) ==
    /\ speech[c].left > 0
    /\ \/ RequestFails(c)
       \/ ReadAnswer(c) /\ (Head(stdout) = Invalid \/ call = "ended")
    /\ speech' = [speech EXCEPT ![c] = Silent]
    /\ thread' = IF c = "turn" THEN "listen" ELSE thread
    /\ exposed' = (exposed \/ speech[c].units > 0)
    /\ UNCHANGED <<now, speaker, pcm, detector, utterance, activity,
                   ending, speaks>>

\* The client of the control API goes away while its text waits for the worker.
SpeakDropped ==
    /\ LeaveQueue("speak")
    /\ speech' = [speech EXCEPT !["speak"] = Silent]
    /\ exposed' = (exposed \/ speech["speak"].units > 0)
    /\ UNCHANGED <<now, speaker, input, activity, ending, speaks>>

-----------------------------------------------------------------------------
(* Tasks next to the thread.                                               *)

\* The sleep of an idle prompt is over, and the prompt is outdated.  (The task
\* reads end_requested before the generation, which changes first: as good as
\* one access.)
PromptOutdated(p) ==
    /\ now >= p.at
    /\ endRequested \/ generation # p.gen
    /\ sleeping' = sleeping \ {p}
    /\ UNCHANGED <<workerVars, now, speaker, input, speech, suppressedUntil,
                   generation, said, ending, speaks, exposed>>

\* Nothing was noted since its turn.  (Bound: one prompt is spoken at a time.)
SpeakPrompt(p) ==
    /\ now >= p.at
    /\ ~endRequested /\ generation = p.gen
    /\ speech["prompt"] = Silent
    /\ sleeping' = sleeping \ {p}
    /\ Speak("prompt", "prompt", 1)
    /\ UNCHANGED <<workerVars, now, speaker, input, suppressedUntil, generation,
                   said, ending, speaks, exposed>>

\* speak_text, for the greeting and the control API
SpeakText(n) ==
    /\ call = "active"
    /\ speaks < MaxSpeaks
    /\ speech["speak"] = Silent
    /\ Speak("speak", "speak", n)
    /\ speaks' = speaks + 1
    /\ UNCHANGED <<workerVars, now, speaker, input, activity, ending, exposed>>

\* The task of schedule_end_call sends the BYE.
SendBye ==
    /\ byeAt # Never /\ now >= byeAt
    /\ byeAt' = Never
    /\ call' = "ended"
    /\ UNCHANGED <<workerVars, now, speaker, input, speech, activity,
                   endRequested, speaks, exposed>>

\* The caller hangs up.
CallEnds ==
    /\ call = "active"
    /\ call' = "ended"
    /\ UNCHANGED <<workerVars, now, speaker, input, speech, activity,
                   endRequested, byeAt, speaks, exposed>>

WorkerStep ==
    /\ AnswerLine \/ Exit
    /\ UNCHANGED <<now, speaker, input, speech, activity, ending, speaks, exposed>>

\* Who has put what into the transcript that is not noted as activity yet.
Noting ==
    {c \in Clients : Unnoted(c)} \cup (IF thread = "noting" THEN {"caller"} ELSE {})

\* One frame time: a listening thread has taken what arrived before, and who
\* has a text in the transcript has noted it, for which it awaits nothing.
Tick ==
    /\ now < MaxTime
    /\ call = "active"
    /\ ~(thread = "listen" /\ pcm # <<>>)
    /\ Noting = {}
    /\ now' = now + 1
    /\ speaker' = IF speaker = <<>> THEN <<>> ELSE Tail(speaker)
    /\ \E kind \in {"quiet", "speech"} \cup (IF speaker = <<>> THEN {} ELSE {"echo"}) :
          pcm' = Append(pcm, [at |-> now + 1, kind |-> kind])
    /\ UNCHANGED <<workerVars, detector, thread, utterance, speech,
                   activity, ending, speaks, exposed>>

ThreadStep ==
    \/ TakeFrame \/ FinishInput \/ GiveUpTurn \/ HearWords \/ NoteWords \/ NoteHangUp
    \/ \E text \in {"reply", "farewell"}, n \in 1..MaxSegments : Reply(text, n)

WriteLine(c) ==
    /\ WriteRequest(c)
    /\ UNCHANGED <<now, speaker, input, speech, activity, ending, speaks, exposed>>

\* What keeps a client going: a holder of the mutex writes, and reads or
\* times out.
SpeechStep(c) ==
    \/ AskSegment(c) \/ WriteLine(c) \/ SegmentQueued(c) \/ SpeechFails(c)
    \/ NoteSpeech(c)

Next ==
    \/ ThreadStep
    \/ \E c \in Clients : SpeechStep(c)
    \/ SpeakDropped
    \/ \E p \in sleeping : PromptOutdated(p) \/ SpeakPrompt(p)
    \/ \E n \in 1..SpeakSegments : SpeakText(n)
    \/ SendBye \/ CallEnds
    \/ WorkerStep
    \/ Tick

Spec == Init /\ [][Next]_vars

\* Awaited calls of the thread return or fail, as their timeouts make them;
\* a client of the worker goes on, the worker itself need not.
Fairness ==
    /\ WF_vars(ThreadStep)
    /\ \A c \in Clients : WF_vars(SpeechStep(c))

LiveSpec == Spec /\ Fairness

-----------------------------------------------------------------------------
(* Properties.                                                             *)

Frames == [at : 1..MaxTime, kind : {"quiet", "speech", "echo"}]
Texts == {"none", "reply", "farewell", "prompt", "speak"}

TypeOK ==
    /\ WorkerTypeOK
    /\ now \in 0..MaxTime
    /\ speaker \in Seq([own : BOOLEAN, closing : BOOLEAN])
    /\ pcm \in Seq(Frames)
    /\ detector \in [buffer : Seq(Frames), preRoll : Seq(Frames),
                     speaking : BOOLEAN, silent : Nat, speech : Nat]
    /\ Len(detector.preRoll) <= PreRollFrames
    /\ detector.silent < SilenceFrames
    /\ thread \in {"listen", "stt", "noting", "llm", "tts", "done"}
    /\ utterance \in Seq(Frames)
    /\ speech \in [Clients -> [text : Texts, left : 0..MaxSegments, units : Nat]]
    /\ suppressedUntil \in Nat \cup {Never}
    /\ generation \in Nat
    /\ said \in Nat
    /\ sleeping \subseteq [at : Nat, gen : Nat, said : Nat]
    /\ endRequested \in BOOLEAN
    /\ byeAt \in Nat \cup {Never}
    /\ call \in {"active", "ended"}
    /\ speaks \in 0..MaxSpeaks
    /\ exposed \in BOOLEAN

\* What is transcribed is one piece of what the caller's phone sent: no frame
\* is missing in it or comes twice, and no more than the pre-roll precedes
\* the first spoken frame, however much was suppressed in between.
UtteranceIsContiguous ==
    /\ \A i \in 1..(Len(utterance) - 1) : utterance[i + 1].at = utterance[i].at + 1
    /\ utterance # <<>> =>
          \E i \in 1..Len(utterance) : i <= PreRollFrames + 1 /\ Spoken(utterance[i])

\* The assistant never answers its own voice: unless speech was exposed (see
\* Exposing), its echo is in no utterance.
EchoUnheard ==
    ~exposed => \A i \in 1..Len(utterance) : utterance[i].kind # "echo"

\* The BYE that the first farewell schedules is sent after it was played.
FarewellIsPlayed ==
    [][byeAt # Never /\ byeAt' = Never /\ ~exposed =>
          \A i \in 1..Len(speaker) : ~speaker[i].closing]_vars

\* When an idle prompt is begun the transcript has got no text, of the caller
\* or the assistant, since the turn that scheduled the prompt: but for the
\* texts whose speakers are, at that moment, between the transcript and
\* note_activity, which is at most one of each.  (It says nothing of a caller
\* who is speaking or being transcribed: his words are not there yet.)
PromptsBreakSilence ==
    [][speech["prompt"] = Silent /\ speech'["prompt"] # Silent =>
          \E p \in sleeping : said <= p.said + Cardinality(Noting)]_vars

\* Everybody says the text he recorded: as long as no request ended without
\* its answer, no answer of the shared worker reaches another request.
SaysItsOwn == ~spoilt => \A i \in 1..Len(speaker) : speaker[i].own

\* Who has the mutex of the shared worker, or waits for it, has a text to
\* synthesize and so goes on: nobody keeps it from the others for nothing.
LockIsWanted == \A c \in Clients : InLock(c) => speech[c].left > 0

\* The thread of an ended call ends, also behind a worker that hangs, has
\* exited or is used by others.
ThreadEnds == call = "ended" ~> thread = "done"
=============================================================================
