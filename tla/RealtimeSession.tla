--------------------------- MODULE RealtimeSession ---------------------------
(***************************************************************************)
(* The task of one realtime provider session (run_session in               *)
(* realtime_voice.rs): the EventMapper's view of the response in progress, *)
(* the queue of assistant audio (QueuedAudio), the 20 ms ticker that plays *)
(* it, and barge-in when the caller starts to speak.  The provider, at the *)
(* other end of a websocket with messages under way in both directions, is *)
(* external.                                                               *)
(*                                                                         *)
(* Audio is a sequence of units, each the number of the response it        *)
(* belongs to; FrameUnits of them make a frame.  The adapter names items,  *)
(* the provider one per response: an item is the number of its response.   *)
(* Transcripts, usage, the caller's audio (only forwarded) and the RTP     *)
(* marker are left out.                                                    *)
(***************************************************************************)
EXTENDS Naturals, Sequences, FiniteSets

CONSTANTS
    FrameUnits,    \* PCMU_BYTES_PER_FRAME
    MaxQueued,     \* MAX_QUEUED_OUTPUT_BYTES
    MaxDelta,      \* bound: units of one audio delta
    MaxUnits,      \* bound: units of one response
    MaxResponses,  \* bound: responses of the provider
    MaxSpeech,     \* bound: times the caller starts to speak
    MaxSpeak,      \* bound: speak commands
    InFlight       \* bound: provider events under way

ASSUME RealtimeAssumption ==
    /\ {FrameUnits, MaxDelta, MaxUnits, MaxResponses, InFlight} \subseteq Nat \ {0}
    /\ {MaxQueued, MaxSpeech, MaxSpeak} \subseteq Nat
    /\ MaxQueued % FrameUnits = 0

VARIABLES
    session,        \* the task: "open", "closed" or "failed"
    responseActive, \* EventMapper.response_active
    responseItem,   \* EventMapper.response_item_id
    output,         \* QueuedAudio
    toSession,      \* provider events under way
    toProvider,     \* client events under way
    tags,           \* provider: its audio deltas carry the item id
    current,        \* provider: the response in progress
    made,           \* provider: responses so far
    sent,           \* provider: units of the current response sent, or AudioFinished
    named,          \* provider: the current response's item was announced
    speeches,       \* times the caller started to speak
    spoken,         \* speak commands so far
    inProgress,     \* history: response the session saw created and not done
    cancelled,      \* history: a cancel was sent for inProgress
    mixed,          \* history: the item's audio queued behind another item's
    played          \* history: units of each response given to the sink

mapper == <<responseActive, responseItem>>
provider == <<tags, current, made, sent, named, speeches>>
history == <<inProgress, cancelled, mixed, played>>
vars == <<session, mapper, output, toSession, toProvider, provider, spoken, history>>

NoItem == 0
NoResponse == 0
Responses == 1 .. MaxResponses
AudioFinished == MaxUnits + 1

Init ==
    /\ session = "open"
    /\ responseActive = FALSE /\ responseItem = NoItem
    /\ output = [bytes |-> <<>>, item |-> NoItem, generated |-> 0, flushed |-> 0,
                 finished |-> FALSE]
    /\ toSession = <<>> /\ toProvider = <<>>
    /\ tags \in BOOLEAN
    /\ current = NoResponse /\ made = 0 /\ sent = 0 /\ named = FALSE
    /\ speeches = 0 /\ spoken = 0
    /\ inProgress = NoResponse /\ cancelled = FALSE /\ mixed = FALSE
    /\ played = [r \in Responses |-> 0]

-----------------------------------------------------------------------------
(* The provider runs one response at a time; its events arrive in order.   *)

Emit(event) ==
    /\ session = "open" /\ Len(toSession) < InFlight
    /\ toSession' = Append(toSession, event)

\* At the end of the caller's turn, or on request.
StartResponse ==
    /\ current = NoResponse /\ made < MaxResponses
    /\ Emit([type |-> "created", response |-> made + 1])
    /\ made' = made + 1 /\ current' = made + 1
    /\ sent' = 0 /\ named' = FALSE

ProviderStarts ==
    /\ StartResponse
    /\ UNCHANGED <<session, mapper, output, toProvider, tags, speeches, spoken, history>>

ProviderNamesItem ==
    /\ current # NoResponse /\ ~named /\ sent = 0
    /\ Emit([type |-> "added", item |-> current])
    /\ named' = TRUE
    /\ UNCHANGED <<session, mapper, output, toProvider, tags, current, made, sent, speeches,
                   spoken, history>>

\* A delta names its item, or leaves that to the announcement.
ProviderStreams ==
    /\ current # NoResponse /\ sent < MaxUnits
    /\ \E units \in 1 .. MaxDelta :
          /\ sent + units <= MaxUnits
          /\ Emit([type |-> "audio", response |-> current, units |-> units,
                   item |-> IF tags THEN current ELSE NoItem])
          /\ sent' = sent + units
    /\ UNCHANGED <<session, mapper, output, toProvider, tags, current, made, named, speeches,
                   spoken, history>>

ProviderFinishesAudio ==
    /\ current # NoResponse /\ sent \in 1 .. MaxUnits
    /\ Emit([type |-> "audio_done"])
    /\ sent' = AudioFinished
    /\ UNCHANGED <<session, mapper, output, toProvider, tags, current, made, named,
                   speeches, spoken, history>>

EndResponse ==
    /\ Emit([type |-> "done"])
    /\ current' = NoResponse

ProviderEnds ==
    /\ current # NoResponse /\ EndResponse
    /\ UNCHANGED <<session, mapper, output, toProvider, tags, made, sent, named, speeches,
                   spoken, history>>

ProviderHearsCaller ==
    /\ speeches < MaxSpeech
    /\ Emit([type |-> "speech_started"])
    /\ speeches' = speeches + 1
    /\ UNCHANGED <<session, mapper, output, toProvider, tags, current, made, sent, named,
                   spoken, history>>

\* A cancel ends the response in progress, whichever it is by then; a create
\* starts one.  Either is answered by an error when it comes at the wrong time,
\* and a truncate changes only the provider's record of the conversation.
ProviderReceives ==
    /\ toProvider # <<>>
    /\ toProvider' = Tail(toProvider)
    /\ LET request == Head(toProvider).type IN
         \/ /\ request = "cancel" /\ current # NoResponse
            /\ EndResponse /\ UNCHANGED <<made, sent, named>>
         \/ request = "create" /\ StartResponse
         \/ /\ \/ request = "cancel" /\ current = NoResponse
               \/ request = "create" /\ (current # NoResponse \/ made = MaxResponses)
            /\ Emit([type |-> "error"]) /\ UNCHANGED <<current, made, sent, named>>
         \/ request = "truncate" /\ UNCHANGED <<toSession, current, made, sent, named>>
    /\ UNCHANGED <<session, mapper, output, tags, speeches, spoken, history>>

-----------------------------------------------------------------------------
(* QueuedAudio.                                                            *)

Push(out, item, audio) ==
    LET new == item # out.item IN
    [bytes |-> out.bytes \o audio,
     item |-> item,
     generated |-> (IF new THEN 0 ELSE out.generated) + Len(audio),
     flushed |-> IF new THEN 0 ELSE out.flushed,
     finished |-> FALSE]

AtMost(n, limit) == IF n < limit THEN n ELSE limit

\* Whole frames are dropped, the oldest first.
Overflow(length) ==
    LET excess == IF length > MaxQueued THEN length - MaxQueued ELSE 0
        frames == (excess + FrameUnits - 1) \div FrameUnits
    IN  AtMost(frames * FrameUnits, length)

DiscardOverflow(out) ==
    LET dropped == Overflow(Len(out.bytes)) IN
    [out EXCEPT !.bytes = SubSeq(out.bytes, dropped + 1, Len(out.bytes)),
                !.flushed = out.flushed + dropped]

\* The frame of this tick, without the silence that fills up a last one.
NextFrame(out) ==
    IF Len(out.bytes) >= FrameUnits \/ out.finished
      THEN SubSeq(out.bytes, 1, AtMost(FrameUnits, Len(out.bytes)))
      ELSE <<>>

\* Mutant: audio that was discarded counts as played.
UnplayedQueuedOnly(out) == Len(out.bytes)

Unplayed(out) == Len(out.bytes) + out.flushed

\* What the caller heard of the item, by the counters.
AudioEnd(out) ==
    IF out.generated > Unplayed(out) THEN out.generated - Unplayed(out) ELSE 0

-----------------------------------------------------------------------------
(* The session task.  A handler runs to its end before the next select.    *)

Receive(type) ==
    /\ session = "open"
    /\ toSession # <<>> /\ Head(toSession).type = type
    /\ toSession' = Tail(toSession)

OnCreated ==
    /\ Receive("created")
    /\ responseActive' = TRUE /\ responseItem' = NoItem
    /\ inProgress' = Head(toSession).response /\ cancelled' = FALSE
    /\ UNCHANGED <<session, output, toProvider, provider, spoken, mixed, played>>

OnItemAdded ==
    /\ Receive("added")
    /\ responseItem' = Head(toSession).item
    /\ UNCHANGED <<session, responseActive, output, toProvider, provider, spoken, history>>

\* The item a delta belongs to.
ItemOf(event) == IF event.item # NoItem THEN event.item ELSE responseItem

OnAudioDelta ==
    /\ Receive("audio")
    /\ LET event == Head(toSession)
           item == ItemOf(event)
           audio == [i \in 1 .. event.units |-> event.response]
       IN  /\ output' = DiscardOverflow(Push(output, item, audio))
           /\ mixed' = IF item # output.item THEN output.bytes # <<>> ELSE mixed
    /\ responseActive' = TRUE
    /\ UNCHANGED <<session, responseItem, toProvider, provider, spoken, inProgress,
                   cancelled, played>>

\* Mutant: the caller is taken to have heard all that was generated.
TruncateGenerated(out) ==
    IF out.item # NoItem /\ out.generated > 0
      THEN <<[type |-> "truncate", item |-> out.item, end |-> out.generated]>>
      ELSE <<>>

\* What the provider is told about the item that was interrupted.
Truncate(out) ==
    IF out.item # NoItem /\ AudioEnd(out) > 0
      THEN <<[type |-> "truncate", item |-> out.item, end |-> AudioEnd(out)]>>
      ELSE <<>>

\* Barge-in.
OnSpeechStarted ==
    /\ Receive("speech_started")
    /\ output' = [output EXCEPT !.bytes = <<>>, !.flushed = Unplayed(output)]
    /\ toProvider' = IF responseActive
                       THEN toProvider \o <<[type |-> "cancel"]>> \o Truncate(output)
                       ELSE toProvider
    /\ cancelled' = (cancelled \/ responseActive)
    /\ responseActive' = FALSE
    /\ UNCHANGED <<session, responseItem, provider, spoken, inProgress, mixed, played>>

\* Mutant: the end of the audio is taken for the end of the response.
OnAudioDoneInactive ==
    /\ Receive("audio_done")
    /\ output' = [output EXCEPT !.finished = TRUE]
    /\ responseActive' = FALSE
    /\ UNCHANGED <<session, responseItem, toProvider, provider, spoken, history>>

OnAudioDone ==
    /\ Receive("audio_done")
    /\ output' = [output EXCEPT !.finished = TRUE]
    /\ UNCHANGED <<session, mapper, toProvider, provider, spoken, history>>

\* Mutant: only response.output_audio.done finishes the queue.
OnDoneUnfinished ==
    /\ Receive("done")
    /\ responseActive' = FALSE /\ responseItem' = NoItem
    /\ inProgress' = NoResponse
    /\ UNCHANGED <<session, output, toProvider, provider, spoken, cancelled, mixed, played>>

OnDone ==
    /\ Receive("done")
    /\ responseActive' = FALSE /\ responseItem' = NoItem
    /\ output' = [output EXCEPT !.finished = TRUE]
    /\ inProgress' = NoResponse
    /\ UNCHANGED <<session, toProvider, provider, spoken, cancelled, mixed, played>>

\* Errors only go to the call's status.
OnError ==
    /\ Receive("error")
    /\ UNCHANGED <<session, mapper, output, toProvider, provider, spoken, history>>

\* RealtimeSession::speak.
OnSpeak ==
    /\ session = "open" /\ spoken < MaxSpeak
    /\ spoken' = spoken + 1
    /\ responseActive' = TRUE
    /\ toProvider' = Append(toProvider, [type |-> "create"])
    /\ UNCHANGED <<session, responseItem, output, toSession, provider, history>>

UnitsOf(r, frame) == Cardinality({i \in 1 .. Len(frame) : frame[i] = r})

Tick ==
    /\ session = "open"
    /\ LET frame == NextFrame(output) IN
         /\ frame # <<>>
         /\ output' = [output EXCEPT
                         !.bytes = SubSeq(@, Len(frame) + 1, Len(@))]
         /\ played' = [r \in Responses |-> played[r] + UnitsOf(r, frame)]
    /\ UNCHANGED <<session, mapper, toSession, toProvider, provider, spoken, inProgress,
                   cancelled, mixed>>

\* The close permit, or the end of the caller's audio.
Close ==
    /\ session = "open" /\ session' = "closed"
    /\ UNCHANGED <<mapper, output, toSession, toProvider, provider, spoken, history>>

\* The websocket or the sink fails: the task ends with an error.
Fail ==
    /\ session = "open" /\ session' = "failed"
    /\ UNCHANGED <<mapper, output, toSession, toProvider, provider, spoken, history>>

Next ==
    \/ ProviderStarts \/ ProviderNamesItem \/ ProviderStreams
    \/ ProviderFinishesAudio \/ ProviderEnds \/ ProviderHearsCaller \/ ProviderReceives
    \/ OnCreated \/ OnItemAdded \/ OnAudioDelta \/ OnSpeechStarted
    \/ OnAudioDone \/ OnDone \/ OnError \/ OnSpeak \/ Tick \/ Close \/ Fail

\* tokio::select! picks a ready branch at random and the ticker stays ready
\* until it is picked.
Spec == Init /\ [][Next]_vars /\ WF_vars(Tick)

-----------------------------------------------------------------------------
Events ==
    [type: {"created"}, response: Responses]
      \cup [type: {"added"}, item: Responses]
      \cup [type: {"audio"}, response: Responses, units: Nat, item: Responses \cup {NoItem}]
      \cup [type: {"audio_done", "done", "speech_started", "error"}]

Requests ==
    [type: {"cancel", "create"}] \cup [type: {"truncate"}, item: Responses, end: Nat]

QueuedAudio ==
    [bytes: Seq(Responses), item: Responses \cup {NoItem}, generated: Nat,
     flushed: Nat, finished: BOOLEAN]

TypeFlags ==
    /\ responseActive \in BOOLEAN /\ tags \in BOOLEAN /\ named \in BOOLEAN
    /\ cancelled \in BOOLEAN /\ mixed \in BOOLEAN

TypeStates ==
    /\ session \in {"open", "closed", "failed"}
    /\ responseItem \in Responses \cup {NoItem}
    /\ toSession \in Seq(Events) /\ toProvider \in Seq(Requests)
    /\ current \in Responses \cup {NoResponse} /\ made \in 0 .. MaxResponses
    /\ sent \in 0 .. AudioFinished
    /\ speeches \in 0 .. MaxSpeech /\ spoken \in 0 .. MaxSpeak
    /\ inProgress \in Responses \cup {NoResponse}
    /\ played \in [Responses -> Nat]

(* Every variable has its type. *)
TypeOK == TypeFlags /\ output \in QueuedAudio /\ TypeStates

(* The provider is never told that the caller heard more of an item than   *)
(* the sink was given of it: not after audio of the item was discarded by  *)
(* an overflow or an earlier barge-in, nor when it queued behind another   *)
(* item's audio, nor when its deltas carried no item id.                   *)
TruncateWithinPlayed ==
    \A i \in 1 .. Len(toProvider) :
      toProvider[i].type = "truncate" =>
        toProvider[i].end <= played[toProvider[i].item]

(* As long as an item's audio had the queue for itself the counters of     *)
(* QueuedAudio are exact: what a barge-in would report as heard is what    *)
(* the sink was given, through overflows and repeated barge-ins.           *)
HeardIsExact ==
    output.item # NoItem /\ ~mixed => AudioEnd(output) = played[output.item]

(* While a response the session saw created is in progress and no cancel   *)
(* was sent for it, response_active is set, so that the caller's speech    *)
(* cancels it: also when a speak command, a late delta of a cancelled      *)
(* response or the end of the previous response came in between.           *)
SpeechWouldCancel ==
    session = "open" /\ inProgress # NoResponse /\ ~cancelled => responseActive

(* The queue never holds more than MAX_QUEUED_OUTPUT_BYTES. *)
QueueBounded == Len(output.bytes) <= MaxQueued

(* The safety half of TailIsPlayed: between responses the next tick has a  *)
(* frame as long as there is audio, be it less than a frame.               *)
TailCanPlay ==
    inProgress = NoResponse /\ output.bytes # <<>> => NextFrame(output) # <<>>

(* Once a response is done its audio does not stay in the queue: what is   *)
(* left is played to the last incomplete frame, unless the next response   *)
(* begins or the session ends.                                             *)
TailIsPlayed ==
    inProgress = NoResponse ~>
      (output.bytes = <<>> \/ inProgress # NoResponse \/ session # "open")
=============================================================================
