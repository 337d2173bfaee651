---------------------------- MODULE CallLifecycle ----------------------------
(***************************************************************************)
(* One tracked SIP call (ManagedCall in service.rs): attaching the media   *)
(* bridge to it, from bootstrap_call and from the on_media callback, and   *)
(* ending it, from the hangup API, the farewell timer, a failed bridge,    *)
(* the watcher of the realtime session and the remote party.               *)
(*                                                                         *)
(* The tasks and threads share three atomic flags (bridge_started,         *)
(* end_requested, end_sent) and two slots (speaker_tx, realtime_session);  *)
(* one access to them is one step.  The SIP stack (xphone) and the         *)
(* realtime provider are external.  Status and error texts are left out.   *)
(***************************************************************************)
EXTENDS Integers, FiniteSets

CONSTANTS
    Clients,    \* requests of the hangup API
    Modes,      \* conversation modes: "split" and "realtime"
    Codecs,     \* negotiated codecs: "PCMU" and "other"
    MaxFaults   \* bound: BYEs that cannot be sent

ASSUME CallAssumption ==
    /\ Modes \subseteq {"split", "realtime"} /\ Codecs \subseteq {"PCMU", "other"}
    /\ MaxFaults \in Nat
    /\ Clients \cap {"bridge", "farewell", "watcher"} = {}

VARIABLES
    mode, codec,    \* fixed for the call
    sip,            \* state of the SIP call
    media,          \* RTP channels of the SIP call
    bridgeStarted,  \* ManagedCall.bridge_started
    speaker,        \* speaker_tx is set
    slot,           \* realtime_session is set
    endRequested,   \* ManagedCall.end_requested
    endSent,        \* ManagedCall.end_sent
    task,           \* the two executions of activate_call_bridge
    reader,         \* thread that reads the caller's audio
    session,        \* the realtime session
    closeAsked,     \* permit of the session's close Notify
    onEnded,        \* the on_ended callback
    ender,          \* whoever ends the call: where its call of send_end is
    bridges,        \* history: bridges attached
    byes,           \* history: BYEs sent
    faults          \* history: BYEs that could not be sent

flags == <<bridgeStarted, endRequested, endSent>>
provider == <<session, closeAsked>>
vars == <<mode, codec, sip, media, flags, speaker, slot, task, reader, provider,
          onEnded, ender, bridges, byes, faults>>

Tasks == {"bootstrap", "on_media"}
Enders == Clients \cup {"bridge", "farewell", "watcher"}

\* Where an activation is: before the named step; "idle" before its start and
\* "reset" before bridge_started is cleared again.
TaskPoints == {"idle", "start", "reader", "writer", "reset", "codec", "connect",
               "attach", "spawn", "done"}
EnderPoints == {"idle", "sleep", "waiting", "end_call", "send_end", "end",
                "ok", "failed"}

\* bootstrap_call after it registered the callbacks.  The media of a call that
\* was accepted or dialled before may be open already.
Init ==
    /\ mode \in Modes /\ codec \in Codecs
    /\ sip = "up"
    /\ media \in {"none", "open"}
    /\ bridgeStarted = FALSE /\ endRequested = FALSE /\ endSent = FALSE
    /\ speaker = FALSE /\ slot = FALSE
    /\ task = [t \in Tasks |-> IF t = "bootstrap" THEN "start" ELSE "idle"]
    /\ reader = "none"
    /\ session = "none" /\ closeAsked = FALSE
    /\ onEnded = "none"
    /\ ender = [e \in Enders |-> "idle"]
    /\ bridges = 0 /\ byes = 0 /\ faults = 0

-----------------------------------------------------------------------------
(* The SIP stack.                                                          *)

\* The channels exist and then the on_media callback spawns an activation.
MediaOpens ==
    /\ sip = "up" /\ media = "none"
    /\ media' = "open"
    /\ task' = [task EXCEPT !["on_media"] = "start"]
    /\ UNCHANGED <<mode, codec, sip, flags, speaker, slot, reader, provider,
                   onEnded, ender, bridges, byes, faults>>

\* The call is over: the channels are closed and on_ended is called.
Over == sip' = "ended" /\ media' = "closed" /\ onEnded' = "close"

RemoteEnds ==
    /\ sip = "up"
    /\ Over
    /\ UNCHANGED <<mode, codec, flags, speaker, slot, task, reader, provider,
                   ender, bridges, byes, faults>>

\* on_ended closes the session it finds in the slot, then writes the status,
\* the transcript and the totals.
OnEnded ==
    /\ onEnded = "close"
    /\ onEnded' = "done"
    /\ closeAsked' = (closeAsked \/ slot)
    /\ UNCHANGED <<mode, codec, sip, media, flags, speaker, slot, task, reader,
                   session, ender, bridges, byes, faults>>

-----------------------------------------------------------------------------
(* Attaching the bridge: activate_call_bridge, activate_realtime_bridge.   *)

Go(t, p) == task' = [task EXCEPT ![t] = p]
KeepsBridge == UNCHANGED <<mode, codec, sip, media, endRequested, endSent, reader,
                           onEnded, bridges, byes, faults>>

\* Mutation of StartBridge: the flag is set but not tested.
StartBridgeAlways(t) ==
    /\ task[t] = "start"
    /\ bridgeStarted' = TRUE
    /\ Go(t, "reader")
    /\ KeepsBridge /\ UNCHANGED <<speaker, slot, provider, ender>>

\* bridge_started.swap(true)
StartBridge(t) ==
    /\ task[t] = "start"
    /\ bridgeStarted' = TRUE
    /\ Go(t, IF bridgeStarted THEN "done" ELSE "reader")
    /\ KeepsBridge /\ UNCHANGED <<speaker, slot, provider, ender>>

\* pcm_reader or rtp_reader; realtime checks the codec before the writer.
OpenReader(t) ==
    /\ task[t] = "reader"
    /\ Go(t, IF media # "open" THEN "reset"
             ELSE IF mode = "realtime" THEN "codec" ELSE "writer")
    /\ KeepsBridge /\ UNCHANGED <<bridgeStarted, speaker, slot, provider, ender>>

\* bridge_started.store(false)
ResetBridge(t) ==
    /\ task[t] = "reset"
    /\ bridgeStarted' = FALSE
    /\ Go(t, "done")
    /\ KeepsBridge /\ UNCHANGED <<speaker, slot, provider, ender>>

\* A bridge that cannot work ends the call.
GiveUp(t) ==
    /\ Go(t, "done")
    /\ ender' = [ender EXCEPT !["bridge"] = "end_call"]

CheckCodec(t) ==
    /\ task[t] = "codec"
    /\ \/ codec = "PCMU" /\ Go(t, "writer") /\ UNCHANGED ender
       \/ codec # "PCMU" /\ GiveUp(t)
    /\ KeepsBridge /\ UNCHANGED <<bridgeStarted, speaker, slot, provider>>

\* paced_pcm_writer or rtp_writer; the split bridge then has all it needs.
OpenWriter(t) ==
    /\ task[t] = "writer"
    /\ Go(t, IF media # "open" THEN "reset"
             ELSE IF mode = "realtime" THEN "connect" ELSE "attach")
    /\ KeepsBridge /\ UNCHANGED <<bridgeStarted, speaker, slot, provider, ender>>

\* RtpPcmuSink::new and RealtimeSession::connect, awaited with its retries: they
\* succeed, or one of them fails for good.
Connect(t) ==
    /\ task[t] = "connect"
    /\ \/ session' = "open" /\ Go(t, "attach") /\ UNCHANGED ender
       \/ session' = session /\ GiveUp(t)
    /\ KeepsBridge /\ UNCHANGED <<bridgeStarted, speaker, slot, closeAsked>>

\* set_speaker_tx or set_realtime_session
Attach(t) ==
    /\ task[t] = "attach"
    /\ IF mode = "realtime" THEN slot' = TRUE /\ UNCHANGED speaker
                            ELSE speaker' = TRUE /\ UNCHANGED slot
    /\ Go(t, "spawn")
    /\ KeepsBridge /\ UNCHANGED <<bridgeStarted, provider, ender>>

\* The audio thread and, for realtime, the watcher of the session.
Spawn(t) ==
    /\ task[t] = "spawn"
    /\ Go(t, "done")
    /\ reader' = "running"
    /\ bridges' = bridges + 1
    /\ ender' = IF mode = "realtime" THEN [ender EXCEPT !["watcher"] = "waiting"]
                                     ELSE ender
    /\ UNCHANGED <<mode, codec, sip, media, flags, speaker, slot, provider,
                   onEnded, byes, faults>>

ActivateBridge(t) ==
    \/ StartBridge(t) \/ OpenReader(t) \/ ResetBridge(t) \/ CheckCodec(t)
    \/ OpenWriter(t) \/ Connect(t) \/ Attach(t) \/ Spawn(t)

-----------------------------------------------------------------------------
(* The bridge at work.                                                     *)

\* Mutation of ReaderStops: the session is left to on_ended.
ReaderStopsOnly ==
    /\ reader = "running"
    /\ media = "closed" \/ session = "closed"
    /\ reader' = "done"
    /\ UNCHANGED <<mode, codec, sip, media, flags, speaker, slot, task, provider,
                   onEnded, ender, bridges, byes, faults>>

\* The receive loop ends with the channel, or with the session's input; the
\* realtime thread then closes the session.
ReaderStops ==
    /\ reader = "running"
    /\ media = "closed" \/ session = "closed"
    /\ reader' = "done"
    /\ closeAsked' = (closeAsked \/ mode = "realtime")
    /\ UNCHANGED <<mode, codec, sip, media, flags, speaker, slot, task, session,
                   onEnded, ender, bridges, byes, faults>>

\* run_session returns after close(), or because the provider went away.
SessionCloses ==
    /\ session = "open"
    /\ session' = "closed"
    /\ UNCHANGED <<mode, codec, sip, media, flags, speaker, slot, task, reader,
                   closeAsked, onEnded, ender, bridges, byes, faults>>

-----------------------------------------------------------------------------
(* Ending the call.                                                        *)

KeepsCall == UNCHANGED <<mode, codec, sip, media, bridgeStarted, speaker, slot,
                         task, reader, provider, onEnded, bridges, byes, faults>>

Ender(e, p) == ender' = [ender EXCEPT ![e] = p]

\* A request of the hangup API; a client whose request failed may ask again.
Hangup(c) ==
    /\ ender[c] \in {"idle", "failed"}
    /\ Ender(c, "end_call")
    /\ KeepsCall /\ UNCHANGED <<endRequested, endSent>>

\* schedule_end_call after a farewell: only the first request to end counts.
Farewell ==
    /\ speaker /\ reader = "running"
    /\ ~endRequested
    /\ endRequested' = TRUE
    /\ Ender("farewell", "sleep")
    /\ KeepsCall /\ UNCHANGED endSent

\* Mutation of FarewellElapses: like the idle prompt it gives way to a request.
FarewellElapsesUnlessRequested ==
    /\ ender["farewell"] = "sleep"
    /\ Ender("farewell", IF endRequested THEN "ok" ELSE "send_end")
    /\ KeepsCall /\ UNCHANGED <<endRequested, endSent>>

FarewellElapses ==
    /\ ender["farewell"] = "sleep"
    /\ Ender("farewell", "send_end")
    /\ KeepsCall /\ UNCHANGED <<endRequested, endSent>>

\* Mutation of SessionLost: the test of the call state is the wrong way round.
SessionLostAfterEnd ==
    /\ ender["watcher"] = "waiting"
    /\ session = "closed"
    /\ Ender("watcher", IF ~endRequested /\ sip = "ended" THEN "end_call" ELSE "ok")
    /\ KeepsCall /\ UNCHANGED <<endRequested, endSent>>

\* The watcher ends the call unless somebody asked for it or it is over.
SessionLost ==
    /\ ender["watcher"] = "waiting"
    /\ session = "closed"
    /\ Ender("watcher", IF ~endRequested /\ sip # "ended" THEN "end_call" ELSE "ok")
    /\ KeepsCall /\ UNCHANGED <<endRequested, endSent>>

\* end_call: end_requested.store(true), then send_end
EndCall(e) ==
    /\ ender[e] = "end_call"
    /\ endRequested' = TRUE
    /\ Ender(e, "send_end")
    /\ KeepsCall /\ UNCHANGED endSent

\* Mutation of SendEnd: end_sent is not tested.
SendEndAlways(e) ==
    /\ ender[e] = "send_end"
    /\ endSent' = TRUE
    /\ Ender(e, "end")
    /\ KeepsCall /\ UNCHANGED endRequested

\* send_end: compare_exchange of end_sent; who loses returns Ok at once.
SendEnd(e) ==
    /\ ender[e] = "send_end"
    /\ endSent' = TRUE
    /\ Ender(e, IF endSent THEN "ok" ELSE "end")
    /\ KeepsCall /\ UNCHANGED endRequested

\* call.end() sends the BYE.
End(e) ==
    /\ ender[e] = "end"
    /\ sip = "up"
    /\ Over
    /\ byes' = byes + 1
    /\ Ender(e, "ok")
    /\ UNCHANGED <<mode, codec, flags, speaker, slot, task, reader, provider,
                   bridges, faults>>

\* call.end() fails: the call is over already, or the BYE cannot be sent.
EndFails(e) ==
    /\ ender[e] = "end"
    /\ sip = "ended" \/ faults < MaxFaults
    /\ faults' = IF sip = "ended" THEN faults ELSE faults + 1
    /\ endSent' = FALSE
    /\ Ender(e, "failed")
    /\ UNCHANGED <<mode, codec, sip, media, bridgeStarted, endRequested, speaker,
                   slot, task, reader, provider, onEnded, bridges, byes>>

EndStep(e) == EndCall(e) \/ SendEnd(e) \/ End(e) \/ EndFails(e)

Next ==
    \/ MediaOpens \/ RemoteEnds \/ OnEnded
    \/ \E t \in Tasks : ActivateBridge(t)
    \/ ReaderStops \/ SessionCloses
    \/ \E c \in Clients : Hangup(c)
    \/ Farewell \/ FarewellElapses \/ SessionLost
    \/ \E e \in Enders : EndStep(e)

Spec == Init /\ [][Next]_vars

\* Tasks, threads, timers and callbacks run on, and a session that was asked to
\* close does so.  Nobody has to hang up, talk or drop the session.
Fairness ==
    /\ \A t \in Tasks : WF_vars(ActivateBridge(t))
    /\ \A e \in Enders : WF_vars(EndStep(e))
    /\ WF_vars(OnEnded) /\ WF_vars(media = "closed" /\ ReaderStops)
    /\ WF_vars(closeAsked /\ SessionCloses)
    /\ WF_vars(FarewellElapses) /\ WF_vars(SessionLost)

LiveSpec == Spec /\ Fairness

-----------------------------------------------------------------------------
(* Properties.                                                             *)

TypeFlags ==
    /\ bridgeStarted \in BOOLEAN /\ endRequested \in BOOLEAN /\ endSent \in BOOLEAN
    /\ speaker \in BOOLEAN /\ slot \in BOOLEAN /\ closeAsked \in BOOLEAN

TypeStates ==
    /\ mode \in Modes /\ codec \in Codecs
    /\ sip \in {"up", "ended"}
    /\ media \in {"none", "open", "closed"}
    /\ task \in [Tasks -> TaskPoints]
    /\ reader \in {"none", "running", "done"}
    /\ session \in {"none", "open", "closed"}
    /\ onEnded \in {"none", "close", "done"}
    /\ ender \in [Enders -> EnderPoints]
    /\ bridges \in Nat /\ byes \in Nat /\ faults \in 0..MaxFaults

TypeOK == TypeFlags /\ TypeStates

\* An activation that won bridge_started and has not finished.
Activating(t) == task[t] \notin {"idle", "start", "done"}

\* A call never gets two bridges: bootstrap_call and on_media are never both
\* past the swap, none is once a bridge is attached, and the flag says so.
OneBridge ==
    /\ bridges <= 1
    /\ \A t, u \in Tasks : Activating(t) /\ Activating(u) => t = u
    /\ \A t \in Tasks : Activating(t) => bridgeStarted /\ bridges = 0
    /\ bridges = 1 => bridgeStarted

\* At most one of the parties that end the call is inside call.end(), and none
\* after it succeeded: the other side gets one BYE.
OneBye ==
    /\ byes <= 1
    /\ \A d, e \in Enders : ender[d] = "end" /\ ender[e] = "end" => d = e
    /\ byes = 1 => \A e \in Enders : ender[e] # "end"

\* end_sent is only set while a BYE is being sent or was sent: one that failed
\* does not keep the next request from sending another.
FailedByeIsForgotten ==
    endSent => byes = 1 \/ \E e \in Enders : ender[e] = "end"

\* Whoever ends the call and has not called end() to its end, and an activation
\* that has a session and has not handed it over.
Ending == \E e \in Enders : ender[e] \in {"sleep", "end_call", "send_end", "end"}
HandingOver == \E t \in Tasks : task[t] \in {"attach", "spawn"}

\* A request to end the call is never lost between the parties that leave it to
\* each other: until the call is over or a BYE failed, one of them is at it.
EndIsPending == endRequested => sip = "ended" \/ faults > 0 \/ Ending

\* A lost session is never overlooked: until the call is over or a BYE failed,
\* somebody ends it or the watcher is still to find out.
LossIsPending ==
    session = "closed" =>
       \/ sip = "ended" \/ faults > 0
       \/ Ending \/ HandingOver \/ ender["watcher"] = "waiting"

\* A session is never left open with nobody to close it: it was asked to close,
\* or the audio thread, which asks for it when the media ends, runs or will.
ReleaseIsPending ==
    session = "open" => closeAsked \/ HandingOver \/ reader = "running"

\* Somebody decided to end the call, be it not yet in the flag.
EndIsWanted == endRequested \/ \E e \in Enders : ender[e] = "end_call"

\* Open media is never overlooked except when on_media is turned away by an
\* activation that clears bridge_started again: in every other state there is a
\* bridge, somebody is about to look for media, or the call is being ended.  In
\* particular bridge_started never stays set without a bridge.
MediaIsPending ==
    /\ media = "open" =>
         \/ bridges > 0 \/ EndIsWanted
         \/ \E t \in Tasks : task[t] = "start" \/ Activating(t)
         \/ task["on_media"] = "done" /\ ~bridgeStarted
    /\ bridgeStarted => bridges > 0 \/ EndIsWanted \/ \E t \in Tasks : Activating(t)

\* The realtime session of a call that is over is closed, also when the call
\* ended while the session was still being connected.
SessionReleased == (session = "open" /\ sip = "ended") ~> session = "closed"

\* The call ends once a realtime session was established and is lost, unless
\* the BYE that the bridge sends for it fails.
LostSessionEndsCall ==
    session = "closed" ~> sip = "ended" \/ ender["watcher"] = "failed"

\* As long as BYEs can be sent, a call whose realtime session was lost is ended,
\* whatever the watcher found in end_requested,
LossEndsCall == session = "closed" ~> sip = "ended" \/ faults > 0

\* and so is a call that anybody decided to end, whoever else is ending it.
EndIsHonoured == endRequested ~> sip = "ended" \/ faults > 0

\* A call whose media is open gets its bridge, unless it is being ended.
MediaIsBridged ==
    media = "open" ~> bridges > 0 \/ endRequested \/ sip = "ended"
=============================================================================
