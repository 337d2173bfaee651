------------------------ MODULE RealtimeSessionProofs ------------------------
(***************************************************************************)
(* Proofs about RealtimeSession for every frame size, queue limit and      *)
(* number of responses.                                                    *)
(***************************************************************************)
EXTENDS RealtimeSession, FiniteSetTheorems, SequenceTheorems, TLAPS

(* The constants are natural numbers. *)
LEMMA Constants ==
    /\ FrameUnits \in Nat \ {0} /\ MaxUnits \in Nat \ {0} /\ MaxResponses \in Nat \ {0}
    /\ MaxDelta \in Nat \ {0} /\ InFlight \in Nat \ {0}
    /\ MaxQueued \in Nat /\ MaxSpeech \in Nat /\ MaxSpeak \in Nat
  BY RealtimeAssumption

(* Rounding up to whole frames covers the excess. *)
LEMMA CeilCovers ==
    ASSUME NEW e \in Nat, NEW f \in Nat \ {0}
    PROVE  /\ (e + f - 1) \div f \in Nat
           /\ ((e + f - 1) \div f) * f \in Nat
           /\ ((e + f - 1) \div f) * f >= e
<1> DEFINE n == e + f - 1
           q == n \div f
<1>1. n \in Nat
  OBVIOUS
<1>2. n = f * q + (n % f) /\ n % f \in 0 .. f - 1 /\ q \in Nat
  BY <1>1, Z3
<1> HIDE DEF q
<1>3. f * q = q * f /\ f * q \in Nat
  BY <1>2
<1> QED
  BY <1>2, <1>3 DEF q

(* discard_overflow drops at least the excess and at most the queue. *)
LEMMA OverflowDrops ==
    ASSUME NEW length \in Nat
    PROVE  /\ Overflow(length) \in 0 .. length
           /\ length - Overflow(length) <= MaxQueued
<1> DEFINE excess == IF length > MaxQueued THEN length - MaxQueued ELSE 0
           units == ((excess + FrameUnits - 1) \div FrameUnits) * FrameUnits
<1>1. excess \in Nat /\ length - excess <= MaxQueued /\ excess <= length
  BY Constants
<1>2. units \in Nat /\ units >= excess
  BY <1>1, CeilCovers, Constants
<1>3. Overflow(length) = IF units < length THEN units ELSE length
  BY DEF Overflow, AtMost
<1> HIDE DEF excess, units
<1> QED
  BY <1>1, <1>2, <1>3, Constants

(* What is left of a sequence after its first n elements. *)
LEMMA Rest ==
    ASSUME NEW S, NEW s \in Seq(S), NEW n \in 0 .. Len(s)
    PROVE  /\ SubSeq(s, n + 1, Len(s)) \in Seq(S)
           /\ Len(SubSeq(s, n + 1, Len(s))) = Len(s) - n
  OBVIOUS

(* The units of a delta form a sequence. *)
LEMMA AudioTyped ==
    ASSUME NEW n \in Nat, NEW r \in Responses
    PROVE  [i \in 1 .. n |-> r] \in Seq(Responses)
<1>1. [i \in 1 .. n |-> r] \in [1 .. n -> Responses]
  OBVIOUS
<1> QED
  BY <1>1, SeqDef

(* push keeps the queue well formed. *)
LEMMA PushTyped ==
    ASSUME NEW out \in QueuedAudio, NEW item \in Responses \cup {NoItem},
           NEW audio \in Seq(Responses)
    PROVE  Push(out, item, audio) \in QueuedAudio
<1>1. out.bytes \o audio \in Seq(Responses) /\ Len(audio) \in Nat
  BY DEF QueuedAudio
<1>2. /\ (IF item # out.item THEN 0 ELSE out.generated) + Len(audio) \in Nat
      /\ (IF item # out.item THEN 0 ELSE out.flushed) \in Nat
  BY <1>1 DEF QueuedAudio
<1> QED
  BY <1>1, <1>2 DEF Push, QueuedAudio

(* discard_overflow keeps the queue well formed and within its limit. *)
LEMMA DiscardTyped ==
    ASSUME NEW out \in QueuedAudio
    PROVE  /\ DiscardOverflow(out) \in QueuedAudio
           /\ Len(DiscardOverflow(out).bytes) <= MaxQueued
<1> DEFINE dropped == Overflow(Len(out.bytes))
           rest == SubSeq(out.bytes, dropped + 1, Len(out.bytes))
<1>1. out.bytes \in Seq(Responses) /\ Len(out.bytes) \in Nat /\ out.flushed \in Nat
  BY DEF QueuedAudio
<1>2. dropped \in 0 .. Len(out.bytes) /\ Len(out.bytes) - dropped <= MaxQueued
  BY <1>1, OverflowDrops
<1> HIDE DEF dropped
<1>3. rest \in Seq(Responses) /\ Len(rest) <= MaxQueued
  BY <1>1, <1>2, Rest
<1>4. out.flushed + dropped \in Nat
  BY <1>1, <1>2
<1>5. DiscardOverflow(out) = [out EXCEPT !.bytes = rest, !.flushed = out.flushed + dropped]
  BY DEF DiscardOverflow, dropped
<1> HIDE DEF rest
<1> QED
  BY <1>3, <1>4, <1>5 DEF QueuedAudio

(* next_frame takes a prefix of the queue. *)
LEMMA FrameTyped ==
    ASSUME NEW out \in QueuedAudio
    PROVE  /\ NextFrame(out) \in Seq(Responses)
           /\ Len(NextFrame(out)) \in 0 .. Len(out.bytes)
<1>1. out.bytes \in Seq(Responses) /\ Len(out.bytes) \in Nat
  BY DEF QueuedAudio
<1>2. AtMost(FrameUnits, Len(out.bytes)) \in 0 .. Len(out.bytes)
  BY <1>1, Constants DEF AtMost
<1>3. ASSUME NEW n \in 0 .. Len(out.bytes)
      PROVE  SubSeq(out.bytes, 1, n) \in Seq(Responses) /\ Len(SubSeq(out.bytes, 1, n)) = n
  BY <1>1
<1>4. <<>> \in Seq(Responses) /\ Len(<<>>) = 0
  OBVIOUS
<1> QED
  BY <1>1, <1>2, <1>3, <1>4 DEF NextFrame

(* The units of a response in a frame are finitely many. *)
LEMMA UnitsCounted ==
    ASSUME NEW frame \in Seq(Responses), NEW r \in Responses
    PROVE  UnitsOf(r, frame) \in Nat
<1>1. IsFiniteSet(1 .. Len(frame))
  BY FS_Interval
<1>2. IsFiniteSet({i \in 1 .. Len(frame) : frame[i] = r})
  BY <1>1, FS_Subset
<1> QED
  BY <1>2, FS_CardinalityType DEF UnitsOf

(* The elements of a sequence. *)
LEMMA ElementTyped ==
    ASSUME NEW S, NEW s \in Seq(S), NEW n \in 1 .. Len(s)
    PROVE  s[n] \in S
  OBVIOUS

(* A received event is one of the provider's events. *)
LEMMA EventReceived ==
    ASSUME toSession \in Seq(Events), toSession # <<>>
    PROVE  Head(toSession) \in Events /\ Tail(toSession) \in Seq(Events)
  OBVIOUS

(* A provider event under way is added only by Emit, which keeps the      *)
(* channel well formed.                                                    *)
LEMMA EmitTyped ==
    ASSUME TypeStates, NEW event \in Events, Emit(event)
    PROVE  toSession' \in Seq(Events)
  BY DEF TypeStates, Emit

(* Starting a response. *)
LEMMA StartTyped ==
    ASSUME TypeStates, StartResponse
    PROVE  /\ toSession' \in Seq(Events) /\ made' \in 0 .. MaxResponses
           /\ current' \in Responses \cup {NoResponse}
           /\ sent' \in 0 .. AudioFinished /\ named' \in BOOLEAN
<1>1. made \in 0 .. MaxResponses /\ made < MaxResponses
  BY DEF TypeStates, StartResponse
<1>2. made + 1 \in 1 .. MaxResponses
  BY <1>1, Constants
<1>3. [type |-> "created", response |-> made + 1] \in Events
  BY <1>2 DEF Events, Responses
<1>4. toSession' \in Seq(Events)
  BY <1>3, EmitTyped DEF StartResponse
<1>5. 0 \in 0 .. AudioFinished
  BY Constants DEF AudioFinished
<1>6. made' \in 0 .. MaxResponses /\ current' \in Responses \cup {NoResponse}
  BY <1>2, Constants DEF StartResponse, Responses
<1>7. named' \in BOOLEAN
  BY DEF StartResponse
<1> QED
  BY <1>4, <1>5, <1>6, <1>7 DEF StartResponse

(* Ending a response. *)
LEMMA EndTyped ==
    ASSUME TypeStates, EndResponse
    PROVE  toSession' \in Seq(Events) /\ current' \in Responses \cup {NoResponse}
<1>1. [type |-> "done"] \in Events
  BY DEF Events
<1> QED
  BY <1>1, EmitTyped DEF EndResponse

(* Each step keeps every variable in its type. *)
LEMMA TypeStep ==
    ASSUME TypeOK, [Next]_vars
    PROVE  TypeOK'
<1> USE DEF TypeOK
<1>1. CASE UNCHANGED vars
  BY <1>1 DEF vars, mapper, provider, history, TypeFlags, TypeStates
<1>2. CASE ProviderStarts
  <2>1. /\ toSession' \in Seq(Events) /\ made' \in 0 .. MaxResponses
        /\ current' \in Responses \cup {NoResponse}
        /\ sent' \in 0 .. AudioFinished /\ named' \in BOOLEAN
    BY <1>2, StartTyped DEF ProviderStarts
  <2>2. TypeFlags'
    BY <1>2, <2>1 DEF ProviderStarts, TypeFlags, mapper, history
  <2>3. TypeStates' /\ output' \in QueuedAudio
    BY <1>2, <2>1 DEF ProviderStarts, TypeStates, mapper, history
  <2> QED
    BY <2>2, <2>3
<1>3. CASE ProviderNamesItem
  <2>1. [type |-> "added", item |-> current] \in Events
    BY <1>3 DEF ProviderNamesItem, TypeStates, Events
  <2>2. toSession' \in Seq(Events)
    BY <1>3, <2>1, EmitTyped DEF ProviderNamesItem
  <2>3. TypeFlags'
    BY <1>3 DEF ProviderNamesItem, TypeFlags, mapper, history
  <2>4. TypeStates' /\ output' \in QueuedAudio
    BY <1>3, <2>2 DEF ProviderNamesItem, TypeStates, mapper, history
  <2> QED
    BY <2>3, <2>4
<1>4. CASE ProviderStreams
  <2>1. PICK units \in 1 .. MaxDelta :
          /\ sent + units <= MaxUnits
          /\ Emit([type |-> "audio", response |-> current, units |-> units,
                   item |-> IF tags THEN current ELSE NoItem])
          /\ sent' = sent + units
    BY <1>4 DEF ProviderStreams
  <2>2. /\ current \in Responses
        /\ units \in Nat
        /\ (IF tags THEN current ELSE NoItem) \in Responses \cup {NoItem}
    BY <1>4, Constants DEF ProviderStreams, TypeStates
  <2>3. [type |-> "audio", response |-> current, units |-> units,
         item |-> IF tags THEN current ELSE NoItem] \in Events
    BY <2>2 DEF Events
  <2>4. toSession' \in Seq(Events)
    BY <2>1, <2>3, EmitTyped
  <2>5. sent' \in 0 .. AudioFinished
    BY <2>1, Constants DEF TypeStates, AudioFinished
  <2>6. TypeFlags'
    BY <1>4 DEF ProviderStreams, TypeFlags, mapper, history
  <2>7. TypeStates' /\ output' \in QueuedAudio
    BY <1>4, <2>4, <2>5 DEF ProviderStreams, TypeStates, mapper, history
  <2> QED
    BY <2>6, <2>7
<1>5. CASE ProviderFinishesAudio
  <2>1. [type |-> "audio_done"] \in Events
    BY DEF Events
  <2>2. toSession' \in Seq(Events)
    BY <1>5, <2>1, EmitTyped DEF ProviderFinishesAudio
  <2>3. sent' \in 0 .. AudioFinished
    BY <1>5, Constants DEF ProviderFinishesAudio, AudioFinished
  <2>4. TypeFlags'
    BY <1>5 DEF ProviderFinishesAudio, TypeFlags, mapper, history
  <2>5. TypeStates' /\ output' \in QueuedAudio
    BY <1>5, <2>2, <2>3 DEF ProviderFinishesAudio, TypeStates, mapper, history
  <2> QED
    BY <2>4, <2>5
<1>6. CASE ProviderEnds
  <2>1. toSession' \in Seq(Events) /\ current' \in Responses \cup {NoResponse}
    BY <1>6, EndTyped DEF ProviderEnds
  <2>2. TypeFlags'
    BY <1>6 DEF ProviderEnds, TypeFlags, mapper, history
  <2>3. TypeStates' /\ output' \in QueuedAudio
    BY <1>6, <2>1 DEF ProviderEnds, TypeStates, mapper, history
  <2> QED
    BY <2>2, <2>3
<1>7. CASE ProviderHearsCaller
  <2>1. [type |-> "speech_started"] \in Events
    BY DEF Events
  <2>2. toSession' \in Seq(Events)
    BY <1>7, <2>1, EmitTyped DEF ProviderHearsCaller
  <2>3. speeches' \in 0 .. MaxSpeech
    BY <1>7, Constants DEF ProviderHearsCaller, TypeStates
  <2>4. TypeFlags'
    BY <1>7 DEF ProviderHearsCaller, TypeFlags, mapper, history
  <2>5. TypeStates' /\ output' \in QueuedAudio
    BY <1>7, <2>2, <2>3 DEF ProviderHearsCaller, TypeStates, mapper, history
  <2> QED
    BY <2>4, <2>5
<1>8. CASE ProviderReceives
  <2>1. toProvider' \in Seq(Requests)
    BY <1>8 DEF ProviderReceives, TypeStates
  <2>2. [type |-> "error"] \in Events
    BY DEF Events
  <2>3. /\ toSession' \in Seq(Events) /\ made' \in 0 .. MaxResponses
        /\ current' \in Responses \cup {NoResponse}
        /\ sent' \in 0 .. AudioFinished
    <3>1. CASE EndResponse /\ UNCHANGED <<made, sent, named>>
      BY <3>1, EndTyped DEF TypeStates
    <3>2. CASE StartResponse
      BY <3>2, StartTyped
    <3>3. CASE Emit([type |-> "error"]) /\ UNCHANGED <<current, made, sent, named>>
      BY <3>3, <2>2, EmitTyped DEF TypeStates
    <3>4. CASE UNCHANGED <<toSession, current, made, sent, named>>
      BY <3>4 DEF TypeStates
    <3> QED
      BY <1>8, <3>1, <3>2, <3>3, <3>4 DEF ProviderReceives
  <2>4. named' \in BOOLEAN
    <3>1. named' = named \/ named' = FALSE
      BY <1>8 DEF ProviderReceives, StartResponse
    <3> QED
      BY <3>1 DEF TypeFlags
  <2>5. TypeFlags'
    BY <1>8, <2>4 DEF ProviderReceives, TypeFlags, mapper, history
  <2>6. TypeStates' /\ output' \in QueuedAudio
    BY <1>8, <2>1, <2>3 DEF ProviderReceives, TypeStates, mapper, history
  <2> QED
    BY <2>5, <2>6
<1>9. CASE OnCreated
  <2>1. Head(toSession) \in Events /\ Tail(toSession) \in Seq(Events)
    BY <1>9, EventReceived DEF OnCreated, Receive, TypeStates
  <2>2. Head(toSession).response \in Responses
    BY <1>9, <2>1 DEF OnCreated, Receive, Events
  <2>3. TypeFlags'
    BY <1>9 DEF OnCreated, TypeFlags, provider
  <2>4. TypeStates' /\ output' \in QueuedAudio
    BY <1>9, <2>1, <2>2 DEF OnCreated, Receive, TypeStates, provider
  <2> QED
    BY <2>3, <2>4
<1>10. CASE OnItemAdded
  <2>1. Head(toSession) \in Events /\ Tail(toSession) \in Seq(Events)
    BY <1>10, EventReceived DEF OnItemAdded, Receive, TypeStates
  <2>2. Head(toSession).item \in Responses
    BY <1>10, <2>1 DEF OnItemAdded, Receive, Events
  <2>3. TypeFlags'
    BY <1>10 DEF OnItemAdded, TypeFlags, provider, history
  <2>4. TypeStates' /\ output' \in QueuedAudio
    BY <1>10, <2>1, <2>2 DEF OnItemAdded, Receive, TypeStates, provider, history
  <2> QED
    BY <2>3, <2>4
<1>11. CASE OnAudioDelta
  <2> DEFINE event == Head(toSession)
             item == ItemOf(event)
             audio == [i \in 1 .. event.units |-> event.response]
  <2>1. event \in Events /\ Tail(toSession) \in Seq(Events) /\ event.type = "audio"
    BY <1>11, EventReceived DEF OnAudioDelta, Receive, TypeStates
  <2>2. /\ event.response \in Responses /\ event.units \in Nat
        /\ event.item \in Responses \cup {NoItem}
    BY <2>1 DEF Events
  <2>3. item \in Responses \cup {NoItem} /\ audio \in Seq(Responses)
    BY <2>2, AudioTyped DEF TypeStates, ItemOf
  <2>4. output' = DiscardOverflow(Push(output, item, audio))
    BY <1>11 DEF OnAudioDelta
  <2>5. mixed' \in BOOLEAN
    <3>1. mixed' = (output.bytes # <<>>) \/ mixed' = mixed
      BY <1>11 DEF OnAudioDelta
    <3> QED
      BY <3>1 DEF TypeFlags
  <2> HIDE DEF event, item, audio
  <2>6. output' \in QueuedAudio
    BY <2>3, <2>4, PushTyped, DiscardTyped
  <2>7. TypeFlags'
    BY <1>11, <2>5 DEF OnAudioDelta, TypeFlags, provider
  <2>8. TypeStates'
    BY <1>11, <2>1 DEF OnAudioDelta, Receive, TypeStates, provider
  <2> QED
    BY <2>6, <2>7, <2>8
<1>12. CASE OnSpeechStarted
  <2>1. Tail(toSession) \in Seq(Events)
    BY <1>12, EventReceived DEF OnSpeechStarted, Receive, TypeStates
  <2>2. /\ output.item \in Responses \cup {NoItem} /\ Unplayed(output) \in Nat
        /\ AudioEnd(output) \in Nat
    BY DEF QueuedAudio, Unplayed, AudioEnd
  <2>3. output' \in QueuedAudio
    <3>1. output' = [bytes |-> <<>>, item |-> output.item, generated |-> output.generated,
                     flushed |-> Unplayed(output), finished |-> output.finished]
      BY <1>12 DEF OnSpeechStarted, QueuedAudio
    <3>2. <<>> \in Seq(Responses)
      OBVIOUS
    <3> QED
      BY <2>2, <3>1, <3>2 DEF QueuedAudio
  <2>4. <<[type |-> "cancel"]>> \in Seq(Requests)
    <3>1. [type |-> "cancel"] \in Requests
      BY DEF Requests
    <3> QED
      BY <3>1
  <2>5. Truncate(output) \in Seq(Requests)
    <3>1. output.item # NoItem =>
            [type |-> "truncate", item |-> output.item, end |-> AudioEnd(output)] \in Requests
      BY <2>2 DEF Requests
    <3> QED
      BY <3>1 DEF Truncate
  <2>6. toProvider \o <<[type |-> "cancel"]>> \o Truncate(output) \in Seq(Requests)
    BY <2>4, <2>5 DEF TypeStates
  <2>7. toProvider' \in Seq(Requests)
    BY <1>12, <2>6 DEF OnSpeechStarted, TypeStates
  <2>8. TypeFlags'
    BY <1>12 DEF OnSpeechStarted, TypeFlags, provider
  <2>9. TypeStates'
    BY <1>12, <2>1, <2>7 DEF OnSpeechStarted, Receive, TypeStates, provider
  <2> QED
    BY <2>3, <2>8, <2>9
<1>13. CASE OnAudioDone
  <2>1. Tail(toSession) \in Seq(Events)
    BY <1>13, EventReceived DEF OnAudioDone, Receive, TypeStates
  <2>2. output' \in QueuedAudio
    BY <1>13 DEF OnAudioDone, QueuedAudio
  <2>3. TypeFlags'
    BY <1>13 DEF OnAudioDone, TypeFlags, mapper, provider, history
  <2>4. TypeStates'
    BY <1>13, <2>1 DEF OnAudioDone, Receive, TypeStates, mapper, provider, history
  <2> QED
    BY <2>2, <2>3, <2>4
<1>14. CASE OnDone
  <2>1. Tail(toSession) \in Seq(Events)
    BY <1>14, EventReceived DEF OnDone, Receive, TypeStates
  <2>2. output' \in QueuedAudio
    BY <1>14 DEF OnDone, QueuedAudio
  <2>3. TypeFlags'
    BY <1>14 DEF OnDone, TypeFlags, provider
  <2>4. TypeStates'
    BY <1>14, <2>1 DEF OnDone, Receive, TypeStates, provider
  <2> QED
    BY <2>2, <2>3, <2>4
<1>15. CASE OnError
  <2>1. Tail(toSession) \in Seq(Events)
    BY <1>15, EventReceived DEF OnError, Receive, TypeStates
  <2>2. TypeFlags'
    BY <1>15 DEF OnError, TypeFlags, mapper, provider, history
  <2>3. TypeStates' /\ output' \in QueuedAudio
    BY <1>15, <2>1 DEF OnError, Receive, TypeStates, mapper, provider, history
  <2> QED
    BY <2>2, <2>3
<1>16. CASE OnSpeak
  <2>1. [type |-> "create"] \in Requests
    BY DEF Requests
  <2>2. toProvider' \in Seq(Requests) /\ spoken' \in 0 .. MaxSpeak
    BY <1>16, <2>1, Constants DEF OnSpeak, TypeStates
  <2>3. TypeFlags'
    BY <1>16 DEF OnSpeak, TypeFlags, provider, history
  <2>4. TypeStates' /\ output' \in QueuedAudio
    BY <1>16, <2>2 DEF OnSpeak, TypeStates, provider, history
  <2> QED
    BY <2>3, <2>4
<1>17. CASE Tick
  <2> DEFINE frame == NextFrame(output)
             rest == SubSeq(output.bytes, Len(frame) + 1, Len(output.bytes))
  <2>1. output.bytes \in Seq(Responses)
    BY DEF QueuedAudio
  <2>2. frame \in Seq(Responses) /\ Len(frame) \in 0 .. Len(output.bytes)
    BY FrameTyped
  <2>3. /\ output' = [output EXCEPT !.bytes = rest]
        /\ played' = [r \in Responses |-> played[r] + UnitsOf(r, frame)]
    BY <1>17 DEF Tick
  <2> HIDE DEF frame
  <2>4. rest \in Seq(Responses)
    BY <2>1, <2>2, Rest
  <2>5. \A r \in Responses : played[r] + UnitsOf(r, frame) \in Nat
    BY <2>2, UnitsCounted DEF TypeStates
  <2> HIDE DEF rest
  <2>6. output' \in QueuedAudio
    BY <2>3, <2>4 DEF QueuedAudio
  <2>7. played' \in [Responses -> Nat]
    BY <2>3, <2>5
  <2>8. TypeFlags'
    BY <1>17 DEF Tick, TypeFlags, mapper, provider
  <2>9. TypeStates'
    BY <1>17, <2>7 DEF Tick, TypeStates, mapper, provider
  <2> QED
    BY <2>6, <2>8, <2>9
<1>18. CASE Close \/ Fail
  <2>1. TypeFlags'
    BY <1>18 DEF Close, Fail, TypeFlags, mapper, provider, history
  <2>2. TypeStates' /\ output' \in QueuedAudio
    BY <1>18 DEF Close, Fail, TypeStates, mapper, provider, history
  <2> QED
    BY <2>1, <2>2
<1> QED
  BY <1>1, <1>2, <1>3, <1>4, <1>5, <1>6, <1>7, <1>8, <1>9, <1>10, <1>11, <1>12,
     <1>13, <1>14, <1>15, <1>16, <1>17, <1>18 DEF Next

(* Every variable has its type at first. *)
LEMMA TypeInit == Init => TypeOK
<1> SUFFICES ASSUME Init PROVE TypeOK
  OBVIOUS
<1>1. TypeFlags
  BY DEF Init, TypeFlags
<1>2. output \in QueuedAudio
  BY DEF Init, QueuedAudio
<1>3. 0 \in 0 .. AudioFinished /\ 0 \in 0 .. MaxResponses /\ 0 \in 0 .. MaxSpeech
        /\ 0 \in 0 .. MaxSpeak
  BY Constants DEF AudioFinished
<1>4. TypeStates
  BY <1>3 DEF Init, TypeStates
<1> QED
  BY <1>1, <1>2, <1>4 DEF TypeOK

(* The session's variables always have their types: no handler meets a     *)
(* value the code could not hold, whatever the provider sends.             *)
THEOREM TypeCorrect == Spec => []TypeOK
  BY TypeInit, TypeStep, PTL DEF Spec

(* The output queue stays within MAX_QUEUED_OUTPUT_BYTES for every frame   *)
(* size: discard_overflow runs after every push and rounds up, and every   *)
(* other step only shortens the queue.                                     *)
THEOREM QueueWithinLimit == Spec => []QueueBounded
<1>1. Init => QueueBounded
  BY Constants DEF Init, QueueBounded
<1>2. TypeOK /\ QueueBounded /\ [Next]_vars => QueueBounded'
  <2> SUFFICES ASSUME TypeOK, QueueBounded, [Next]_vars PROVE QueueBounded'
    OBVIOUS
  <2>1. output \in QueuedAudio /\ output.bytes \in Seq(Responses)
        /\ Len(output.bytes) \in Nat
    BY DEF TypeOK, QueuedAudio
  <2>2. CASE output'.bytes = output.bytes
    BY <2>2 DEF QueueBounded
  <2>3. CASE OnAudioDelta
    <3> DEFINE event == Head(toSession)
               item == ItemOf(event)
               audio == [i \in 1 .. event.units |-> event.response]
    <3>1. event \in Events /\ event.type = "audio"
      BY <2>3, EventReceived DEF OnAudioDelta, Receive, TypeOK, TypeStates
    <3>2. /\ event.response \in Responses /\ event.units \in Nat
          /\ event.item \in Responses \cup {NoItem}
      BY <3>1 DEF Events
    <3>3. item \in Responses \cup {NoItem} /\ audio \in Seq(Responses)
      BY <3>2, AudioTyped DEF TypeOK, TypeStates, ItemOf
    <3>4. output' = DiscardOverflow(Push(output, item, audio))
      BY <2>3 DEF OnAudioDelta
    <3> HIDE DEF event, item, audio
    <3> QED
      BY <2>1, <3>3, <3>4, PushTyped, DiscardTyped DEF QueueBounded
  <2>4. CASE OnSpeechStarted
    <3>1. output'.bytes = <<>>
      BY <2>1, <2>4 DEF OnSpeechStarted, QueuedAudio
    <3> QED
      BY <3>1, Constants DEF QueueBounded
  <2>5. CASE Tick
    <3> DEFINE frame == NextFrame(output)
               rest == SubSeq(output.bytes, Len(frame) + 1, Len(output.bytes))
    <3>1. Len(frame) \in 0 .. Len(output.bytes)
      BY <2>1, FrameTyped
    <3>2. output' = [output EXCEPT !.bytes = rest]
      BY <2>5 DEF Tick
    <3> HIDE DEF frame
    <3>3. Len(rest) <= Len(output.bytes)
      BY <2>1, <3>1, Rest
    <3> HIDE DEF rest
    <3>4. output'.bytes = rest
      BY <2>1, <3>2 DEF QueuedAudio
    <3>5. Len(rest) \in Nat
      BY <2>1, <3>1, Rest DEF rest
    <3> QED
      BY <2>1, <3>3, <3>4, <3>5, Constants DEF QueueBounded
  <2>6. CASE OnAudioDone \/ OnDone
    <3>1. output'.bytes = output.bytes
      BY <2>1, <2>6 DEF OnAudioDone, OnDone, QueuedAudio
    <3> QED
      BY <3>1, <2>2
  <2>7. CASE output' = output
    BY <2>2, <2>7
  <2> QED
    BY <2>3, <2>4, <2>5, <2>6, <2>7
       DEF Next, vars, ProviderStarts, ProviderNamesItem, ProviderStreams,
           ProviderFinishesAudio, ProviderEnds, ProviderHearsCaller, ProviderReceives,
           OnCreated, OnItemAdded, OnError, OnSpeak, Close, Fail
<1> QED
  BY <1>1, <1>2, TypeCorrect, PTL DEF Spec

(* A response the session knows of is always cancelled by the caller's     *)
(* speech.  The property needs no strengthening: response_active is        *)
(* cleared only by a barge-in, which sends the cancel, and by the end of   *)
(* the response.                                                           *)
THEOREM SpeechCancels == Spec => []SpeechWouldCancel
<1>1. Init => SpeechWouldCancel
  BY DEF Init, SpeechWouldCancel
<1>2. SpeechWouldCancel /\ [Next]_vars => SpeechWouldCancel'
  <2> SUFFICES ASSUME SpeechWouldCancel, [Next]_vars PROVE SpeechWouldCancel'
    OBVIOUS
  <2>1. CASE UNCHANGED <<session, responseActive, inProgress, cancelled>>
    BY <2>1 DEF SpeechWouldCancel
  <2>2. CASE ProviderStarts
    BY <2>2 DEF ProviderStarts, SpeechWouldCancel, mapper, history
  <2>3. CASE ProviderNamesItem
    BY <2>3 DEF ProviderNamesItem, SpeechWouldCancel, mapper, history
  <2>4. CASE ProviderStreams
    BY <2>4 DEF ProviderStreams, SpeechWouldCancel, mapper, history
  <2>5. CASE ProviderFinishesAudio
    BY <2>5 DEF ProviderFinishesAudio, SpeechWouldCancel, mapper, history
  <2>6. CASE ProviderEnds
    BY <2>6 DEF ProviderEnds, SpeechWouldCancel, mapper, history
  <2>7. CASE ProviderHearsCaller
    BY <2>7 DEF ProviderHearsCaller, SpeechWouldCancel, mapper, history
  <2>8. CASE ProviderReceives
    BY <2>8 DEF ProviderReceives, SpeechWouldCancel, mapper, history
  <2>9. CASE OnCreated
    BY <2>9 DEF OnCreated, SpeechWouldCancel
  <2>10. CASE OnItemAdded
    BY <2>10 DEF OnItemAdded, SpeechWouldCancel, history
  <2>11. CASE OnAudioDelta
    BY <2>11 DEF OnAudioDelta, SpeechWouldCancel
  <2>12. CASE OnSpeechStarted
    BY <2>12 DEF OnSpeechStarted, Receive, SpeechWouldCancel
  <2>13. CASE OnAudioDone
    BY <2>13 DEF OnAudioDone, SpeechWouldCancel, mapper, history
  <2>14. CASE OnDone
    BY <2>14 DEF OnDone, SpeechWouldCancel
  <2>15. CASE OnError
    BY <2>15 DEF OnError, SpeechWouldCancel, mapper, history
  <2>16. CASE OnSpeak
    BY <2>16 DEF OnSpeak, SpeechWouldCancel
  <2>17. CASE Tick
    BY <2>17 DEF Tick, SpeechWouldCancel, mapper
  <2>18. CASE Close \/ Fail
    BY <2>18 DEF Close, Fail, SpeechWouldCancel
  <2> QED
    BY <2>1, <2>2, <2>3, <2>4, <2>5, <2>6, <2>7, <2>8, <2>9, <2>10, <2>11, <2>12,
       <2>13, <2>14, <2>15, <2>16, <2>17, <2>18
       DEF Next, vars, mapper, history
<1> QED
  BY <1>1, <1>2, PTL DEF Spec

-----------------------------------------------------------------------------
(* How many units of a response a sequence holds.                          *)

(* Splitting a sequence splits the count of a response's units. *)
LEMMA UnitsSplit ==
    ASSUME NEW s \in Seq(Responses), NEW r \in Responses, NEW n \in 0 .. Len(s)
    PROVE  UnitsOf(r, s) = UnitsOf(r, SubSeq(s, 1, n)) + UnitsOf(r, SubSeq(s, n + 1, Len(s)))
<1> DEFINE front == SubSeq(s, 1, n)
           rest == SubSeq(s, n + 1, Len(s))
           F == {i \in 1 .. n : s[i] = r}
           B == {i \in n + 1 .. Len(s) : s[i] = r}
           R == {i \in 1 .. Len(s) - n : rest[i] = r}
           shift == [i \in R |-> i + n]
<1>1. /\ Len(s) \in Nat /\ n \in Nat
      /\ Len(front) = n /\ \A i \in 1 .. n : front[i] = s[i]
      /\ Len(rest) = Len(s) - n /\ \A i \in 1 .. Len(s) - n : rest[i] = s[i + n]
  OBVIOUS
<1>2. UnitsOf(r, front) = Cardinality(F)
  <2>1. {i \in 1 .. Len(front) : front[i] = r} = F
    BY <1>1
  <2> QED
    BY <2>1 DEF UnitsOf
<1>3. UnitsOf(r, rest) = Cardinality(R)
  <2>1. {i \in 1 .. Len(rest) : rest[i] = r} = R
    BY <1>1
  <2> QED
    BY <2>1 DEF UnitsOf
<1>4. IsFiniteSet(F) /\ IsFiniteSet(B) /\ IsFiniteSet(R)
  <2>1. /\ IsFiniteSet(1 .. n) /\ IsFiniteSet(n + 1 .. Len(s))
        /\ IsFiniteSet(1 .. Len(s) - n)
    BY <1>1, FS_Interval
  <2> QED
    BY <2>1, FS_Subset
<1>5. Cardinality(R) = Cardinality(B)
  <2>1. shift \in Bijection(R, B)
    <3> HIDE DEF rest
    <3>1. ASSUME NEW i \in R PROVE i + n \in B
      BY <1>1
    <3>2. ASSUME NEW j \in B PROVE j - n \in R /\ j = (j - n) + n
      BY <1>1
    <3>3. \A i, j \in R : i + n = j + n => i = j
      BY <1>1
    <3> HIDE DEF R, B
    <3>4. shift \in [R -> B] /\ \A i \in R : shift[i] = i + n
      BY <3>1
    <3>5. shift \in Injection(R, B)
      BY <3>3, <3>4 DEF Injection, IsInjective
    <3>6. \A j \in B : \E i \in R : shift[i] = j
      BY <3>2, <3>4
    <3> QED
      BY <3>4, <3>5, <3>6 DEF Bijection, Surjection
  <2>2. ExistsBijection(R, B)
    BY <2>1 DEF ExistsBijection
  <2> HIDE DEF R, B
  <2> QED
    BY <1>4, <2>2, FS_Bijection
<1>6. F \cup B = {i \in 1 .. Len(s) : s[i] = r} /\ F \cap B = {}
  BY <1>1
<1>7. UnitsOf(r, s) = Cardinality(F \cup B)
  BY <1>6 DEF UnitsOf
<1> HIDE DEF F, B, R, front, rest
<1>8. Cardinality(F \cup B) = Cardinality(F) + Cardinality(B)
  <2>1. Cardinality(F) \in Nat /\ Cardinality(B) \in Nat /\ Cardinality(F \cap B) = 0
    BY <1>4, <1>6, FS_EmptySet, FS_CardinalityType
  <2>2. Cardinality(F \cup B) = Cardinality(F) + Cardinality(B) - Cardinality(F \cap B)
    BY <1>4, FS_Union
  <2> QED
    BY <2>1, <2>2
<1> QED
  BY <1>2, <1>3, <1>5, <1>7, <1>8 DEF front, rest

(* The positions of a sequence. *)
LEMMA Positions ==
    ASSUME NEW n \in Nat
    PROVE  IsFiniteSet(1 .. n) /\ Cardinality(1 .. n) = n
<1>1. IsFiniteSet(1 .. n) /\ Cardinality(1 .. n) = IF 1 > n THEN 0 ELSE n - 1 + 1
  BY FS_Interval
<1>2. (IF 1 > n THEN 0 ELSE n - 1 + 1) = n
  OBVIOUS
<1> QED
  BY <1>1, <1>2

(* There are at most as many units of a response as units. *)
LEMMA UnitsBounded ==
    ASSUME NEW s \in Seq(Responses), NEW r \in Responses
    PROVE  UnitsOf(r, s) \in 0 .. Len(s)
<1>1. IsFiniteSet(1 .. Len(s)) /\ Cardinality(1 .. Len(s)) = Len(s)
  BY LenProperties, Positions
<1>2. {i \in 1 .. Len(s) : s[i] = r} \in SUBSET (1 .. Len(s))
  OBVIOUS
<1>3. Cardinality({i \in 1 .. Len(s) : s[i] = r}) <= Cardinality(1 .. Len(s))
  BY <1>1, <1>2, FS_Subset
<1> QED
  BY <1>1, <1>3, UnitsCounted DEF UnitsOf

(* Audio of one response alone. *)
LEMMA UnitsOfOne ==
    ASSUME NEW s \in Seq(Responses), NEW r \in Responses,
           \A i \in 1 .. Len(s) : s[i] = r
    PROVE  UnitsOf(r, s) = Len(s)
<1>1. {i \in 1 .. Len(s) : s[i] = r} = 1 .. Len(s)
  OBVIOUS
<1>2. Cardinality(1 .. Len(s)) = Len(s)
  BY LenProperties, Positions
<1> QED
  BY <1>1, <1>2 DEF UnitsOf

(* Audio without the response. *)
LEMMA UnitsOfNone ==
    ASSUME NEW s \in Seq(Responses), NEW r \in Responses,
           \A i \in 1 .. Len(s) : s[i] # r
    PROVE  UnitsOf(r, s) = 0
<1>1. {i \in 1 .. Len(s) : s[i] = r} = {}
  OBVIOUS
<1> QED
  BY <1>1, FS_EmptySet DEF UnitsOf

(* Appending a delta adds its units. *)
LEMMA UnitsAppended ==
    ASSUME NEW s \in Seq(Responses), NEW t \in Seq(Responses), NEW r \in Responses
    PROVE  UnitsOf(r, s \o t) = UnitsOf(r, s) + UnitsOf(r, t)
<1> DEFINE u == s \o t
<1>1. u \in Seq(Responses) /\ Len(u) = Len(s) + Len(t) /\ Len(s) \in 0 .. Len(u)
  OBVIOUS
<1>2. SubSeq(u, 1, Len(s)) = s
  OBVIOUS
<1>3. SubSeq(u, Len(s) + 1, Len(u)) = t
  OBVIOUS
<1> HIDE DEF u
<1>4. UnitsOf(r, u) = UnitsOf(r, SubSeq(u, 1, Len(s)))
                        + UnitsOf(r, SubSeq(u, Len(s) + 1, Len(u)))
  BY <1>1, UnitsSplit
<1> QED
  BY <1>2, <1>3, <1>4 DEF u

-----------------------------------------------------------------------------
(* The order of the events under way.                                      *)

Boundary(event) == event.type \in {"created", "done"}

\* When the n-th of events is received, r is the response in progress; p is
\* the one in progress now.
InResponse(events, n, p, r) ==
    /\ (\A i \in 1 .. n - 1 : ~Boundary(events[i])) => p = r
    /\ \A j \in 1 .. n - 1 :
          Boundary(events[j]) /\ (\A i \in j + 1 .. n - 1 : ~Boundary(events[i]))
             => events[j].type = "created" /\ events[j].response = r

\* When the n-th of events is received no audio of r was received.
Unheard(events, n, bytes, heard, r) ==
    /\ heard[r] = 0
    /\ \A i \in 1 .. Len(bytes) : bytes[i] # r
    /\ \A i \in 1 .. n - 1 : events[i].type = "audio" => events[i].response # r

InOrder(event, events, n, p, bytes, heard, tagged) ==
    /\ event.type = "created" => Unheard(events, n, bytes, heard, event.response)
    /\ event.type = "added" => /\ InResponse(events, n, p, event.item)
                               /\ Unheard(events, n, bytes, heard, event.item)
    /\ event.type = "audio" =>
         /\ InResponse(events, n, p, event.response)
         /\ event.item = IF tagged THEN event.response ELSE NoItem

ChannelInOrder ==
    \A n \in 1 .. Len(toSession) :
       InOrder(toSession[n], toSession, n, inProgress, output.bytes, played, tags)

ProviderInOrder ==
    /\ current <= made
    /\ current # NoResponse =>
         /\ InResponse(toSession, Len(toSession) + 1, inProgress, current)
         /\ sent = 0 =>
              Unheard(toSession, Len(toSession) + 1, output.bytes, played, current)
    /\ \A r \in Responses :
          r > made => Unheard(toSession, Len(toSession) + 1, output.bytes, played, r)

ItemFollows ==
    /\ responseItem \in {NoItem, inProgress}
    /\ inProgress # NoResponse =>
         \/ Unheard(toSession, 1, output.bytes, played, inProgress)
         \/ output.item = IF tags THEN inProgress ELSE responseItem

OrderInv == TypeOK /\ ChannelInOrder /\ ProviderInOrder /\ ItemFollows

\* The response in progress once the event was handled.
After(p, event) ==
    IF event.type = "created" THEN event.response
    ELSE IF event.type = "done" THEN NoResponse ELSE p

(* An event that is sent changes nothing for those before it. *)
LEMMA SentLater ==
    ASSUME NEW s \in Seq(Events), NEW e \in Events, NEW n \in 1 .. Len(s) + 1,
           NEW p, NEW r, NEW bytes, NEW heard
    PROVE  /\ InResponse(Append(s, e), n, p, r) <=> InResponse(s, n, p, r)
           /\ Unheard(Append(s, e), n, bytes, heard, r) <=> Unheard(s, n, bytes, heard, r)
<1> DEFINE t == Append(s, e)
<1>1. \A i \in 1 .. n - 1 : t[i] = s[i]
  OBVIOUS
<1>2. n \in Nat
  OBVIOUS
<1> HIDE DEF t
<1>3. \A i \in 1 .. n - 1 : Boundary(t[i]) <=> Boundary(s[i])
  BY <1>1
<1>4. InResponse(t, n, p, r) <=> InResponse(s, n, p, r)
  <2>1. (\A i \in 1 .. n - 1 : ~Boundary(t[i])) <=> (\A i \in 1 .. n - 1 : ~Boundary(s[i]))
    BY <1>3
  <2>2. ASSUME NEW j \in 1 .. n - 1
        PROVE  (\A i \in j + 1 .. n - 1 : ~Boundary(t[i]))
                 <=> (\A i \in j + 1 .. n - 1 : ~Boundary(s[i]))
    <3>1. \A i \in j + 1 .. n - 1 : i \in 1 .. n - 1
      BY <1>2
    <3> QED
      BY <1>3, <3>1
  <2> QED
    BY <1>1, <1>3, <2>1, <2>2 DEF InResponse
<1>5. Unheard(t, n, bytes, heard, r) <=> Unheard(s, n, bytes, heard, r)
  BY <1>1, <1>2 DEF Unheard
<1> QED
  BY <1>4, <1>5 DEF t

(* What holds after an event that was sent last. *)
LEMMA SentLast ==
    ASSUME NEW s \in Seq(Events), NEW e \in Events, NEW p, NEW r, NEW bytes, NEW heard
    PROVE  LET n == Len(s) + 1 IN
           /\ ~Boundary(e) /\ InResponse(s, n, p, r)
                => InResponse(Append(s, e), n + 1, p, r)
           /\ e.type = "created" => InResponse(Append(s, e), n + 1, p, e.response)
           /\ Unheard(s, n, bytes, heard, r) /\ (e.type = "audio" => e.response # r)
                => Unheard(Append(s, e), n + 1, bytes, heard, r)
<1> DEFINE n == Len(s) + 1
           t == Append(s, e)
<1>1. n \in Nat /\ n >= 1 /\ t[n] = e /\ \A i \in 1 .. n - 1 : t[i] = s[i]
  OBVIOUS
<1> HIDE DEF t, n
<1>2. \A i \in 1 .. n - 1 : Boundary(t[i]) <=> Boundary(s[i])
  BY <1>1
<1>3. Boundary(t[n]) <=> Boundary(e)
  BY <1>1
<1>4. ASSUME ~Boundary(e), InResponse(s, n, p, r)
      PROVE  InResponse(t, n + 1, p, r)
  <2>1. ASSUME \A i \in 1 .. n : ~Boundary(t[i]) PROVE p = r
    BY <1>1, <1>2, <1>4, <2>1 DEF InResponse
  <2>2. ASSUME NEW j \in 1 .. n, Boundary(t[j]), \A i \in j + 1 .. n : ~Boundary(t[i])
        PROVE  t[j].type = "created" /\ t[j].response = r
    <3>1. j \in 1 .. n - 1
      BY <1>1, <1>3, <1>4, <2>2
    <3>2. Boundary(s[j]) /\ \A i \in j + 1 .. n - 1 : ~Boundary(s[i])
      BY <1>1, <1>2, <2>2, <3>1
    <3> QED
      BY <1>1, <1>4, <3>1, <3>2 DEF InResponse
  <2> DEFINE m == (n + 1) - 1
  <2>3. m = n
    BY <1>1
  <2> HIDE DEF m
  <2>4. (\A i \in 1 .. m : ~Boundary(t[i])) => p = r
    BY <2>1, <2>3
  <2>5. \A j \in 1 .. m :
          Boundary(t[j]) /\ (\A i \in j + 1 .. m : ~Boundary(t[i]))
            => t[j].type = "created" /\ t[j].response = r
    BY <2>2, <2>3
  <2> QED
    BY <2>4, <2>5 DEF InResponse, m
<1>5. ASSUME e.type = "created"
      PROVE  InResponse(t, n + 1, p, e.response)
  <2>1. Boundary(t[n])
    BY <1>3, <1>5 DEF Boundary
  <2>2. ASSUME NEW j \in 1 .. n, \A i \in j + 1 .. n : ~Boundary(t[i])
        PROVE  j = n
    BY <1>1, <2>1, <2>2
  <2>3. n + 1 - 1 = n /\ n \in 1 .. n
    BY <1>1
  <2> QED
    BY <1>1, <1>5, <2>1, <2>2, <2>3 DEF InResponse
<1>6. ASSUME Unheard(s, n, bytes, heard, r), e.type = "audio" => e.response # r
      PROVE  Unheard(t, n + 1, bytes, heard, r)
  BY <1>1, <1>6 DEF Unheard
<1> QED
  BY <1>4, <1>5, <1>6 DEF t, n

(* What holds once the first event was received. *)
LEMMA ReceivedFirst ==
    ASSUME NEW s \in Seq(Events), s # <<>>, NEW n \in 1 .. Len(s), NEW p,
           NEW r \in Responses, InResponse(s, n + 1, p, r)
    PROVE  InResponse(Tail(s), n, After(p, Head(s)), r)
<1> DEFINE t == Tail(s)
           q == After(p, Head(s))
<1>1. Len(s) \in Nat /\ \A i \in 1 .. n - 1 : t[i] = s[i + 1]
  OBVIOUS
<1>2. Head(s) = s[1]
  OBVIOUS
<1> HIDE DEF t
<1>3. \A i \in 1 .. n - 1 : Boundary(t[i]) <=> Boundary(s[i + 1])
  BY <1>1
<1>4. ASSUME \A i \in 1 .. n - 1 : ~Boundary(t[i]) PROVE q = r
  <2>1. \A i \in 2 .. n : ~Boundary(s[i])
    <3> SUFFICES ASSUME NEW i \in 2 .. n PROVE ~Boundary(s[i])
      OBVIOUS
    <3>1. i - 1 \in 1 .. n - 1 /\ (i - 1) + 1 = i
      OBVIOUS
    <3> QED
      BY <1>3, <1>4, <3>1
  <2>2. CASE Boundary(s[1])
    <3>1. s[1].type = "created" /\ s[1].response = r
      BY <2>1, <2>2 DEF InResponse
    <3> QED
      BY <1>2, <3>1 DEF After
  <2>3. CASE ~Boundary(s[1])
    <3>1. \A i \in 1 .. n : ~Boundary(s[i])
      BY <2>1, <2>3
    <3>2. p = r
      BY <3>1 DEF InResponse
    <3> QED
      BY <1>2, <2>3, <3>2 DEF After, Boundary
  <2> QED
    BY <2>2, <2>3
<1>5. ASSUME NEW j \in 1 .. n - 1, Boundary(t[j]),
             \A i \in j + 1 .. n - 1 : ~Boundary(t[i])
      PROVE  t[j].type = "created" /\ t[j].response = r
  <2>1. Boundary(s[j + 1]) /\ j + 1 \in 1 .. n
    BY <1>3, <1>5
  <2>2. \A i \in (j + 1) + 1 .. n : ~Boundary(s[i])
    <3> SUFFICES ASSUME NEW i \in (j + 1) + 1 .. n PROVE ~Boundary(s[i])
      OBVIOUS
    <3>1. i - 1 \in j + 1 .. n - 1 /\ i - 1 \in 1 .. n - 1 /\ (i - 1) + 1 = i
      OBVIOUS
    <3> QED
      BY <1>3, <1>5, <3>1
  <2>3. s[j + 1].type = "created" /\ s[j + 1].response = r
    BY <2>1, <2>2 DEF InResponse
  <2> QED
    BY <1>1, <1>5, <2>3
<1> HIDE DEF q
<1>6. InResponse(t, n, q, r)
  BY <1>4, <1>5 DEF InResponse
<1> QED
  BY <1>6 DEF t, q

(* A response that was not heard of is not heard of in what is received. *)
LEMMA ReceivedUnheard ==
    ASSUME NEW s \in Seq(Events), s # <<>>, NEW n \in 1 .. Len(s),
           NEW old, NEW new, NEW heard, NEW r,
           \A i \in 1 .. Len(new) : \/ \E j \in 1 .. Len(old) : new[i] = old[j]
                                    \/ Head(s).type = "audio" /\ new[i] = Head(s).response,
           Unheard(s, n + 1, old, heard, r)
    PROVE  Unheard(Tail(s), n, new, heard, r)
<1> DEFINE t == Tail(s)
<1>1. Len(s) \in Nat /\ \A i \in 1 .. n - 1 : t[i] = s[i + 1] /\ i + 1 \in 1 .. (n + 1) - 1
  OBVIOUS
<1>2. Head(s) = s[1] /\ 1 \in 1 .. (n + 1) - 1
  OBVIOUS
<1> HIDE DEF t
<1>3. \A i \in 1 .. Len(new) : new[i] # r
  BY <1>2 DEF Unheard
<1>4. \A i \in 1 .. n - 1 : t[i].type = "audio" => t[i].response # r
  BY <1>1 DEF Unheard
<1>5. heard[r] = 0
  BY DEF Unheard
<1>6. Unheard(t, n, new, heard, r)
  BY <1>3, <1>4, <1>5 DEF Unheard
<1> QED
  BY <1>6 DEF t

(* An event that is in order when it is sent keeps the channel in order,   *)
(* and says nothing of the responses to come.                              *)
LEMMA SentInOrder ==
    ASSUME TypeOK, ChannelInOrder, ProviderInOrder, NEW e \in Events, Emit(e),
           InOrder(e, toSession, Len(toSession) + 1, inProgress, output.bytes, played, tags),
           e.type = "audio" => e.response = current /\ current # NoResponse,
           made' \in {made, made + 1},
           UNCHANGED <<output, inProgress, played, tags>>
    PROVE  /\ ChannelInOrder'
           /\ \A r \in Responses :
                 r > made' => Unheard(toSession', Len(toSession') + 1, output'.bytes,
                                      played', r)
<1> DEFINE t == Append(toSession, e)
<1>1. toSession \in Seq(Events) /\ Len(toSession) \in Nat /\ toSession' = t
  BY DEF Emit, TypeOK, TypeStates
<1>2. /\ Len(t) = Len(toSession) + 1 /\ t[Len(toSession) + 1] = e
      /\ \A n \in 1 .. Len(toSession) : t[n] = toSession[n] /\ n \in 1 .. Len(toSession) + 1
  BY <1>1
<1>3. \A n \in 1 .. Len(toSession) + 1, r \in Responses :
         /\ InResponse(t, n, inProgress, r) <=> InResponse(toSession, n, inProgress, r)
         /\ Unheard(t, n, output.bytes, played, r)
              <=> Unheard(toSession, n, output.bytes, played, r)
  BY <1>1, SentLater
<1>4. e.type = "created" => e.response \in Responses
  BY DEF Events
<1>5. e.type = "added" => e.item \in Responses
  BY DEF Events
<1>6. e.type = "audio" => e.response \in Responses
  BY DEF Events
<1> HIDE DEF t
<1>7. InOrder(e, t, Len(t), inProgress, output.bytes, played, tags)
  <2>1. Len(toSession) + 1 \in 1 .. Len(toSession) + 1
    BY <1>1
  <2> QED
    BY <1>2, <1>3, <1>4, <1>5, <1>6, <2>1 DEF InOrder
<1>8. ASSUME NEW n \in 1 .. Len(toSession)
      PROVE  InOrder(t[n], t, n, inProgress, output.bytes, played, tags)
  <2>1. InOrder(toSession[n], toSession, n, inProgress, output.bytes, played, tags)
    BY DEF ChannelInOrder
  <2>2. toSession[n] \in Events
    BY <1>1
  <2>3. /\ toSession[n].type = "created" => toSession[n].response \in Responses
        /\ toSession[n].type = "added" => toSession[n].item \in Responses
        /\ toSession[n].type = "audio" => toSession[n].response \in Responses
    BY <2>2 DEF Events
  <2> QED
    BY <1>2, <1>3, <2>1, <2>3 DEF InOrder
<1>9. \A n \in 1 .. Len(t) : n \in 1 .. Len(toSession) \/ n = Len(t)
  BY <1>1, <1>2
<1>10. \A n \in 1 .. Len(t) :
          InOrder(t[n], t, n, inProgress, output.bytes, played, tags)
  BY <1>2, <1>7, <1>8, <1>9
<1>11. ChannelInOrder'
  BY <1>1, <1>10 DEF ChannelInOrder
<1>12. ASSUME NEW r \in Responses, r > made'
       PROVE  Unheard(t, Len(t) + 1, output.bytes, played, r)
  <2>1. r > made /\ r # current
    BY <1>12 DEF ProviderInOrder, TypeOK, TypeStates, Responses
  <2>2. Unheard(toSession, Len(toSession) + 1, output.bytes, played, r)
    BY <2>1 DEF ProviderInOrder
  <2> QED
    BY <1>1, <1>2, <2>1, <2>2, SentLast DEF t
<1> QED
  BY <1>1, <1>11, <1>12

(* Receiving the first event keeps the rest in order. *)
LEMMA ReceivedInOrder ==
    ASSUME TypeOK, ChannelInOrder, ProviderInOrder,
           toSession # <<>>, toSession' = Tail(toSession),
           inProgress' = After(inProgress, Head(toSession)),
           UNCHANGED <<tags, current, made, sent, played>>,
           \A i \in 1 .. Len(output'.bytes) :
              \/ \E j \in 1 .. Len(output.bytes) : output'.bytes[i] = output.bytes[j]
              \/ /\ Head(toSession).type = "audio"
                 /\ output'.bytes[i] = Head(toSession).response
    PROVE  ChannelInOrder' /\ ProviderInOrder'
<1> DEFINE t == Tail(toSession)
           q == After(inProgress, Head(toSession))
           new == output'.bytes
<1>1. /\ toSession \in Seq(Events) /\ Len(toSession) \in Nat /\ Len(t) \in Nat
      /\ Len(toSession) = Len(t) + 1
      /\ \A n \in 1 .. Len(t) : t[n] = toSession[n + 1] /\ n + 1 \in 1 .. Len(toSession)
  BY DEF TypeOK, TypeStates
<1>2. ASSUME NEW n \in 1 .. Len(t) + 1, NEW r \in Responses
      PROVE  /\ InResponse(toSession, n + 1, inProgress, r) => InResponse(t, n, q, r)
             /\ Unheard(toSession, n + 1, output.bytes, played, r)
                  => Unheard(t, n, new, played, r)
  <2>1. n \in 1 .. Len(toSession)
    BY <1>1
  <2> QED
    BY <1>1, <2>1, ReceivedFirst, ReceivedUnheard
<1> HIDE DEF t, q, new
<1>3. ASSUME NEW n \in 1 .. Len(t)
      PROVE  InOrder(t[n], t, n, q, new, played, tags)
  <2>1. InOrder(toSession[n + 1], toSession, n + 1, inProgress, output.bytes, played, tags)
    BY <1>1 DEF ChannelInOrder
  <2>2. t[n] \in Events /\ t[n] = toSession[n + 1]
    BY <1>1
  <2>3. /\ t[n].type = "created" => t[n].response \in Responses
        /\ t[n].type = "added" => t[n].item \in Responses
        /\ t[n].type = "audio" => t[n].response \in Responses
    BY <2>2 DEF Events
  <2>4. n \in 1 .. Len(t) + 1
    BY <1>1
  <2> QED
    BY <1>2, <2>1, <2>2, <2>3, <2>4 DEF InOrder
<1>4. ChannelInOrder'
  <2>1. toSession' = t /\ inProgress' = q /\ output'.bytes = new
    BY DEF t, q, new
  <2> QED
    BY <1>3, <2>1 DEF ChannelInOrder
<1>5. ProviderInOrder'
  <2>1. toSession' = t /\ inProgress' = q /\ output'.bytes = new
    BY DEF t, q, new
  <2>2. Len(t) + 1 \in 1 .. Len(t) + 1 /\ (Len(t) + 1) + 1 = Len(toSession) + 1
    BY <1>1
  <2>3. current # NoResponse => current \in Responses
    BY DEF TypeOK, TypeStates
  <2>4. current # NoResponse =>
          /\ InResponse(t, Len(t) + 1, q, current)
          /\ sent = 0 => Unheard(t, Len(t) + 1, new, played, current)
    BY <1>1, <1>2, <2>2, <2>3 DEF ProviderInOrder
  <2>5. \A r \in Responses : r > made => Unheard(t, Len(t) + 1, new, played, r)
    BY <1>1, <1>2, <2>2 DEF ProviderInOrder
  <2>6. current <= made
    BY DEF ProviderInOrder
  <2> QED
    BY <2>1, <2>4, <2>5, <2>6 DEF ProviderInOrder
<1> QED
  BY <1>4, <1>5

(* The provider starts a response nobody heard of. *)
LEMMA StartInOrder ==
    ASSUME OrderInv, StartResponse, UNCHANGED <<output, inProgress, played, tags>>
    PROVE  ChannelInOrder' /\ ProviderInOrder'
<1> DEFINE e == [type |-> "created", response |-> made + 1]
<1> USE DEF OrderInv
<1>1. made + 1 \in Responses /\ made + 1 > made
  BY Constants DEF Responses, StartResponse, TypeOK, TypeStates
<1>2. /\ e \in Events /\ e.type = "created" /\ e.response = made + 1
      /\ made + 1 \in Responses /\ made + 1 > made
  BY <1>1 DEF Events
<1>3. Emit(e) /\ current' = made + 1 /\ made' = made + 1
  BY DEF StartResponse
<1> HIDE DEF e
<1>4. Unheard(toSession, Len(toSession) + 1, output.bytes, played, made + 1)
  BY <1>2 DEF ProviderInOrder
<1>5. InOrder(e, toSession, Len(toSession) + 1, inProgress, output.bytes, played, tags)
  BY <1>2, <1>4 DEF InOrder
<1>6. /\ ChannelInOrder'
      /\ \A r \in Responses :
            r > made' => Unheard(toSession', Len(toSession') + 1, output'.bytes, played', r)
  BY <1>2, <1>3, <1>5, SentInOrder
<1>7. toSession \in Seq(Events) /\ toSession' = Append(toSession, e)
  BY <1>3 DEF Emit, TypeOK, TypeStates
<1>8. Len(toSession') = Len(toSession) + 1
  BY <1>7
<1>9. InResponse(toSession', Len(toSession') + 1, inProgress', current')
  BY <1>2, <1>3, <1>7, <1>8, SentLast
<1>10. Unheard(toSession', Len(toSession') + 1, output'.bytes, played', current')
  BY <1>2, <1>3, <1>4, <1>7, <1>8, SentLast
<1>11. current' <= made'
  BY <1>2, <1>3 DEF Responses
<1> QED
  BY <1>6, <1>9, <1>10, <1>11 DEF ProviderInOrder

(* An event about no response in particular. *)
LEMMA OtherInOrder ==
    ASSUME OrderInv, NEW e \in Events, Emit(e),
           e.type \in {"audio_done", "speech_started", "error"},
           UNCHANGED <<output, inProgress, played, tags, current, made>>,
           sent' = sent \/ sent' # 0
    PROVE  ChannelInOrder' /\ ProviderInOrder'
<1> USE DEF OrderInv
<1>1. e.type \notin {"created", "added", "audio", "done"}
  OBVIOUS
<1>2. InOrder(e, toSession, Len(toSession) + 1, inProgress, output.bytes, played, tags)
  BY <1>1 DEF InOrder
<1>3. /\ ChannelInOrder'
      /\ \A r \in Responses :
            r > made' => Unheard(toSession', Len(toSession') + 1, output'.bytes, played', r)
  BY <1>1, <1>2, SentInOrder
<1>4. toSession \in Seq(Events) /\ toSession' = Append(toSession, e)
  BY DEF Emit, TypeOK, TypeStates
<1>5. Len(toSession') = Len(toSession) + 1 /\ ~Boundary(e)
  BY <1>1, <1>4 DEF Boundary
<1>6. current # NoResponse =>
        InResponse(toSession', Len(toSession') + 1, inProgress', current')
  BY <1>4, <1>5, SentLast DEF ProviderInOrder
<1>7. current # NoResponse /\ sent' = 0 =>
        Unheard(toSession', Len(toSession') + 1, output'.bytes, played', current')
  BY <1>1, <1>4, <1>5, SentLast DEF ProviderInOrder
<1> QED
  BY <1>3, <1>6, <1>7 DEF ProviderInOrder

(* The provider ends its response. *)
LEMMA EndInOrder ==
    ASSUME OrderInv, EndResponse, UNCHANGED <<output, inProgress, played, tags, made>>
    PROVE  ChannelInOrder' /\ ProviderInOrder'
<1> DEFINE e == [type |-> "done"]
<1> USE DEF OrderInv
<1>1. e \in Events /\ e.type \notin {"created", "added", "audio"}
  BY DEF Events
<1>2. Emit(e) /\ current' = NoResponse
  BY DEF EndResponse
<1> HIDE DEF e
<1>3. InOrder(e, toSession, Len(toSession) + 1, inProgress, output.bytes, played, tags)
  BY <1>1 DEF InOrder
<1>4. /\ ChannelInOrder'
      /\ \A r \in Responses :
            r > made' => Unheard(toSession', Len(toSession') + 1, output'.bytes, played', r)
  BY <1>1, <1>2, <1>3, SentInOrder
<1>5. current' <= made'
  BY <1>2, Constants DEF TypeOK, TypeStates, NoResponse
<1> QED
  BY <1>2, <1>4, <1>5 DEF ProviderInOrder

(* What a step that leaves the item alone keeps of ItemFollows. *)
LEMMA ItemStays ==
    ASSUME ItemFollows, UNCHANGED <<responseItem, inProgress, tags>>,
           output'.item = output.item,
           \A r : r = inProgress /\ Unheard(toSession, 1, output.bytes, played, r)
                    => Unheard(toSession', 1, output'.bytes, played', r)
    PROVE  ItemFollows'
  BY DEF ItemFollows

(* Nothing is under way before the first event. *)
LEMMA UnheardFirst ==
    ASSUME NEW s, NEW t, NEW old, NEW new, NEW heard, NEW r,
           \A i \in 1 .. Len(new) : \E j \in 1 .. Len(old) : new[i] = old[j],
           Unheard(s, 1, old, heard, r)
    PROVE  Unheard(t, 1, new, heard, r)
<1>1. 1 .. 1 - 1 = {}
  OBVIOUS
<1>2. heard[r] = 0 /\ \A i \in 1 .. Len(new) : new[i] # r
  BY DEF Unheard
<1> QED
  BY <1>1, <1>2 DEF Unheard

(* The events and the item that a step of the provider leaves in order. *)
LEMMA ProviderStep ==
    ASSUME OrderInv,
           \/ ProviderStarts \/ ProviderNamesItem \/ ProviderStreams
           \/ ProviderFinishesAudio \/ ProviderEnds \/ ProviderHearsCaller
           \/ ProviderReceives
    PROVE  ChannelInOrder' /\ ProviderInOrder' /\ ItemFollows'
<1> DEFINE n == Len(toSession) + 1
<1> USE DEF OrderInv
<1>1. UNCHANGED <<output, inProgress, played, tags, responseItem>>
  BY DEF ProviderStarts, ProviderNamesItem, ProviderStreams, ProviderFinishesAudio,
         ProviderEnds, ProviderHearsCaller, ProviderReceives, mapper, history
<1>2. ItemFollows'
  <2>1. \A r : r = inProgress /\ Unheard(toSession, 1, output.bytes, played, r)
                 => Unheard(toSession', 1, output'.bytes, played', r)
    BY <1>1, UnheardFirst
  <2> QED
    BY <1>1, <2>1, ItemStays
<1>3. CASE ProviderStarts
  BY <1>1, <1>2, <1>3, StartInOrder DEF ProviderStarts
<1>4. CASE ProviderNamesItem
  <2> DEFINE e == [type |-> "added", item |-> current]
  <2>1. current \in Responses /\ sent = 0 /\ Emit(e) /\ UNCHANGED <<current, made, sent>>
    BY <1>4 DEF ProviderNamesItem, TypeOK, TypeStates
  <2>2. e \in Events /\ e.type = "added" /\ e.item = current
    BY <2>1 DEF Events
  <2> HIDE DEF e
  <2>3. /\ InResponse(toSession, n, inProgress, current)
        /\ Unheard(toSession, n, output.bytes, played, current)
        /\ current # NoResponse
    BY <1>4, <2>1 DEF ProviderInOrder, ProviderNamesItem
  <2>4. InOrder(e, toSession, n, inProgress, output.bytes, played, tags)
    BY <2>2, <2>3 DEF InOrder
  <2>5. /\ ChannelInOrder'
        /\ \A r \in Responses :
              r > made' => Unheard(toSession', Len(toSession') + 1, output'.bytes,
                                   played', r)
    BY <1>1, <2>1, <2>2, <2>4, SentInOrder
  <2>6. toSession \in Seq(Events) /\ toSession' = Append(toSession, e)
    BY <2>1 DEF Emit, TypeOK, TypeStates
  <2>7. Len(toSession') = n /\ ~Boundary(e)
    BY <2>2, <2>6 DEF Boundary
  <2>8. InResponse(toSession', Len(toSession') + 1, inProgress', current')
    BY <1>1, <2>1, <2>2, <2>3, <2>6, <2>7, SentLast
  <2>9. Unheard(toSession', Len(toSession') + 1, output'.bytes, played', current')
    BY <1>1, <2>1, <2>2, <2>3, <2>6, <2>7, SentLast
  <2>10. current' <= made'
    BY <2>1 DEF ProviderInOrder
  <2> QED
    BY <1>2, <2>5, <2>8, <2>9, <2>10 DEF ProviderInOrder
<1>5. CASE ProviderStreams
  <2>1. PICK units \in 1 .. MaxDelta :
          /\ Emit([type |-> "audio", response |-> current, units |-> units,
                   item |-> IF tags THEN current ELSE NoItem])
          /\ sent' = sent + units
    BY <1>5 DEF ProviderStreams
  <2> DEFINE e == [type |-> "audio", response |-> current, units |-> units,
                   item |-> IF tags THEN current ELSE NoItem]
  <2>2. /\ current \in Responses /\ current # NoResponse
        /\ Emit(e) /\ UNCHANGED <<current, made>>
    BY <1>5, <2>1 DEF ProviderStreams, TypeOK, TypeStates
  <2>3. /\ e \in Events /\ e.type = "audio" /\ e.response = current
        /\ e.item = IF tags THEN e.response ELSE NoItem
    BY <2>2, Constants DEF Events
  <2>4. sent' # 0
    BY <2>1, Constants DEF TypeOK, TypeStates, AudioFinished
  <2> HIDE DEF e
  <2>5. InResponse(toSession, n, inProgress, current)
    BY <2>2 DEF ProviderInOrder
  <2>6. InOrder(e, toSession, n, inProgress, output.bytes, played, tags)
    BY <2>3, <2>5 DEF InOrder
  <2>7. /\ ChannelInOrder'
        /\ \A r \in Responses :
              r > made' => Unheard(toSession', Len(toSession') + 1, output'.bytes,
                                   played', r)
    BY <1>1, <2>2, <2>3, <2>6, SentInOrder
  <2>8. toSession \in Seq(Events) /\ toSession' = Append(toSession, e)
    BY <2>2 DEF Emit, TypeOK, TypeStates
  <2>9. Len(toSession') = n /\ ~Boundary(e)
    BY <2>3, <2>8 DEF Boundary
  <2>10. InResponse(toSession', Len(toSession') + 1, inProgress', current')
    BY <1>1, <2>2, <2>3, <2>5, <2>8, <2>9, SentLast
  <2>11. current' <= made'
    BY <2>2 DEF ProviderInOrder
  <2> QED
    BY <1>2, <2>4, <2>7, <2>10, <2>11 DEF ProviderInOrder
<1>6. CASE ProviderFinishesAudio
  <2>1. [type |-> "audio_done"] \in Events
    BY DEF Events
  <2>2. sent' # 0
    BY <1>6, Constants DEF ProviderFinishesAudio, AudioFinished
  <2> QED
    BY <1>1, <1>2, <1>6, <2>1, <2>2, OtherInOrder DEF ProviderFinishesAudio
<1>7. CASE ProviderEnds
  BY <1>1, <1>2, <1>7, EndInOrder DEF ProviderEnds
<1>8. CASE ProviderHearsCaller
  <2>1. [type |-> "speech_started"] \in Events
    BY DEF Events
  <2> QED
    BY <1>1, <1>2, <1>8, <2>1, OtherInOrder DEF ProviderHearsCaller
<1>9. CASE ProviderReceives
  <2>1. CASE EndResponse /\ UNCHANGED <<made, sent, named>>
    BY <1>1, <1>2, <2>1, EndInOrder
  <2>2. CASE StartResponse
    BY <1>1, <1>2, <2>2, StartInOrder
  <2>3. CASE Emit([type |-> "error"]) /\ UNCHANGED <<current, made, sent, named>>
    <3>1. [type |-> "error"] \in Events
      BY DEF Events
    <3> QED
      BY <1>1, <1>2, <2>3, <3>1, OtherInOrder
  <2>4. CASE UNCHANGED <<toSession, current, made, sent, named>>
    BY <1>1, <1>2, <2>4 DEF ChannelInOrder, ProviderInOrder
  <2> QED
    BY <1>9, <2>1, <2>2, <2>3, <2>4 DEF ProviderReceives
<1> QED
  BY <1>3, <1>4, <1>5, <1>6, <1>7, <1>8, <1>9

(* The queue after a delta. *)
LEMMA DeltaQueued ==
    ASSUME NEW out \in QueuedAudio, NEW item \in Responses \cup {NoItem},
           NEW audio \in Seq(Responses)
    PROVE  LET all == out.bytes \o audio
               dropped == Overflow(Len(all))
               new == DiscardOverflow(Push(out, item, audio))
           IN  /\ all \in Seq(Responses) /\ dropped \in 0 .. Len(all)
               /\ Len(all) = Len(out.bytes) + Len(audio)
               /\ new.bytes = SubSeq(all, dropped + 1, Len(all))
               /\ new.item = item
               /\ new.generated = (IF item # out.item THEN 0 ELSE out.generated) + Len(audio)
               /\ new.flushed = (IF item # out.item THEN 0 ELSE out.flushed) + dropped
<1> DEFINE all == out.bytes \o audio
           dropped == Overflow(Len(all))
           g == (IF item # out.item THEN 0 ELSE out.generated) + Len(audio)
           f == IF item # out.item THEN 0 ELSE out.flushed
           b == SubSeq(all, dropped + 1, Len(all))
           pushed == Push(out, item, audio)
<1>1. /\ all \in Seq(Responses) /\ Len(all) \in Nat
      /\ Len(all) = Len(out.bytes) + Len(audio)
  BY DEF QueuedAudio
<1>2. dropped \in 0 .. Len(all)
  BY <1>1, OverflowDrops
<1>3. /\ pushed.bytes = all /\ pushed.item = item
      /\ pushed.generated = g /\ pushed.flushed = f
  BY DEF Push
<1>4. pushed \in QueuedAudio
  BY PushTyped
<1> HIDE DEF pushed, all
<1>5. DiscardOverflow(pushed) = [pushed EXCEPT !.bytes = b, !.flushed = f + dropped]
  BY <1>3 DEF DiscardOverflow
<1> HIDE DEF dropped, g, f, b
<1>6. /\ DiscardOverflow(pushed).bytes = b /\ DiscardOverflow(pushed).item = item
      /\ DiscardOverflow(pushed).generated = g
      /\ DiscardOverflow(pushed).flushed = f + dropped
  BY <1>3, <1>4, <1>5 DEF QueuedAudio
<1> QED
  BY <1>1, <1>2, <1>6 DEF all, dropped, g, f, b, pushed

\* What a delta brings when the events are in order.
Delta(event, item, audio) ==
    /\ event \in Events /\ event.type = "audio"
    /\ event.response = inProgress /\ inProgress \in Responses
    /\ item \in {NoItem, inProgress}
    /\ item = IF tags THEN inProgress ELSE responseItem
    /\ audio \in Seq(Responses) /\ \A i \in 1 .. Len(audio) : audio[i] = inProgress
    /\ output' = DiscardOverflow(Push(output, item, audio))
    /\ mixed' = IF item # output.item THEN output.bytes # <<>> ELSE mixed

(* A delta belongs to the response in progress, and so does its item. *)
LEMMA DeltaReceived ==
    ASSUME OrderInv, OnAudioDelta
    PROVE  LET event == Head(toSession) IN
           Delta(event, ItemOf(event), [i \in 1 .. event.units |-> event.response])
<1> DEFINE event == Head(toSession)
           audio == [i \in 1 .. event.units |-> event.response]
<1> USE DEF OrderInv
<1>1. /\ toSession \in Seq(Events) /\ toSession # <<>> /\ event.type = "audio"
      /\ event = toSession[1] /\ 1 \in 1 .. Len(toSession)
  BY DEF OnAudioDelta, Receive, TypeOK, TypeStates
<1>2. event \in Events
  BY <1>1, EventReceived
<1>3. event.response \in Responses /\ event.units \in Nat
  BY <1>1, <1>2 DEF Events
<1>4. InOrder(event, toSession, 1, inProgress, output.bytes, played, tags)
  BY <1>1 DEF ChannelInOrder
<1>5. InResponse(toSession, 1, inProgress, event.response)
  BY <1>1, <1>4 DEF InOrder
<1>6. event.response = inProgress
  <2>1. 1 .. 1 - 1 = {}
    OBVIOUS
  <2> QED
    BY <1>5, <2>1 DEF InResponse
<1>7. event.item = IF tags THEN event.response ELSE NoItem
  BY <1>1, <1>4 DEF InOrder
<1>8. ItemOf(event) = IF tags THEN inProgress ELSE responseItem
  <2>1. event.response # NoItem
    BY <1>3 DEF Responses, NoItem
  <2> QED
    BY <1>6, <1>7, <2>1 DEF ItemOf
<1>9. ItemOf(event) \in {NoItem, inProgress}
  BY <1>8 DEF ItemFollows
<1>10. audio \in Seq(Responses) /\ \A i \in 1 .. Len(audio) : audio[i] = inProgress
  <2>1. audio \in Seq(Responses)
    BY <1>3, AudioTyped
  <2>2. Len(audio) = event.units
    BY <1>3, <2>1
  <2> QED
    BY <1>6, <2>1, <2>2
<1>11. /\ output' = DiscardOverflow(Push(output, ItemOf(event), audio))
       /\ mixed' = IF ItemOf(event) # output.item THEN output.bytes # <<>> ELSE mixed
  BY DEF OnAudioDelta
<1> HIDE DEF event, audio
<1>12. Delta(event, ItemOf(event), audio)
  BY <1>1, <1>2, <1>3, <1>6, <1>8, <1>9, <1>10, <1>11 DEF Delta
<1> QED
  BY <1>12 DEF event, audio

(* The frame of a tick and the rest make up the queue. *)
LEMMA TickSplits ==
    ASSUME TypeOK, Tick
    PROVE  LET n == Len(NextFrame(output)) IN
           /\ n \in 0 .. Len(output.bytes)
           /\ NextFrame(output) = SubSeq(output.bytes, 1, n)
           /\ output' = [output EXCEPT
                           !.bytes = SubSeq(output.bytes, n + 1, Len(output.bytes))]
           /\ played' = [r \in Responses |->
                           played[r] + UnitsOf(r, SubSeq(output.bytes, 1, n))]
<1> DEFINE frame == NextFrame(output)
           limit == AtMost(FrameUnits, Len(output.bytes))
<1>1. output \in QueuedAudio /\ output.bytes \in Seq(Responses) /\ Len(output.bytes) \in Nat
  BY DEF TypeOK, QueuedAudio
<1>2. Len(frame) \in 0 .. Len(output.bytes)
  BY <1>1, FrameTyped
<1>3. frame # <<>>
  BY DEF Tick
<1>4. limit \in 0 .. Len(output.bytes)
  BY <1>1, Constants DEF AtMost
<1>5. frame = SubSeq(output.bytes, 1, limit)
  BY <1>3 DEF NextFrame
<1> HIDE DEF limit
<1>6. Len(frame) = limit
  BY <1>1, <1>4, <1>5
<1>7. /\ output' = [output EXCEPT
                      !.bytes = SubSeq(output.bytes, Len(frame) + 1, Len(output.bytes))]
      /\ played' = [r \in Responses |-> played[r] + UnitsOf(r, frame)]
  BY DEF Tick
<1> HIDE DEF frame
<1>8. frame = SubSeq(output.bytes, 1, Len(frame))
  BY <1>5, <1>6
<1>9. played' = [r \in Responses |-> played[r] + UnitsOf(r, SubSeq(output.bytes, 1, Len(frame)))]
  BY <1>7, <1>8
<1> QED
  BY <1>2, <1>7, <1>8, <1>9 DEF frame

(* The two parts of a sequence. *)
LEMMA Parts ==
    ASSUME NEW s \in Seq(Responses), NEW k \in 0 .. Len(s)
    PROVE  LET front == SubSeq(s, 1, k)
               rest == SubSeq(s, k + 1, Len(s))
           IN  /\ front \in Seq(Responses) /\ Len(front) = k
               /\ \A i \in 1 .. Len(front) : front[i] = s[i] /\ i \in 1 .. Len(s)
               /\ rest \in Seq(Responses) /\ Len(rest) = Len(s) - k
               /\ \A i \in 1 .. Len(rest) : rest[i] = s[i + k] /\ i + k \in 1 .. Len(s)
  OBVIOUS

(* Playing audio says nothing of a response that was not heard of. *)
LEMMA TickUnheard ==
    ASSUME TypeOK, Tick, NEW n, NEW r \in Responses,
           Unheard(toSession, n, output.bytes, played, r)
    PROVE  Unheard(toSession, n, output'.bytes, played', r)
<1> DEFINE k == Len(NextFrame(output))
           front == SubSeq(output.bytes, 1, k)
           rest == SubSeq(output.bytes, k + 1, Len(output.bytes))
<1>1. output \in QueuedAudio /\ output.bytes \in Seq(Responses) /\ Len(output.bytes) \in Nat
  BY DEF TypeOK, QueuedAudio
<1>2. /\ k \in 0 .. Len(output.bytes)
      /\ output' = [output EXCEPT !.bytes = rest]
      /\ played' = [x \in Responses |-> played[x] + UnitsOf(x, front)]
  BY TickSplits
<1> HIDE DEF k
<1>3. /\ front \in Seq(Responses) /\ Len(front) = k
      /\ \A i \in 1 .. Len(front) : front[i] = output.bytes[i] /\ i \in 1 .. Len(output.bytes)
      /\ rest \in Seq(Responses) /\ Len(rest) = Len(output.bytes) - k
      /\ \A i \in 1 .. Len(rest) : rest[i] = output.bytes[i + k]
                                     /\ i + k \in 1 .. Len(output.bytes)
  BY <1>1, <1>2, Parts
<1>4. output'.bytes = rest
  BY <1>1, <1>2 DEF QueuedAudio
<1> HIDE DEF front, rest
<1>5. \A i \in 1 .. Len(front) : front[i] # r
  BY <1>3 DEF Unheard
<1>6. UnitsOf(r, front) = 0
  BY <1>3, <1>5, UnitsOfNone
<1>7. played'[r] = 0
  BY <1>2, <1>6 DEF Unheard
<1>8. \A i \in 1 .. Len(rest) : rest[i] # r
  BY <1>3 DEF Unheard
<1> QED
  BY <1>4, <1>7, <1>8 DEF Unheard

(* The events and the item that a step of the session leaves in order. *)
LEMMA SessionStep ==
    ASSUME OrderInv, TypeOK',
           \/ OnCreated \/ OnItemAdded \/ OnAudioDelta \/ OnSpeechStarted \/ OnAudioDone
           \/ OnDone \/ OnError \/ OnSpeak \/ Tick \/ Close \/ Fail
    PROVE  ChannelInOrder' /\ ProviderInOrder' /\ ItemFollows'
<1> DEFINE event == Head(toSession)
<1> USE DEF OrderInv
<1>1. ASSUME NEW type, Receive(type)
      PROVE  /\ toSession \in Seq(Events) /\ toSession # <<>>
             /\ toSession' = Tail(toSession)
             /\ event \in Events /\ event.type = type /\ event = toSession[1]
             /\ InOrder(event, toSession, 1, inProgress, output.bytes, played, tags)
  <2>1. /\ toSession \in Seq(Events) /\ toSession # <<>> /\ toSession' = Tail(toSession)
        /\ event.type = type
    BY <1>1 DEF Receive, TypeOK, TypeStates
  <2>2. event = toSession[1] /\ 1 \in 1 .. Len(toSession)
    BY <2>1
  <2>3. event \in Events
    BY <2>1, EventReceived
  <2> QED
    BY <2>1, <2>2, <2>3 DEF ChannelInOrder
<1>2. output.bytes \in Seq(Responses) /\ Len(output.bytes) \in Nat /\ output \in QueuedAudio
  BY DEF TypeOK, QueuedAudio
<1>3. ASSUME UNCHANGED <<inProgress, played, tags, current, made, sent, responseItem>>,
             output'.item = output.item,
             output'.bytes = output.bytes \/ output'.bytes = <<>>,
             Receive("speech_started") \/ Receive("audio_done") \/ Receive("error")
      PROVE  ChannelInOrder' /\ ProviderInOrder' /\ ItemFollows'
  <2>1. toSession # <<>> /\ toSession' = Tail(toSession)
    BY <1>1, <1>3
  <2>2. inProgress' = After(inProgress, event)
    BY <1>1, <1>3 DEF After
  <2>3. \A i \in 1 .. Len(output'.bytes) :
           \E j \in 1 .. Len(output.bytes) : output'.bytes[i] = output.bytes[j]
    <3>1. Len(<<>>) = 0 /\ 1 .. 0 = {}
      OBVIOUS
    <3> QED
      BY <1>3, <3>1
  <2>4. \A r : r = inProgress /\ Unheard(toSession, 1, output.bytes, played, r)
                 => Unheard(toSession', 1, output'.bytes, played', r)
    BY <1>3, <2>3, UnheardFirst
  <2>5. ItemFollows'
    BY <1>3, <2>4, ItemStays
  <2>6. ChannelInOrder' /\ ProviderInOrder'
    BY <1>3, <2>1, <2>2, <2>3, ReceivedInOrder
  <2> QED
    BY <2>5, <2>6
<1> HIDE DEF event
<1>4. CASE OnCreated
  <2>1. /\ Receive("created") /\ responseItem' = NoItem /\ inProgress' = event.response
        /\ UNCHANGED <<output, tags, current, made, sent, played>>
    BY <1>4 DEF OnCreated, provider, event
  <2>2. event.type = "created" /\ toSession # <<>> /\ toSession' = Tail(toSession)
    BY <1>1, <2>1
  <2>3. Unheard(toSession, 1, output.bytes, played, event.response)
    BY <1>1, <2>1, <2>2 DEF InOrder
  <2>4. ItemFollows'
    <3>1. Unheard(toSession', 1, output.bytes, played, event.response)
      BY <2>3, UnheardFirst
    <3> QED
      BY <2>1, <3>1 DEF ItemFollows
  <2>5. inProgress' = After(inProgress, event)
    BY <2>1, <2>2 DEF After
  <2>6. ChannelInOrder' /\ ProviderInOrder'
    BY <2>1, <2>2, <2>5, ReceivedInOrder DEF event
  <2> QED
    BY <2>4, <2>6
<1>5. CASE OnItemAdded
  <2>1. /\ Receive("added") /\ responseItem' = event.item
        /\ UNCHANGED <<output, tags, current, made, sent, played, inProgress>>
    BY <1>5 DEF OnItemAdded, provider, history, event
  <2>2. event.type = "added" /\ toSession # <<>> /\ toSession' = Tail(toSession)
    BY <1>1, <2>1
  <2>3. /\ InResponse(toSession, 1, inProgress, event.item)
        /\ Unheard(toSession, 1, output.bytes, played, event.item)
    BY <1>1, <2>1, <2>2 DEF InOrder
  <2>4. event.item = inProgress
    <3>1. 1 .. 1 - 1 = {}
      OBVIOUS
    <3> QED
      BY <2>3, <3>1 DEF InResponse
  <2>5. ItemFollows'
    <3>1. Unheard(toSession', 1, output.bytes, played, inProgress)
      BY <2>3, <2>4, UnheardFirst
    <3> QED
      BY <2>1, <2>4, <3>1 DEF ItemFollows
  <2>6. inProgress' = After(inProgress, event)
    BY <2>1, <2>2 DEF After
  <2>7. ChannelInOrder' /\ ProviderInOrder'
    BY <2>1, <2>2, <2>6, ReceivedInOrder DEF event
  <2> QED
    BY <2>5, <2>7
<1>6. CASE OnAudioDelta
  <2> DEFINE audio == [i \in 1 .. event.units |-> event.response]
             item == ItemOf(event)
             all == output.bytes \o audio
             dropped == Overflow(Len(all))
  <2>1. Receive("audio") /\ UNCHANGED <<tags, current, made, sent, played, inProgress,
                                        responseItem>>
    BY <1>6 DEF OnAudioDelta, provider
  <2>2. event.type = "audio" /\ toSession # <<>> /\ toSession' = Tail(toSession)
    BY <1>1, <2>1
  <2>3. Delta(event, item, audio)
    BY <1>6, DeltaReceived DEF event
  <2> HIDE DEF audio, item
  <2>4. /\ all \in Seq(Responses) /\ dropped \in 0 .. Len(all)
        /\ Len(all) = Len(output.bytes) + Len(audio)
        /\ output'.bytes = SubSeq(all, dropped + 1, Len(all))
        /\ output'.item = item
    <3>1. item \in Responses \cup {NoItem} /\ audio \in Seq(Responses)
      BY <2>3 DEF Delta
    <3> QED
      BY <1>2, <2>3, <3>1, DeltaQueued DEF Delta
  <2>5. \A i \in 1 .. Len(all) :
           \/ \E j \in 1 .. Len(output.bytes) : all[i] = output.bytes[j]
           \/ all[i] = event.response
    <3>1. /\ audio \in Seq(Responses) /\ Len(audio) \in Nat
          /\ \A i \in 1 .. Len(audio) : audio[i] = event.response
      BY <2>3 DEF Delta
    <3> SUFFICES ASSUME NEW i \in 1 .. Len(all)
                 PROVE  \/ \E j \in 1 .. Len(output.bytes) : all[i] = output.bytes[j]
                        \/ all[i] = event.response
      OBVIOUS
    <3>2. CASE i <= Len(output.bytes)
      BY <1>2, <3>1, <3>2
    <3>3. CASE i > Len(output.bytes)
      <4>1. i - Len(output.bytes) \in 1 .. Len(audio)
              /\ all[i] = audio[i - Len(output.bytes)]
        BY <1>2, <2>4, <3>1, <3>3
      <4> QED
        BY <3>1, <4>1
    <3> QED
      BY <1>2, <3>2, <3>3
  <2> HIDE DEF all, dropped
  <2>6. \A i \in 1 .. Len(output'.bytes) :
           \/ \E j \in 1 .. Len(output.bytes) : output'.bytes[i] = output.bytes[j]
           \/ event.type = "audio" /\ output'.bytes[i] = event.response
    <3>1. \A i \in 1 .. Len(output'.bytes) :
             output'.bytes[i] = all[i + dropped] /\ i + dropped \in 1 .. Len(all)
      BY <2>4, Parts
    <3> QED
      BY <2>2, <2>5, <3>1
  <2>7. inProgress' = After(inProgress, event)
    BY <2>1, <2>2 DEF After
  <2>8. ChannelInOrder' /\ ProviderInOrder'
    BY <2>1, <2>2, <2>6, <2>7, ReceivedInOrder DEF event
  <2>9. ItemFollows'
    BY <2>1, <2>3, <2>4 DEF ItemFollows, Delta
  <2> QED
    BY <2>8, <2>9
<1>7. CASE OnSpeechStarted
  <2>1. output'.bytes = <<>> /\ output'.item = output.item
    BY <1>2, <1>7 DEF OnSpeechStarted, QueuedAudio
  <2> QED
    BY <1>3, <1>7, <2>1 DEF OnSpeechStarted, provider
<1>8. CASE OnAudioDone
  <2>1. output'.bytes = output.bytes /\ output'.item = output.item
    BY <1>2, <1>8 DEF OnAudioDone, QueuedAudio
  <2> QED
    BY <1>3, <1>8, <2>1 DEF OnAudioDone, provider, mapper, history
<1>9. CASE OnDone
  <2>1. /\ Receive("done") /\ responseItem' = NoItem /\ inProgress' = NoResponse
        /\ UNCHANGED <<tags, current, made, sent, played>>
    BY <1>9 DEF OnDone, provider
  <2>2. event.type = "done" /\ toSession # <<>> /\ toSession' = Tail(toSession)
    BY <1>1, <2>1
  <2>3. output'.bytes = output.bytes
    BY <1>2, <1>9 DEF OnDone, QueuedAudio
  <2>4. inProgress' = After(inProgress, event)
    BY <2>1, <2>2 DEF After
  <2>5. ChannelInOrder' /\ ProviderInOrder'
    BY <2>1, <2>2, <2>3, <2>4, ReceivedInOrder DEF event
  <2>6. ItemFollows'
    BY <2>1 DEF ItemFollows
  <2> QED
    BY <2>5, <2>6
<1>10. CASE OnError
  BY <1>3, <1>10 DEF OnError, provider, mapper, history
<1>11. CASE OnSpeak \/ Close \/ Fail
  <2>1. UNCHANGED <<toSession, output, inProgress, played, tags, current, made, sent,
                    responseItem>>
    BY <1>11 DEF OnSpeak, Close, Fail, mapper, provider, history
  <2> QED
    BY <2>1 DEF ChannelInOrder, ProviderInOrder, ItemFollows
<1>12. CASE Tick
  <2>1. UNCHANGED <<toSession, inProgress, tags, current, made, sent, responseItem>>
    BY <1>12 DEF Tick, mapper, provider
  <2>2. \A n, r : r \in Responses /\ Unheard(toSession, n, output.bytes, played, r)
                    => Unheard(toSession, n, output'.bytes, played', r)
    BY <1>12, TickUnheard
  <2>3. output'.item = output.item
    BY <1>2, <1>12 DEF Tick, QueuedAudio
  <2>4. ItemFollows'
    <3>1. inProgress # NoResponse => inProgress \in Responses
      BY DEF TypeOK, TypeStates
    <3> QED
      BY <2>1, <2>2, <2>3, <3>1 DEF ItemFollows
  <2>5. ProviderInOrder'
    <3>1. current # NoResponse => current \in Responses
      BY DEF TypeOK, TypeStates
    <3> QED
      BY <2>1, <2>2, <3>1 DEF ProviderInOrder
  <2>6. ASSUME NEW n \in 1 .. Len(toSession)
        PROVE  InOrder(toSession[n], toSession, n, inProgress, output'.bytes, played', tags)
    <3>1. InOrder(toSession[n], toSession, n, inProgress, output.bytes, played, tags)
      BY DEF ChannelInOrder
    <3>2. toSession[n] \in Events
      <4>1. toSession \in Seq(Events)
        BY DEF TypeOK, TypeStates
      <4> QED
        BY <4>1, ElementTyped
    <3>3. /\ toSession[n].type = "created" => toSession[n].response \in Responses
          /\ toSession[n].type = "added" => toSession[n].item \in Responses
      BY <3>2 DEF Events
    <3> QED
      BY <2>2, <3>1, <3>3 DEF InOrder
  <2>7. ChannelInOrder'
    BY <2>1, <2>6 DEF ChannelInOrder
  <2> QED
    BY <2>4, <2>5, <2>7
<1> QED
  BY <1>4, <1>5, <1>6, <1>7, <1>8, <1>9, <1>10, <1>11, <1>12

-----------------------------------------------------------------------------
(* The counters of QueuedAudio.                                            *)

\* Audio of the item that neither is queued nor was discarded was played.
Counted ==
    output.item # NoItem =>
      output.generated <=
        UnitsOf(output.item, output.bytes) + output.flushed + played[output.item]

\* An item that has the queue for itself.
CountedExactly ==
    output.item # NoItem /\ ~mixed =>
      /\ \A i \in 1 .. Len(output.bytes) : output.bytes[i] = output.item
      /\ output.generated = Len(output.bytes) + output.flushed + played[output.item]

HeardInv == OrderInv /\ Counted /\ CountedExactly /\ TruncateWithinPlayed

(* A delta keeps the counters right: an item that is new to the queue was  *)
(* not heard before.                                                       *)
LEMMA DeltaCounted ==
    ASSUME HeardInv, OnAudioDelta
    PROVE  Counted' /\ CountedExactly'
<1> DEFINE event == Head(toSession)
           audio == [i \in 1 .. event.units |-> event.response]
           item == ItemOf(event)
           all == output.bytes \o audio
           dropped == Overflow(Len(all))
           front == SubSeq(all, 1, dropped)
           rest == SubSeq(all, dropped + 1, Len(all))
<1> USE DEF HeardInv, OrderInv
<1>1. Delta(event, item, audio)
  BY DeltaReceived
<1> HIDE DEF event, audio, item
<1>2. /\ item \in {NoItem, inProgress} /\ inProgress \in Responses
      /\ item \in Responses \cup {NoItem} /\ audio \in Seq(Responses)
      /\ Len(audio) \in Nat /\ \A i \in 1 .. Len(audio) : audio[i] = inProgress
  BY <1>1 DEF Delta
<1>3. /\ item # output.item /\ ~mixed' => output.bytes = <<>>
      /\ item = output.item => mixed' = mixed
  BY <1>1 DEF Delta
<1>4. /\ output \in QueuedAudio /\ output.bytes \in Seq(Responses)
      /\ Len(output.bytes) \in Nat /\ output.generated \in Nat /\ output.flushed \in Nat
      /\ output.item \in Responses \cup {NoItem}
  BY DEF TypeOK, QueuedAudio
<1>5. /\ all \in Seq(Responses) /\ dropped \in 0 .. Len(all)
      /\ Len(all) = Len(output.bytes) + Len(audio)
      /\ output'.bytes = rest /\ output'.item = item
      /\ output'.generated = (IF item # output.item THEN 0 ELSE output.generated) + Len(audio)
      /\ output'.flushed = (IF item # output.item THEN 0 ELSE output.flushed) + dropped
  <2> DEFINE new == DiscardOverflow(Push(output, item, audio))
  <2>1. output' = new
    BY <1>1 DEF Delta
  <2>2. /\ all \in Seq(Responses) /\ dropped \in 0 .. Len(all)
        /\ Len(all) = Len(output.bytes) + Len(audio)
        /\ new.bytes = rest /\ new.item = item
        /\ new.generated = (IF item # output.item THEN 0 ELSE output.generated) + Len(audio)
        /\ new.flushed = (IF item # output.item THEN 0 ELSE output.flushed) + dropped
    BY <1>2, <1>4, DeltaQueued
  <2> HIDE DEF new
  <2> QED
    BY <2>1, <2>2
<1>6. /\ played' = played
      /\ \A r \in Responses : played[r] \in Nat
  BY DEF OnAudioDelta, TypeOK, TypeStates
<1>7. item # NoItem => item = inProgress
  BY <1>2
<1>8. item # NoItem => UnitsOf(item, audio) = Len(audio)
  BY <1>2, <1>7, UnitsOfOne
<1>9. item # NoItem => UnitsOf(item, all) = UnitsOf(item, output.bytes) + Len(audio)
  BY <1>2, <1>4, <1>7, <1>8, UnitsAppended
<1> HIDE DEF all, dropped
<1>10. /\ front \in Seq(Responses) /\ Len(front) = dropped
       /\ rest \in Seq(Responses) /\ Len(rest) = Len(all) - dropped
       /\ \A i \in 1 .. Len(rest) : rest[i] = all[i + dropped] /\ i + dropped \in 1 .. Len(all)
  BY <1>5, Parts
<1>11. item # NoItem =>
         /\ UnitsOf(item, all) = UnitsOf(item, front) + UnitsOf(item, rest)
         /\ UnitsOf(item, front) \in 0 .. dropped /\ UnitsOf(item, rest) \in Nat
         /\ UnitsOf(item, output.bytes) \in Nat
  BY <1>2, <1>4, <1>5, <1>7, <1>10, UnitsSplit, UnitsBounded, UnitsCounted
<1>12. Len(all) \in Nat /\ dropped \in Nat /\ Len(rest) \in Nat
  BY <1>5, <1>10
<1> HIDE DEF front, rest
<1>13. Counted'
  <2> SUFFICES ASSUME item # NoItem
               PROVE  output'.generated <=
                        UnitsOf(item, rest) + output'.flushed + played[item]
    BY <1>5, <1>6 DEF Counted
  <2>1. played[item] \in Nat
    BY <1>2, <1>6
  <2>2. CASE item # output.item
    <3>1. output'.generated = Len(audio) /\ output'.flushed = dropped
      BY <1>2, <1>5, <1>12, <2>2
    <3>2. UnitsOf(item, rest) + dropped >= UnitsOf(item, all)
      BY <1>11, <1>12
    <3>3. UnitsOf(item, all) >= Len(audio)
      BY <1>2, <1>9, <1>11
    <3> QED
      BY <1>2, <1>9, <1>11, <1>12, <2>1, <3>1, <3>2, <3>3
  <2>3. CASE item = output.item
    <3>1. output.generated <= UnitsOf(item, output.bytes) + output.flushed + played[item]
      BY <2>3 DEF Counted
    <3>2. /\ output'.generated = output.generated + Len(audio)
          /\ output'.flushed = output.flushed + dropped
      BY <1>5, <2>3
    <3>3. UnitsOf(item, rest) + dropped >= UnitsOf(item, output.bytes) + Len(audio)
      BY <1>2, <1>9, <1>11, <1>12
    <3>4. /\ output.generated \in Nat /\ output.flushed \in Nat /\ dropped \in Nat
          /\ Len(audio) \in Nat /\ UnitsOf(item, rest) \in Nat
          /\ UnitsOf(item, output.bytes) \in Nat
      BY <1>2, <1>4, <1>11, <1>12
    <3>5. output.generated + Len(audio)
            <= UnitsOf(item, rest) + (output.flushed + dropped) + played[item]
      <4> DEFINE u == UnitsOf(item, output.bytes) + output.flushed
                 w == UnitsOf(item, rest) + (output.flushed + dropped)
      <4>1. u \in Nat /\ w \in Nat
        BY <3>4
      <4>2. output.generated <= u + played[item]
        BY <3>1
      <4>3. w >= u + Len(audio)
        BY <3>3, <3>4
      <4> HIDE DEF u, w
      <4>4. output.generated + Len(audio) <= w + played[item]
        BY <2>1, <3>4, <4>1, <4>3, <4>2
      <4> QED
        BY <4>4 DEF w
    <3> QED
      BY <3>2, <3>5
  <2> QED
    BY <2>2, <2>3
<1>14. item # NoItem /\ ~mixed' =>
         /\ item # output.item => output.bytes = <<>>
         /\ item = output.item =>
              /\ \A i \in 1 .. Len(output.bytes) : output.bytes[i] = item
              /\ output.generated = Len(output.bytes) + output.flushed + played[item]
  BY <1>3 DEF CountedExactly
<1>15. ASSUME item # NoItem, item # output.item, output.bytes = <<>>
       PROVE  /\ \A i \in 1 .. Len(rest) : rest[i] = item
              /\ output'.generated = Len(rest) + output'.flushed + played[item]
  <2>1. Len(output.bytes) = 0
    BY <1>15
  <2>2. \A i \in 1 .. Len(all) : all[i] = item
    BY <1>2, <1>4, <1>5, <1>7, <1>15, <2>1 DEF all
  <2>3. \A i \in 1 .. Len(rest) : rest[i] = item
    BY <1>10, <2>2
  <2>4. played[item] = 0
    <3>1. item = IF tags THEN inProgress ELSE responseItem
      BY <1>1 DEF Delta
    <3>2. inProgress # NoResponse
      BY <1>2 DEF Responses, NoResponse
    <3>3. Unheard(toSession, 1, output.bytes, played, inProgress)
      BY <1>15, <3>1, <3>2 DEF ItemFollows
    <3> QED
      BY <1>7, <1>15, <3>3 DEF Unheard
  <2>5. output'.generated = Len(audio) /\ output'.flushed = dropped
    BY <1>2, <1>5, <1>12, <1>15
  <2>6. Len(rest) = Len(audio) - dropped
    BY <1>2, <1>5, <1>10, <2>1
  <2>7. output'.generated = Len(rest) + output'.flushed + played[item]
    BY <1>2, <1>12, <2>4, <2>5, <2>6
  <2> QED
    BY <2>3, <2>7
<1>16. ASSUME item # NoItem, item = output.item,
              \A i \in 1 .. Len(output.bytes) : output.bytes[i] = item,
              output.generated = Len(output.bytes) + output.flushed + played[item]
       PROVE  /\ \A i \in 1 .. Len(rest) : rest[i] = item
              /\ output'.generated = Len(rest) + output'.flushed + played[item]
  <2>1. \A i \in 1 .. Len(all) : all[i] = item
    BY <1>2, <1>4, <1>5, <1>7, <1>16 DEF all
  <2>2. \A i \in 1 .. Len(rest) : rest[i] = item
    BY <1>10, <2>1
  <2>3. item \in Responses /\ played[item] \in Nat
    BY <1>2, <1>6, <1>7, <1>16
  <2>4. /\ output'.generated = output.generated + Len(audio)
        /\ output'.flushed = output.flushed + dropped
    BY <1>5, <1>16
  <2>5. Len(rest) = Len(output.bytes) + Len(audio) - dropped
    BY <1>5, <1>10
  <2>6. /\ output.generated \in Nat /\ output.flushed \in Nat
        /\ Len(output.bytes) \in Nat /\ Len(audio) \in Nat
    BY <1>2, <1>4
  <2>7. output.generated = Len(output.bytes) + output.flushed + played[item]
    BY <1>16
  <2>8. output.generated + Len(audio) = Len(rest) + (output.flushed + dropped) + played[item]
    <3> DEFINE u == Len(output.bytes) + output.flushed
    <3>1. u \in Nat /\ output.generated = u + played[item]
      BY <2>6, <2>7
    <3>2. Len(rest) + (output.flushed + dropped) = u + Len(audio)
      BY <1>12, <2>5, <2>6
    <3> HIDE DEF u
    <3>3. (u + played[item]) + Len(audio) = (u + Len(audio)) + played[item]
      BY <2>3, <2>6, <3>1
    <3> QED
      BY <3>1, <3>2, <3>3
  <2> QED
    BY <2>2, <2>4, <2>8
<1>17. item # NoItem /\ ~mixed' =>
         /\ \A i \in 1 .. Len(rest) : rest[i] = item
         /\ output'.generated = Len(rest) + output'.flushed + played[item]
  BY <1>14, <1>15, <1>16
<1>18. CountedExactly'
  BY <1>5, <1>6, <1>17 DEF CountedExactly
<1> QED
  BY <1>13, <1>18

(* Playing a frame moves its units from the queue to what was played. *)
LEMMA TickCounted ==
    ASSUME HeardInv, Tick
    PROVE  /\ Counted' /\ CountedExactly'
           /\ \A r \in Responses : played'[r] >= played[r]
<1> DEFINE k == Len(NextFrame(output))
           front == SubSeq(output.bytes, 1, k)
           rest == SubSeq(output.bytes, k + 1, Len(output.bytes))
           item == output.item
<1> USE DEF HeardInv, OrderInv
<1>1. /\ output \in QueuedAudio /\ output.bytes \in Seq(Responses)
      /\ Len(output.bytes) \in Nat /\ output.generated \in Nat /\ output.flushed \in Nat
      /\ output.item \in Responses \cup {NoItem}
  BY DEF TypeOK, QueuedAudio
<1>2. /\ k \in 0 .. Len(output.bytes)
      /\ output' = [output EXCEPT !.bytes = rest]
      /\ played' = [x \in Responses |-> played[x] + UnitsOf(x, front)]
  BY TickSplits
<1> HIDE DEF k
<1>3. /\ front \in Seq(Responses) /\ Len(front) = k
      /\ \A i \in 1 .. Len(front) : front[i] = output.bytes[i] /\ i \in 1 .. Len(output.bytes)
      /\ rest \in Seq(Responses) /\ Len(rest) = Len(output.bytes) - k
      /\ \A i \in 1 .. Len(rest) : rest[i] = output.bytes[i + k]
                                     /\ i + k \in 1 .. Len(output.bytes)
  BY <1>1, <1>2, Parts
<1>4. /\ output'.bytes = rest /\ output'.item = output.item
      /\ output'.generated = output.generated /\ output'.flushed = output.flushed
  BY <1>1, <1>2 DEF QueuedAudio
<1>5. \A r \in Responses :
         /\ played[r] \in Nat /\ UnitsOf(r, front) \in Nat /\ UnitsOf(r, rest) \in Nat
         /\ UnitsOf(r, output.bytes) = UnitsOf(r, front) + UnitsOf(r, rest)
         /\ played'[r] = played[r] + UnitsOf(r, front)
  <2>1. \A r \in Responses : UnitsOf(r, output.bytes) = UnitsOf(r, front) + UnitsOf(r, rest)
    BY <1>1, <1>2, UnitsSplit
  <2>2. \A r \in Responses : UnitsOf(r, front) \in Nat /\ UnitsOf(r, rest) \in Nat
    BY <1>3, UnitsCounted
  <2>3. \A r \in Responses : played[r] \in Nat
    BY DEF TypeOK, TypeStates
  <2>4. \A r \in Responses : played'[r] = played[r] + UnitsOf(r, front)
    BY <1>2
  <2> QED
    BY <2>1, <2>2, <2>3, <2>4
<1>6. UNCHANGED mixed
  BY DEF Tick
<1> HIDE DEF front, rest
<1>7. Counted'
  <2> SUFFICES ASSUME item # NoItem
               PROVE  output.generated <= UnitsOf(item, rest) + output.flushed + played'[item]
    BY <1>4 DEF Counted
  <2>1. output.generated <= UnitsOf(item, output.bytes) + output.flushed + played[item]
    BY DEF Counted
  <2>2. item \in Responses
    BY <1>1
  <2> HIDE DEF item
  <2> QED
    BY <1>1, <1>5, <2>1, <2>2
<1>8. CountedExactly'
  <2> SUFFICES ASSUME item # NoItem, ~mixed
               PROVE  /\ \A i \in 1 .. Len(rest) : rest[i] = item
                      /\ output.generated = Len(rest) + output.flushed + played'[item]
    BY <1>4, <1>6 DEF CountedExactly
  <2>1. /\ \A i \in 1 .. Len(output.bytes) : output.bytes[i] = item
        /\ output.generated = Len(output.bytes) + output.flushed + played[item]
    BY DEF CountedExactly
  <2>2. item \in Responses
    BY <1>1
  <2> HIDE DEF item
  <2>3. UnitsOf(item, front) = k
    BY <1>3, <2>1, <2>2, UnitsOfOne
  <2>4. \A i \in 1 .. Len(rest) : rest[i] = item
    BY <1>3, <2>1
  <2>5. output.generated = Len(rest) + output.flushed + played'[item]
    <3>1. played'[item] = played[item] + k /\ played[item] \in Nat
      BY <1>5, <2>2, <2>3
    <3>2. Len(rest) = Len(output.bytes) - k /\ k \in Nat
      BY <1>1, <1>2, <1>3
    <3> QED
      BY <1>1, <2>1, <3>1, <3>2
  <2> QED
    BY <2>4, <2>5
<1> QED
  BY <1>5, <1>7, <1>8

(* What the counters say was heard was played. *)
LEMMA HeardWasPlayed ==
    ASSUME HeardInv, output.item # NoItem
    PROVE  /\ AudioEnd(output) \in Nat /\ AudioEnd(output) <= played[output.item]
           /\ ~mixed => AudioEnd(output) = played[output.item]
<1> USE DEF HeardInv, OrderInv
<1>1. /\ output.bytes \in Seq(Responses) /\ Len(output.bytes) \in Nat
      /\ output.generated \in Nat /\ output.flushed \in Nat /\ output.item \in Responses
  BY DEF TypeOK, QueuedAudio
<1>2. played[output.item] \in Nat
  BY <1>1 DEF TypeOK, TypeStates
<1>3. UnitsOf(output.item, output.bytes) \in 0 .. Len(output.bytes)
  BY <1>1, UnitsBounded
<1>4. output.generated <=
        UnitsOf(output.item, output.bytes) + output.flushed + played[output.item]
  BY DEF Counted
<1>5. ~mixed => output.generated = Len(output.bytes) + output.flushed + played[output.item]
  BY DEF CountedExactly
<1>6. AudioEnd(output) = IF output.generated > Len(output.bytes) + output.flushed
                           THEN output.generated - (Len(output.bytes) + output.flushed) ELSE 0
  BY DEF AudioEnd, Unplayed
<1> QED
  BY <1>1, <1>2, <1>3, <1>4, <1>5, <1>6

(* Barge-in discards the queue and reports what was played. *)
LEMMA SpeechCounted ==
    ASSUME HeardInv, OnSpeechStarted
    PROVE  Counted' /\ CountedExactly' /\ TruncateWithinPlayed'
<1> USE DEF HeardInv, OrderInv
<1>1. /\ output \in QueuedAudio /\ output.bytes \in Seq(Responses)
      /\ Len(output.bytes) \in Nat /\ output.generated \in Nat /\ output.flushed \in Nat
      /\ output.item \in Responses \cup {NoItem}
  BY DEF TypeOK, QueuedAudio
<1>2. /\ output'.bytes = <<>> /\ output'.item = output.item
      /\ output'.generated = output.generated
      /\ output'.flushed = Len(output.bytes) + output.flushed
  BY <1>1 DEF OnSpeechStarted, QueuedAudio, Unplayed
<1>3. UNCHANGED <<played, mixed>>
  BY DEF OnSpeechStarted
<1>4. output.item # NoItem =>
        /\ UnitsOf(output.item, output.bytes) \in 0 .. Len(output.bytes)
        /\ UnitsOf(output.item, <<>>) = 0 /\ played[output.item] \in Nat
  <2>1. <<>> \in Seq(Responses) /\ Len(<<>>) = 0
    OBVIOUS
  <2> SUFFICES ASSUME output.item # NoItem
               PROVE  /\ UnitsOf(output.item, output.bytes) \in 0 .. Len(output.bytes)
                      /\ UnitsOf(output.item, <<>>) = 0 /\ played[output.item] \in Nat
    OBVIOUS
  <2>2. output.item \in Responses
    BY <1>1
  <2>3. UnitsOf(output.item, <<>>) = 0
    <3>1. \A i \in 1 .. Len(<<>>) : <<>>[i] # output.item
      BY <2>1
    <3> QED
      BY <2>1, <2>2, <3>1, UnitsOfNone
  <2>4. UnitsOf(output.item, output.bytes) \in 0 .. Len(output.bytes)
    BY <1>1, <2>2, UnitsBounded
  <2>5. played[output.item] \in Nat
    BY <2>2 DEF TypeOK, TypeStates
  <2> QED
    BY <2>3, <2>4, <2>5
<1>5. Counted'
  BY <1>1, <1>2, <1>3, <1>4 DEF Counted
<1>6. CountedExactly'
  BY <1>1, <1>2, <1>3, <1>4 DEF CountedExactly
<1>7. TruncateWithinPlayed'
  <2> DEFINE cancel == [type |-> "cancel"]
             cut == [type |-> "truncate", item |-> output.item, end |-> AudioEnd(output)]
             asked == Append(toProvider, cancel)
  <2>1. toProvider \in Seq(Requests) /\ Len(toProvider) \in Nat
    BY DEF TypeOK, TypeStates
  <2>2. cancel \in Requests /\ cancel.type # "truncate"
    BY DEF Requests
  <2>3. output.item # NoItem =>
          /\ cut \in Requests /\ cut.item = output.item /\ cut.end = AudioEnd(output)
          /\ AudioEnd(output) <= played[output.item]
    BY <1>1, HeardWasPlayed DEF Requests
  <2>4. \/ toProvider' = toProvider
        \/ toProvider' = toProvider \o <<cancel>> \o <<>>
        \/ toProvider' = toProvider \o <<cancel>> \o <<cut>> /\ output.item # NoItem
    BY DEF OnSpeechStarted, Truncate
  <2> HIDE DEF cancel, cut
  <2>5. asked \in Seq(Requests) /\ Len(asked) \in Nat /\ asked = toProvider \o <<cancel>>
    BY <2>1, <2>2
  <2>6. \A i \in 1 .. Len(asked) :
           \/ i \in 1 .. Len(toProvider) /\ asked[i] = toProvider[i]
           \/ asked[i] = cancel
    BY <2>1, <2>2
  <2> HIDE DEF asked
  <2>7. asked \o <<>> = asked /\ asked \o <<cut>> = Append(asked, cut)
    BY <2>5
  <2>8. \A i \in 1 .. Len(asked) :
           asked[i].type = "truncate" => asked[i].end <= played[asked[i].item]
    BY <2>2, <2>6 DEF TruncateWithinPlayed
  <2>9. CASE toProvider' = toProvider
    BY <1>3, <2>9 DEF TruncateWithinPlayed
  <2>10. CASE toProvider' = asked
    BY <1>3, <2>8, <2>10 DEF TruncateWithinPlayed
  <2>11. CASE toProvider' = Append(asked, cut) /\ output.item # NoItem
    <3>1. \A i \in 1 .. Len(toProvider') :
             \/ i \in 1 .. Len(asked) /\ toProvider'[i] = asked[i]
             \/ toProvider'[i] = cut
      BY <2>3, <2>5, <2>11
    <3> QED
      BY <1>3, <2>3, <2>8, <2>11, <3>1 DEF TruncateWithinPlayed
  <2> QED
    BY <2>4, <2>5, <2>7, <2>9, <2>10, <2>11
<1> QED
  BY <1>5, <1>6, <1>7

(* Every step keeps the events in order and the counters right. *)
LEMMA HeardStep ==
    ASSUME HeardInv, [Next]_vars
    PROVE  HeardInv'
<1> USE DEF HeardInv
<1>1. TypeOK'
  BY TypeStep DEF OrderInv
<1>2. ASSUME UNCHANGED <<output, mixed, played>>, UNCHANGED toProvider
      PROVE  Counted' /\ CountedExactly' /\ TruncateWithinPlayed'
  BY <1>2 DEF Counted, CountedExactly, TruncateWithinPlayed
<1>3. ASSUME UNCHANGED <<mixed, played, toProvider>>, output'.item = output.item,
             output'.bytes = output.bytes, output'.generated = output.generated,
             output'.flushed = output.flushed
      PROVE  Counted' /\ CountedExactly' /\ TruncateWithinPlayed'
  BY <1>3 DEF Counted, CountedExactly, TruncateWithinPlayed
<1>4. output \in QueuedAudio /\ toProvider \in Seq(Requests)
  BY DEF OrderInv, TypeOK, TypeStates
<1>5. CASE UNCHANGED vars
  <2>1. UNCHANGED <<toSession, inProgress, output, played, tags, current, made, sent,
                    responseItem, mixed, toProvider>>
    BY <1>5 DEF vars, mapper, provider, history
  <2>2. ChannelInOrder' /\ ProviderInOrder' /\ ItemFollows'
    BY <2>1 DEF OrderInv, ChannelInOrder, ProviderInOrder, ItemFollows
  <2> QED
    BY <1>1, <1>2, <2>1, <2>2 DEF OrderInv
<1>6. CASE \/ ProviderStarts \/ ProviderNamesItem \/ ProviderStreams
           \/ ProviderFinishesAudio \/ ProviderEnds \/ ProviderHearsCaller
           \/ ProviderReceives
  <2>1. ChannelInOrder' /\ ProviderInOrder' /\ ItemFollows'
    BY <1>6, ProviderStep
  <2>2. UNCHANGED <<output, mixed, played>>
    BY <1>6 DEF ProviderStarts, ProviderNamesItem, ProviderStreams, ProviderFinishesAudio,
                ProviderEnds, ProviderHearsCaller, ProviderReceives, history
  <2>3. CASE ProviderReceives
    <3>1. toProvider # <<>> /\ toProvider' = Tail(toProvider)
      BY <2>3 DEF ProviderReceives
    <3>2. /\ Len(toProvider) \in Nat /\ Len(toProvider') = Len(toProvider) - 1
          /\ \A i \in 1 .. Len(toProvider') : /\ toProvider'[i] = toProvider[i + 1]
                                              /\ i + 1 \in 1 .. Len(toProvider)
      BY <1>4, <3>1
    <3>3. TruncateWithinPlayed'
      BY <2>2, <3>2 DEF TruncateWithinPlayed
    <3>4. Counted' /\ CountedExactly'
      BY <2>2 DEF Counted, CountedExactly
    <3> QED
      BY <1>1, <2>1, <3>3, <3>4 DEF OrderInv
  <2>4. CASE ~ProviderReceives
    <3>1. UNCHANGED toProvider
      BY <1>6, <2>4
         DEF ProviderStarts, ProviderNamesItem, ProviderStreams, ProviderFinishesAudio,
             ProviderEnds, ProviderHearsCaller
    <3> QED
      BY <1>1, <1>2, <2>1, <2>2, <3>1 DEF OrderInv
  <2> QED
    BY <2>3, <2>4
<1>7. CASE \/ OnCreated \/ OnItemAdded \/ OnAudioDelta \/ OnSpeechStarted \/ OnAudioDone
           \/ OnDone \/ OnError \/ OnSpeak \/ Tick \/ Close \/ Fail
  <2>1. ChannelInOrder' /\ ProviderInOrder' /\ ItemFollows'
    BY <1>1, <1>7, SessionStep
  <2>2. CASE OnCreated \/ OnItemAdded \/ OnError \/ Close \/ Fail
    <3>1. UNCHANGED <<output, mixed, played, toProvider>>
      BY <2>2 DEF OnCreated, OnItemAdded, OnError, Close, Fail, mapper, provider, history
    <3> QED
      BY <1>1, <1>2, <2>1, <3>1 DEF OrderInv
  <2>3. CASE OnAudioDelta
    <3>1. Counted' /\ CountedExactly'
      BY <2>3, DeltaCounted
    <3>2. UNCHANGED <<played, toProvider>>
      BY <2>3 DEF OnAudioDelta
    <3>3. TruncateWithinPlayed'
      BY <3>2 DEF TruncateWithinPlayed
    <3> QED
      BY <1>1, <2>1, <3>1, <3>3 DEF OrderInv
  <2>4. CASE OnSpeechStarted
    BY <1>1, <2>1, <2>4, SpeechCounted DEF OrderInv
  <2>5. CASE OnAudioDone \/ OnDone
    <3>1. UNCHANGED <<mixed, played, toProvider>>
      BY <2>5 DEF OnAudioDone, OnDone, mapper, provider, history
    <3>2. /\ output'.item = output.item /\ output'.bytes = output.bytes
          /\ output'.generated = output.generated /\ output'.flushed = output.flushed
      BY <1>4, <2>5 DEF OnAudioDone, OnDone, QueuedAudio
    <3> QED
      BY <1>1, <1>3, <2>1, <3>1, <3>2 DEF OrderInv
  <2>6. CASE OnSpeak
    <3>1. UNCHANGED <<output, mixed, played>>
      BY <2>6 DEF OnSpeak, history
    <3>2. Counted' /\ CountedExactly'
      BY <3>1 DEF Counted, CountedExactly
    <3>3. \A i \in 1 .. Len(toProvider') :
             \/ i \in 1 .. Len(toProvider) /\ toProvider'[i] = toProvider[i]
             \/ toProvider'[i].type = "create"
      <4> DEFINE create == [type |-> "create"]
      <4>1. create \in Requests /\ create.type = "create"
        BY DEF Requests
      <4>2. toProvider' = Append(toProvider, create)
        BY <2>6 DEF OnSpeak
      <4> HIDE DEF create
      <4> QED
        BY <1>4, <4>1, <4>2
    <3>4. TruncateWithinPlayed'
      BY <3>1, <3>3 DEF TruncateWithinPlayed
    <3> QED
      BY <1>1, <2>1, <3>2, <3>4 DEF OrderInv
  <2>7. CASE Tick
    <3>1. /\ Counted' /\ CountedExactly'
          /\ \A r \in Responses : played'[r] >= played[r]
      BY <2>7, TickCounted
    <3>2. UNCHANGED toProvider
      BY <2>7 DEF Tick
    <3>3. \A i \in 1 .. Len(toProvider) :
             toProvider[i].type = "truncate" =>
               /\ toProvider[i].item \in Responses /\ toProvider[i].end \in Nat
      <4>1. \A i \in 1 .. Len(toProvider) : toProvider[i] \in Requests
        BY <1>4
      <4> QED
        BY <4>1 DEF Requests
    <3>4. \A r \in Responses : played[r] \in Nat /\ played'[r] \in Nat
      BY <1>1 DEF OrderInv, TypeOK, TypeStates
    <3>5. TruncateWithinPlayed'
      BY <3>1, <3>2, <3>3, <3>4 DEF TruncateWithinPlayed
    <3> QED
      BY <1>1, <2>1, <3>1, <3>5 DEF OrderInv
  <2> QED
    BY <1>7, <2>2, <2>3, <2>4, <2>5, <2>6, <2>7
<1> QED
  BY <1>5, <1>6, <1>7 DEF Next

LEMMA HeardAlways == Spec => []HeardInv
<1>1. Init => TypeOK
  BY TypeInit
<1>2. Init => HeardInv
  <2> SUFFICES ASSUME Init PROVE HeardInv
    OBVIOUS
  <2>1. Len(toSession) = 0 /\ Len(toProvider) = 0 /\ Len(output.bytes) = 0
    BY DEF Init
  <2>2. 1 .. 0 = {} /\ 1 .. (0 + 1) - 1 = {} /\ 1 .. 1 - 1 = {}
    OBVIOUS
  <2>3. ChannelInOrder
    BY <2>1, <2>2 DEF ChannelInOrder
  <2>4. \A r \in Responses : Unheard(toSession, Len(toSession) + 1, output.bytes, played, r)
    BY <2>1, <2>2 DEF Unheard, Init
  <2>5. ProviderInOrder
    <3>1. current = NoResponse /\ current <= made
      BY DEF Init, NoResponse
    <3> QED
      BY <2>4, <3>1 DEF ProviderInOrder
  <2>6. ItemFollows
    BY DEF ItemFollows, Init
  <2>7. Counted /\ CountedExactly
    BY DEF Counted, CountedExactly, Init
  <2>8. TruncateWithinPlayed
    BY <2>1, <2>2 DEF TruncateWithinPlayed
  <2> QED
    BY <1>1, <2>3, <2>5, <2>6, <2>7, <2>8 DEF HeardInv, OrderInv
<1> QED
  BY <1>2, HeardStep, PTL DEF Spec

(* The provider never records that the caller heard more than was played,  *)
(* for every frame size, queue limit and number of responses: what is not  *)
(* queued and was not discarded of an item was played, and that survives   *)
(* overflows, barge-ins and audio of different items in the queue.         *)
THEOREM TruncateIsWithinPlayed == Spec => []TruncateWithinPlayed
<1>1. HeardInv => TruncateWithinPlayed
  BY DEF HeardInv
<1> QED
  BY <1>1, HeardAlways, PTL

(* The counters of QueuedAudio are exact while an item has the queue for   *)
(* itself: the events under way are in order, so that an item that is new  *)
(* to the queue was not played before.                                     *)
THEOREM HeardExactly == Spec => []HeardIsExact
<1>1. HeardInv => HeardIsExact
  <2> SUFFICES ASSUME HeardInv, output.item # NoItem, ~mixed
               PROVE  AudioEnd(output) = played[output.item]
    BY DEF HeardIsExact
  <2> QED
    BY HeardWasPlayed
<1> QED
  BY <1>1, HeardAlways, PTL

-----------------------------------------------------------------------------
(* The tail of a response.                                                 *)

TailFinished == inProgress = NoResponse /\ output.bytes # <<>> => output.finished

(* A delta comes only while its response is in progress, so that the queue *)
(* is finished when the response is done and stays so until the next one.  *)
LEMMA TailStep ==
    ASSUME HeardInv, TailFinished, [Next]_vars
    PROVE  TailFinished'
<1>1. TypeOK /\ OrderInv /\ output \in QueuedAudio
  BY DEF HeardInv, OrderInv, TypeOK
<1>2. ASSUME UNCHANGED <<output, inProgress>> PROVE TailFinished'
  BY <1>2 DEF TailFinished
<1>3. CASE UNCHANGED vars
  BY <1>2, <1>3 DEF vars, history
<1>4. CASE \/ ProviderStarts \/ ProviderNamesItem \/ ProviderStreams
           \/ ProviderFinishesAudio \/ ProviderEnds \/ ProviderHearsCaller
           \/ ProviderReceives \/ OnItemAdded \/ OnError \/ OnSpeak \/ Close \/ Fail
  BY <1>2, <1>4
     DEF ProviderStarts, ProviderNamesItem, ProviderStreams, ProviderFinishesAudio,
         ProviderEnds, ProviderHearsCaller, ProviderReceives, OnItemAdded, OnError, OnSpeak,
         Close, Fail, history
<1>5. CASE OnCreated
  <2>1. Head(toSession).type = "created" /\ Head(toSession) \in Events
    BY <1>1, <1>5, EventReceived DEF OnCreated, Receive, TypeOK, TypeStates
  <2>2. inProgress' \in Responses
    BY <1>5, <2>1 DEF OnCreated, Events
  <2> QED
    BY <2>2 DEF TailFinished, Responses, NoResponse
<1>6. CASE OnAudioDelta
  <2>1. Head(toSession).type = "audio" /\ Head(toSession) \in Events
    BY <1>1, <1>6, EventReceived DEF OnAudioDelta, Receive, TypeOK, TypeStates
  <2>2. Head(toSession).response \in Responses
    BY <2>1 DEF Events
  <2>3. Head(toSession).response = inProgress
    BY <1>1, <1>6, DeltaReceived DEF Delta
  <2>4. inProgress' = inProgress
    BY <1>6 DEF OnAudioDelta
  <2> QED
    BY <2>2, <2>3, <2>4 DEF TailFinished, Responses, NoResponse
<1>7. CASE OnSpeechStarted
  BY <1>1, <1>7 DEF OnSpeechStarted, TailFinished, QueuedAudio
<1>8. CASE OnAudioDone \/ OnDone
  BY <1>1, <1>8 DEF OnAudioDone, OnDone, TailFinished, QueuedAudio
<1>9. CASE Tick
  <2> DEFINE n == Len(NextFrame(output))
  <2>1. /\ n \in 0 .. Len(output.bytes) /\ inProgress' = inProgress
        /\ output' = [output EXCEPT
                        !.bytes = SubSeq(output.bytes, n + 1, Len(output.bytes))]
    BY <1>1, <1>9, TickSplits DEF Tick
  <2> HIDE DEF n
  <2>2. /\ output'.bytes = SubSeq(output.bytes, n + 1, Len(output.bytes))
        /\ output'.finished = output.finished
    BY <1>1, <2>1 DEF QueuedAudio
  <2>3. output'.bytes # <<>> => output.bytes # <<>>
    <3>1. CASE output.bytes = <<>>
      <4>1. Len(output.bytes) = 0 /\ n = 0
        BY <2>1, <3>1
      <4> QED
        BY <2>2, <3>1, <4>1
    <3> QED
      BY <3>1
  <2> QED
    BY <2>1, <2>2, <2>3 DEF TailFinished
<1> QED
  BY <1>3, <1>4, <1>5, <1>6, <1>7, <1>8, <1>9 DEF Next

(* Between responses the ticker can always play what is left, for every    *)
(* frame size: no audio waits for a frame that never fills up.             *)
THEOREM TailIsNeverStuck == Spec => []TailCanPlay
<1>1. Init => TailFinished
  BY DEF Init, TailFinished
<1>2. HeardInv /\ TailFinished => TailCanPlay
  <2> SUFFICES ASSUME HeardInv, TailFinished, inProgress = NoResponse, output.bytes # <<>>
               PROVE  NextFrame(output) # <<>>
    BY DEF TailCanPlay
  <2> DEFINE n == AtMost(FrameUnits, Len(output.bytes))
  <2>1. output.bytes \in Seq(Responses) /\ Len(output.bytes) \in Nat \ {0}
    <3>1. output.bytes \in Seq(Responses)
      BY DEF HeardInv, OrderInv, TypeOK, QueuedAudio
    <3> QED
      BY <3>1
  <2>2. NextFrame(output) = SubSeq(output.bytes, 1, n)
    BY DEF TailFinished, NextFrame
  <2>3. n \in 1 .. Len(output.bytes)
    BY <2>1, Constants DEF AtMost
  <2> HIDE DEF n
  <2>4. Len(SubSeq(output.bytes, 1, n)) = n
    BY <2>1, <2>3
  <2>5. Len(<<>>) = 0
    OBVIOUS
  <2> QED
    BY <2>2, <2>3, <2>4, <2>5
<1> QED
  BY <1>1, <1>2, HeardAlways, TailStep, PTL DEF Spec

=============================================================================
