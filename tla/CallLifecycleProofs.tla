------------------------- MODULE CallLifecycleProofs -------------------------
(***************************************************************************)
(* Proofs about CallLifecycle for any number of hangup requests and of     *)
(* BYEs that fail.                                                         *)
(***************************************************************************)
EXTENDS CallLifecycle, TLAPS

-----------------------------------------------------------------------------
(* Type correctness.                                                       *)

\* bootstrap_call starts in the types.
LEMMA TypeInit == Init => TypeOK
<1> SUFFICES ASSUME Init PROVE TypeOK
  OBVIOUS
<1>1. TypeFlags
  BY DEF Init, TypeFlags
<1>2. TypeStates
  BY CallAssumption DEF Init, TypeStates, TaskPoints, EnderPoints
<1> QED BY <1>1, <1>2 DEF TypeOK

\* Every step keeps the flags Boolean.
LEMMA FlagsStep ==
    ASSUME TypeOK, [Next]_vars
    PROVE  TypeFlags'
<1> USE CallAssumption DEF TypeOK, TypeFlags, flags, provider
<1>1. ASSUME NEW t \in Tasks, ActivateBridge(t) PROVE TypeFlags'
  <2> USE DEF Go, KeepsBridge
  <2>1. CASE StartBridge(t)
    BY <2>1 DEF StartBridge
  <2>2. CASE OpenReader(t)
    BY <2>2 DEF OpenReader
  <2>3. CASE ResetBridge(t)
    BY <2>3 DEF ResetBridge
  <2>4. CASE CheckCodec(t)
    BY <2>4 DEF CheckCodec, GiveUp
  <2>5. CASE OpenWriter(t)
    BY <2>5 DEF OpenWriter
  <2>6. CASE Connect(t)
    BY <2>6 DEF Connect, GiveUp
  <2>7. CASE Attach(t)
    BY <2>7 DEF Attach
  <2>8. CASE Spawn(t)
    BY <2>8 DEF Spawn
  <2> QED BY <1>1, <2>1, <2>2, <2>3, <2>4, <2>5, <2>6, <2>7, <2>8 DEF ActivateBridge
<1>2. ASSUME NEW e \in Enders, EndStep(e) PROVE TypeFlags'
  <2> USE DEF Ender, KeepsCall, Over
  <2>1. CASE EndCall(e)
    BY <2>1 DEF EndCall
  <2>2. CASE SendEnd(e)
    BY <2>2 DEF SendEnd
  <2>3. CASE End(e)
    BY <2>3 DEF End
  <2>4. CASE EndFails(e)
    BY <2>4 DEF EndFails
  <2> QED BY <1>2, <2>1, <2>2, <2>3, <2>4 DEF EndStep
<1>3. ASSUME NEW c \in Clients, Hangup(c) PROVE TypeFlags'
  BY <1>3 DEF Hangup, Ender, KeepsCall, Enders
<1>4. CASE MediaOpens
  BY <1>4 DEF MediaOpens
<1>5. CASE RemoteEnds
  BY <1>5 DEF RemoteEnds, Over
<1>6. CASE OnEnded
  BY <1>6 DEF OnEnded
<1>7. CASE ReaderStops
  BY <1>7 DEF ReaderStops
<1>8. CASE SessionCloses
  BY <1>8 DEF SessionCloses
<1>9. CASE Farewell
  BY <1>9 DEF Farewell, Ender, KeepsCall
<1>10. CASE FarewellElapses
  BY <1>10 DEF FarewellElapses, Ender, KeepsCall
<1>11. CASE SessionLost
  BY <1>11 DEF SessionLost, Ender, KeepsCall
<1>12. CASE UNCHANGED vars
  BY <1>12 DEF vars
<1> QED
  BY <1>1, <1>2, <1>3, <1>4, <1>5, <1>6, <1>7, <1>8, <1>9, <1>10, <1>11, <1>12 DEF Next

\* Every step keeps the positions, slots and counters in their types.
LEMMA StatesStep ==
    ASSUME TypeOK, [Next]_vars
    PROVE  TypeStates'
<1> USE CallAssumption DEF TypeOK, TypeStates, flags, provider, TaskPoints, EnderPoints
<1>1. ASSUME NEW t \in Tasks, ActivateBridge(t) PROVE TypeStates'
  <2> USE DEF Go, KeepsBridge
  <2>1. CASE StartBridge(t)
    BY <2>1 DEF StartBridge
  <2>2. CASE OpenReader(t)
    BY <2>2 DEF OpenReader
  <2>3. CASE ResetBridge(t)
    BY <2>3 DEF ResetBridge
  <2>4. CASE CheckCodec(t)
    BY <2>4 DEF CheckCodec, GiveUp
  <2>5. CASE OpenWriter(t)
    BY <2>5 DEF OpenWriter
  <2>6. CASE Connect(t)
    BY <2>6 DEF Connect, GiveUp
  <2>7. CASE Attach(t)
    BY <2>7 DEF Attach
  <2>8. CASE Spawn(t)
    <3>1. bridges' \in Nat
      BY <2>8 DEF Spawn
    <3>2. ender' \in [Enders -> EnderPoints] /\ task' \in [Tasks -> TaskPoints]
      BY <2>8 DEF Spawn
    <3> QED BY <2>8, <3>1, <3>2 DEF Spawn
  <2> QED BY <1>1, <2>1, <2>2, <2>3, <2>4, <2>5, <2>6, <2>7, <2>8 DEF ActivateBridge
<1>2. ASSUME NEW e \in Enders, EndStep(e) PROVE TypeStates'
  <2> USE DEF Ender, KeepsCall, Over
  <2>1. CASE EndCall(e)
    BY <2>1 DEF EndCall
  <2>2. CASE SendEnd(e)
    BY <2>2 DEF SendEnd
  <2>3. CASE End(e)
    BY <2>3 DEF End
  <2>4. CASE EndFails(e)
    BY <2>4 DEF EndFails
  <2> QED BY <1>2, <2>1, <2>2, <2>3, <2>4 DEF EndStep
<1>3. ASSUME NEW c \in Clients, Hangup(c) PROVE TypeStates'
  BY <1>3 DEF Hangup, Ender, KeepsCall, Enders
<1>4. CASE MediaOpens
  BY <1>4 DEF MediaOpens
<1>5. CASE RemoteEnds
  BY <1>5 DEF RemoteEnds, Over
<1>6. CASE OnEnded
  BY <1>6 DEF OnEnded
<1>7. CASE ReaderStops
  BY <1>7 DEF ReaderStops
<1>8. CASE SessionCloses
  BY <1>8 DEF SessionCloses
<1>9. CASE Farewell
  BY <1>9 DEF Farewell, Ender, KeepsCall
<1>10. CASE FarewellElapses
  BY <1>10 DEF FarewellElapses, Ender, KeepsCall
<1>11. CASE SessionLost
  BY <1>11 DEF SessionLost, Ender, KeepsCall
<1>12. CASE UNCHANGED vars
  BY <1>12 DEF vars
<1> QED
  BY <1>1, <1>2, <1>3, <1>4, <1>5, <1>6, <1>7, <1>8, <1>9, <1>10, <1>11, <1>12 DEF Next

\* The flags, slots and positions of a call stay in their types.
THEOREM TypeCorrect == Spec => []TypeOK
<1>1. TypeOK /\ [Next]_vars => TypeOK'
  BY FlagsStep, StatesStep DEF TypeOK
<1> QED BY <1>1, TypeInit, PTL DEF Spec

-----------------------------------------------------------------------------
(* One bridge.                                                             *)

\* Who is past the swap of bridge_started keeps everybody else before it.
LEMMA BridgeStep == TypeOK /\ OneBridge /\ [Next]_vars => OneBridge'
<1> SUFFICES ASSUME TypeOK, OneBridge, [Next]_vars PROVE OneBridge'
  OBVIOUS
<1> USE DEF flags, provider
<1>1. CASE MediaOpens
  BY <1>1 DEF MediaOpens, TypeOK, TypeFlags, TypeStates, OneBridge, Activating
<1>2. ASSUME NEW t \in Tasks, ActivateBridge(t) PROVE OneBridge'
  <2> USE <1>2 DEF TypeOK, TypeFlags, TypeStates, OneBridge, Activating, Go, KeepsBridge
  <2>1. CASE StartBridge(t)
    BY <2>1 DEF StartBridge
  <2>2. CASE OpenReader(t)
    BY <2>2 DEF OpenReader
  <2>3. CASE ResetBridge(t)
    BY <2>3 DEF ResetBridge
  <2>4. CASE CheckCodec(t)
    BY <2>4 DEF CheckCodec, GiveUp
  <2>5. CASE OpenWriter(t)
    BY <2>5 DEF OpenWriter
  <2>6. CASE Connect(t)
    BY <2>6 DEF Connect, GiveUp
  <2>7. CASE Attach(t)
    BY <2>7 DEF Attach
  <2>8. CASE Spawn(t)
    BY <2>8 DEF Spawn
  <2> QED BY <2>1, <2>2, <2>3, <2>4, <2>5, <2>6, <2>7, <2>8 DEF ActivateBridge
<1>3. CASE UNCHANGED <<task, bridgeStarted, bridges>>
  BY <1>3 DEF OneBridge, Activating
<1>4. ASSUME NEW e \in Enders, EndStep(e) PROVE UNCHANGED <<task, bridgeStarted, bridges>>
  BY <1>4 DEF EndStep, EndCall, SendEnd, End, EndFails, KeepsCall
<1>5. ASSUME NEW c \in Clients, Hangup(c) PROVE UNCHANGED <<task, bridgeStarted, bridges>>
  BY <1>5 DEF Hangup, KeepsCall
<1> QED
  BY <1>1, <1>2, <1>3, <1>4, <1>5 DEF Next, vars, RemoteEnds, OnEnded, ReaderStops,
     SessionCloses, Farewell, FarewellElapses, SessionLost, KeepsCall

\* However bootstrap_call and the on_media callback interleave their tests of
\* bridge_started, a call gets at most one bridge.
THEOREM SingleBridge == Spec => []OneBridge
<1>1. Init => OneBridge
  BY DEF Init, OneBridge, Activating, Tasks
<1> QED BY <1>1, TypeCorrect, BridgeStep, PTL DEF Spec

-----------------------------------------------------------------------------
(* One BYE.                                                                *)

\* Each party ends the call at most once at a time: the bridge and the watcher
\* are started by the one activation, the farewell by the first request.
StartedOnce ==
    /\ (\E t \in Tasks : Activating(t))
          => ender["bridge"] = "idle" /\ ender["watcher"] = "idle"
    /\ ender["bridge"] # "idle" \/ ender["watcher"] # "idle" => bridgeStarted
    /\ ender["farewell"] # "idle" => endRequested

\* OneBye and FailedByeIsForgotten with what makes them inductive: end_sent is
\* set exactly while a BYE is being sent and after one was sent.
ByeInv ==
    /\ OneBye
    /\ byes = 1 => endSent /\ sip = "ended"
    /\ \A e \in Enders : ender[e] = "end" => endSent
    /\ FailedByeIsForgotten

\* An activation step starts a party only from its idle position.
LEMMA ActivateStarts ==
    ASSUME TypeOK, OneBridge, StartedOnce, NEW t \in Tasks, ActivateBridge(t)
    PROVE  /\ UNCHANGED <<byes, endSent, endRequested, sip>>
           /\ \A e \in Enders : ender'[e] # ender[e] =>
                 ender[e] = "idle" /\ ender'[e] \in {"end_call", "waiting"}
           /\ StartedOnce'
<1> USE DEF TypeOK, TypeFlags, TypeStates, OneBridge, StartedOnce, Activating, Go, KeepsBridge, Enders
<1>1. CASE StartBridge(t)
  BY <1>1 DEF StartBridge
<1>2. CASE OpenReader(t)
  BY <1>2 DEF OpenReader
<1>3. CASE ResetBridge(t)
  BY <1>3 DEF ResetBridge
<1>4. CASE CheckCodec(t)
  BY <1>4 DEF CheckCodec, GiveUp
<1>5. CASE OpenWriter(t)
  BY <1>5 DEF OpenWriter
<1>6. CASE Connect(t)
  BY <1>6 DEF Connect, GiveUp
<1>7. CASE Attach(t)
  BY <1>7 DEF Attach
<1>8. CASE Spawn(t)
  BY <1>8 DEF Spawn, flags
<1> QED BY <1>1, <1>2, <1>3, <1>4, <1>5, <1>6, <1>7, <1>8 DEF ActivateBridge

\* A step in which parties only move between positions outside call.end().
LEMMA ByeQuiet ==
    ASSUME ByeInv, UNCHANGED <<byes, endSent>>, sip = "ended" => sip' = "ended",
           \A e \in Enders : ender'[e] # ender[e] => ender[e] # "end" /\ ender'[e] # "end"
    PROVE  ByeInv'
BY DEF ByeInv, OneBye, FailedByeIsForgotten

\* Every step keeps both parts of the invariant.
LEMMA ByeStep ==
    TypeOK /\ OneBridge /\ StartedOnce /\ ByeInv /\ [Next]_vars => StartedOnce' /\ ByeInv'
<1> SUFFICES ASSUME TypeOK, OneBridge, StartedOnce, ByeInv, [Next]_vars
             PROVE  StartedOnce' /\ ByeInv'
  OBVIOUS
<1> USE DEF flags, provider
<1>1. ASSUME NEW e \in Enders, EndStep(e) PROVE StartedOnce' /\ ByeInv'
  <2>1. StartedOnce'
    BY <1>1 DEF EndStep, EndCall, SendEnd, End, EndFails, KeepsCall, Ender, TypeOK, TypeFlags, TypeStates,
       StartedOnce, Activating, Enders
  <2>2. ByeInv'
    <3> USE <1>1 DEF TypeOK, TypeFlags, TypeStates, ByeInv, OneBye, FailedByeIsForgotten, Ender
    <3>1. CASE EndCall(e)
      BY <3>1 DEF EndCall, KeepsCall
    <3>2. CASE SendEnd(e)
      BY <3>2 DEF SendEnd, KeepsCall
    <3>3. CASE End(e)
      BY <3>3 DEF End, Over
    <3>4. CASE EndFails(e)
      BY <3>4 DEF EndFails
    <3> QED BY <3>1, <3>2, <3>3, <3>4 DEF EndStep
  <2> QED BY <2>1, <2>2
<1>2. ASSUME NEW t \in Tasks, ActivateBridge(t) PROVE StartedOnce' /\ ByeInv'
  BY <1>2, ActivateStarts, ByeQuiet
<1>3. ASSUME NEW c \in Clients, Hangup(c) PROVE StartedOnce' /\ ByeInv'
  <2>1. StartedOnce'
    BY <1>3, CallAssumption DEF Hangup, KeepsCall, Ender, TypeOK, TypeFlags, TypeStates, StartedOnce, Activating, Enders
  <2> QED BY <2>1, <1>3, ByeQuiet DEF Hangup, KeepsCall, Ender, TypeOK, TypeFlags, TypeStates
<1>4. CASE Farewell
  <2>1. ender["farewell"] = "idle"
    BY <1>4 DEF Farewell, StartedOnce
  <2>2. StartedOnce'
    BY <1>4 DEF Farewell, KeepsCall, Ender, TypeOK, TypeFlags, TypeStates, StartedOnce, Activating, Enders
  <2> QED BY <2>1, <2>2, <1>4, ByeQuiet DEF Farewell, KeepsCall, Ender, TypeOK, TypeFlags, TypeStates
<1>5. CASE FarewellElapses
  BY <1>5, ByeQuiet DEF FarewellElapses, KeepsCall, Ender, TypeOK, TypeFlags, TypeStates, StartedOnce, Activating, Enders
<1>6. CASE SessionLost
  BY <1>6, ByeQuiet DEF SessionLost, KeepsCall, Ender, TypeOK, TypeFlags, TypeStates, StartedOnce, Activating, Enders
<1>7. CASE MediaOpens
  BY <1>7, ByeQuiet DEF MediaOpens, TypeOK, TypeFlags, TypeStates, StartedOnce, Activating
<1>8. CASE UNCHANGED <<task, ender, byes, endSent, endRequested, bridgeStarted>>
           /\ (sip = "ended" => sip' = "ended")
  BY <1>8, ByeQuiet DEF StartedOnce, Activating
<1> QED
  BY <1>1, <1>2, <1>3, <1>4, <1>5, <1>6, <1>7, <1>8 DEF Next, vars, RemoteEnds, Over,
     OnEnded, ReaderStops, SessionCloses

\* The invariant holds throughout.
LEMMA ByeInvariant == Spec => [](StartedOnce /\ ByeInv)
<1>1. Init => StartedOnce /\ ByeInv
  BY DEF Init, StartedOnce, ByeInv, OneBye, FailedByeIsForgotten, Activating, Tasks, Enders
<1> QED BY <1>1, TypeCorrect, SingleBridge, ByeStep, PTL DEF Spec

\* Any number of parties that end the call at the same time, some of them
\* again after a failure, send one BYE between them.
THEOREM SingleBye == Spec => []OneBye
<1>1. ByeInv => OneBye
  BY DEF ByeInv
<1> QED BY <1>1, ByeInvariant, PTL

\* end_sent never outlives the attempt that set it, unless its BYE was sent.
THEOREM ByeForgotten == Spec => []FailedByeIsForgotten
<1>1. ByeInv => FailedByeIsForgotten
  BY DEF ByeInv
<1> QED BY <1>1, ByeInvariant, PTL

-----------------------------------------------------------------------------
(* Nobody is forgotten.                                                    *)

\* What becomes of a session: it is handed over to its reader and its watcher,
\* and the watcher leaves it only when it is lost.
SessionInv ==
    /\ media = "none" => task["on_media"] = "idle"
    /\ \A t \in Tasks : task[t] = "connect" => mode = "realtime"
    /\ session # "none" => mode = "realtime"
    /\ \/ session = "none" \/ HandingOver \/ ender["watcher"] = "waiting"
       \/ /\ session = "closed"
          /\ ender["watcher"] = "end_call" \/ endRequested \/ sip = "ended"

PendingInv == EndIsPending /\ ReleaseIsPending /\ SessionInv

LEMMA PendingStep ==
    ASSUME TypeOK, OneBridge, StartedOnce, ByeInv, PendingInv, [Next]_vars
    PROVE  PendingInv'
<1> USE DEF flags, provider, HandingOver, Ending
<1>0. /\ "watcher" \in Enders /\ "bridge" \in Enders /\ "farewell" \in Enders
      /\ faults \in Nat /\ "on_media" \in Tasks
  BY DEF Enders, Tasks, TypeOK, TypeStates
<1>1. ASSUME NEW t \in Tasks, ActivateBridge(t)
      PROVE  PendingInv'
  <2> USE <1>0, <1>1 DEF TypeOK, TypeStates, PendingInv, EndIsPending, ReleaseIsPending,
                     SessionInv, StartedOnce, OneBridge, Activating, Go, KeepsBridge
  <2>1. CASE StartBridge(t)
    BY <2>1 DEF StartBridge
  <2>2. CASE OpenReader(t)
    BY <2>2 DEF OpenReader
  <2>3. CASE ResetBridge(t)
    BY <2>3 DEF ResetBridge
  <2>4. CASE CheckCodec(t)
    BY <2>4 DEF CheckCodec, GiveUp
  <2>5. CASE OpenWriter(t)
    BY <2>5 DEF OpenWriter
  <2>6. CASE Connect(t)
    BY <2>6 DEF Connect, GiveUp
  <2>7. CASE Attach(t)
    BY <2>7 DEF Attach
  <2>8. CASE Spawn(t)
    <3>1. /\ reader' = "running" /\ task' = [task EXCEPT ![t] = "done"]
          /\ UNCHANGED <<mode, sip, media, endRequested, session, closeAsked, faults>>
      BY <2>8 DEF Spawn
    <3>2. /\ mode = "realtime" => ender'["watcher"] = "waiting"
          /\ \A e \in Enders : e # "watcher" => ender'[e] = ender[e]
          /\ ender["watcher"] = "idle"
      BY <2>8 DEF Spawn
    <3>3. EndIsPending'
      BY <3>1, <3>2
    <3>4. ReleaseIsPending'
      BY <3>1
    <3>5. SessionInv'
      <4>1. (media = "none" => task["on_media"] = "idle")'
        <5>1. task[t] = "spawn" /\ (media = "none" => t # "on_media")
          BY <2>8 DEF Spawn
        <5>2. task'["on_media"] = IF t = "on_media" THEN "done" ELSE task["on_media"]
          BY <3>1
        <5> QED
          BY <3>1, <5>1, <5>2
      <4>2. (\A u \in Tasks : task[u] = "connect" => mode = "realtime")'
        BY <3>1
      <4>3. session' = "none" \/ ender'["watcher"] = "waiting"
        BY <3>1, <3>2
      <4> QED
        BY <3>1, <4>1, <4>2, <4>3
    <3> QED
      BY <3>3, <3>4, <3>5
  <2> QED BY <2>1, <2>2, <2>3, <2>4, <2>5, <2>6, <2>7, <2>8 DEF ActivateBridge
<1>2. ASSUME NEW e \in Enders, EndStep(e)
      PROVE  PendingInv'
  <2> USE <1>0, <1>2 DEF TypeOK, TypeFlags, TypeStates, PendingInv, EndIsPending,
          ReleaseIsPending, SessionInv, ByeInv, OneBye, FailedByeIsForgotten, Ender, KeepsCall
  <2>1. CASE EndCall(e)
    BY <2>1 DEF EndCall
  <2>2. CASE SendEnd(e)
    BY <2>2 DEF SendEnd
  <2>3. CASE End(e)
    BY <2>3 DEF End, Over
  <2>4. CASE EndFails(e)
    BY <2>4 DEF EndFails
  <2> QED BY <2>1, <2>2, <2>3, <2>4 DEF EndStep
<1>3. ASSUME NEW c \in Clients, Hangup(c)
      PROVE  PendingInv'
  BY <1>0, <1>3, CallAssumption DEF Hangup, Ender, KeepsCall, Enders, TypeOK, TypeStates,
     PendingInv, EndIsPending, ReleaseIsPending, SessionInv
<1>4. CASE Farewell \/ FarewellElapses \/ SessionLost
  <2> USE <1>0 DEF Ender, KeepsCall, TypeOK, TypeStates, PendingInv, EndIsPending,
          ReleaseIsPending, SessionInv
  <2>1. CASE Farewell
    BY <2>1 DEF Farewell, StartedOnce
  <2>2. CASE FarewellElapses
    BY <2>2 DEF FarewellElapses
  <2>3. CASE SessionLost
    BY <2>3 DEF SessionLost
  <2> QED BY <1>4, <2>1, <2>2, <2>3
<1>5. CASE MediaOpens
  BY <1>5 DEF MediaOpens, TypeOK, TypeStates, PendingInv, EndIsPending, ReleaseIsPending,
     SessionInv
<1>6. CASE RemoteEnds \/ OnEnded \/ ReaderStops \/ SessionCloses \/ UNCHANGED vars
  <2> USE <1>0 DEF TypeOK, TypeFlags, TypeStates, PendingInv, EndIsPending,
          ReleaseIsPending, SessionInv
  <2>1. CASE RemoteEnds
    BY <2>1 DEF RemoteEnds, Over
  <2>2. CASE OnEnded
    BY <2>2 DEF OnEnded
  <2>3. CASE ReaderStops
    BY <2>3 DEF ReaderStops
  <2>4. CASE SessionCloses
    BY <2>4 DEF SessionCloses
  <2>5. CASE UNCHANGED vars
    BY <2>5 DEF vars
  <2> QED BY <1>6, <2>1, <2>2, <2>3, <2>4, <2>5
<1> QED
  BY <1>1, <1>2, <1>3, <1>4, <1>5, <1>6 DEF Next

LEMMA PendingInvariant == Spec => []PendingInv
<1>1. Init => PendingInv
  BY DEF Init, PendingInv, EndIsPending, ReleaseIsPending, SessionInv, Tasks
<1> QED BY <1>1, TypeCorrect, SingleBridge, ByeInvariant, PendingStep, PTL DEF Spec

\* Whichever of the parties that end a call gives way to the others, one of them
\* goes on until the call is over.
THEOREM EndIsNeverForgotten == Spec => []EndIsPending
<1>1. PendingInv => EndIsPending
  BY DEF PendingInv
<1> QED BY <1>1, PendingInvariant, PTL

\* The watcher never leaves a lost session to somebody who is not there.
THEOREM LossIsNeverForgotten == Spec => []LossIsPending
<1>1. PendingInv => LossIsPending
  BY DEF PendingInv, SessionInv, EndIsPending, LossIsPending, Ending, Enders
<1> QED BY <1>1, PendingInvariant, PTL

\* A session is in nobody's hands at no time: activate_realtime_bridge hands it
\* to the audio thread, which closes it.
THEOREM SessionIsNeverForgotten == Spec => []ReleaseIsPending
<1>1. PendingInv => ReleaseIsPending
  BY DEF PendingInv
<1> QED BY <1>1, PendingInvariant, PTL

-----------------------------------------------------------------------------
(* Open media and bridge_started.                                          *)

\* An activation gives up for want of media only before it opens or after it
\* closed; if it opens then, on_media is called.
ResetInv ==
    /\ media = "none" => task["on_media"] = "idle"
    /\ task["on_media"] = "reset" => media = "closed"
    /\ task["bootstrap"] = "reset" /\ media = "open" => task["on_media"] # "idle"

BridgeInv == ResetInv /\ MediaIsPending

LEMMA BridgePendingStep ==
    ASSUME TypeOK, OneBridge, BridgeInv, [Next]_vars
    PROVE  BridgeInv'
<1> USE DEF flags, provider, EndIsWanted
<1>0. /\ "watcher" \in Enders /\ "bridge" \in Enders /\ "farewell" \in Enders
      /\ Tasks = {"bootstrap", "on_media"}
  BY DEF Enders, Tasks
<1>1. ASSUME NEW t \in Tasks, ActivateBridge(t)
      PROVE  BridgeInv'
  <2> USE <1>0, <1>1 DEF TypeOK, TypeFlags, TypeStates, BridgeInv, ResetInv, MediaIsPending,
                     OneBridge, Activating, Go, KeepsBridge
  <2>1. CASE StartBridge(t)
    BY <2>1 DEF StartBridge
  <2>2. CASE OpenReader(t)
    BY <2>2 DEF OpenReader
  <2>3. CASE ResetBridge(t)
    BY <2>3 DEF ResetBridge
  <2>4. CASE CheckCodec(t)
    BY <2>4 DEF CheckCodec, GiveUp
  <2>5. CASE OpenWriter(t)
    BY <2>5 DEF OpenWriter
  <2>6. CASE Connect(t)
    BY <2>6 DEF Connect, GiveUp
  <2>7. CASE Attach(t)
    BY <2>7 DEF Attach
  <2>8. CASE Spawn(t)
    BY <2>8 DEF Spawn
  <2> QED BY <2>1, <2>2, <2>3, <2>4, <2>5, <2>6, <2>7, <2>8 DEF ActivateBridge
<1>2. ASSUME UNCHANGED <<media, bridgeStarted, task, bridges>>, EndIsWanted => EndIsWanted'
      PROVE  BridgeInv'
  BY <1>2 DEF BridgeInv, ResetInv, MediaIsPending, Activating
<1>3. ASSUME UNCHANGED <<bridgeStarted, task, bridges>>, media' = "closed",
             EndIsWanted => EndIsWanted'
      PROVE  BridgeInv'
  BY <1>3 DEF BridgeInv, ResetInv, MediaIsPending, Activating
<1>4. ASSUME NEW e \in Enders, EndStep(e)
      PROVE  BridgeInv'
  <2>1. EndIsWanted => EndIsWanted'
    BY <1>0, <1>4 DEF EndStep, EndCall, SendEnd, End, EndFails, Ender, KeepsCall, TypeOK,
                      TypeStates
  <2>2. CASE End(e)
    BY <1>3, <2>1, <2>2 DEF End, Over
  <2>3. CASE EndCall(e) \/ SendEnd(e) \/ EndFails(e)
    BY <1>2, <2>1, <2>3 DEF EndCall, SendEnd, EndFails, KeepsCall
  <2> QED BY <1>4, <2>2, <2>3 DEF EndStep
<1>5. ASSUME NEW c \in Clients, Hangup(c)
      PROVE  BridgeInv'
  <2>1. EndIsWanted'
    BY <1>5 DEF Hangup, Ender, KeepsCall, Enders, TypeOK, TypeStates
  <2> QED BY <1>2, <1>5, <2>1 DEF Hangup, KeepsCall
<1>6. CASE Farewell \/ FarewellElapses \/ SessionLost
  <2>1. EndIsWanted => EndIsWanted'
    BY <1>0, <1>6 DEF Farewell, FarewellElapses, SessionLost, Ender, KeepsCall, TypeOK,
                      TypeStates
  <2> QED BY <1>2, <1>6, <2>1 DEF Farewell, FarewellElapses, SessionLost, KeepsCall
<1>7. CASE MediaOpens
  BY <1>0, <1>7 DEF MediaOpens, TypeOK, TypeStates, BridgeInv, ResetInv, MediaIsPending,
     Activating
<1>8. CASE RemoteEnds
  BY <1>3, <1>8 DEF RemoteEnds, Over
<1>9. CASE OnEnded \/ ReaderStops \/ SessionCloses \/ UNCHANGED vars
  BY <1>2, <1>9 DEF OnEnded, ReaderStops, SessionCloses, vars
<1> QED
  BY <1>1, <1>4, <1>5, <1>6, <1>7, <1>8, <1>9 DEF Next

\* Media that opens is only missed by an on_media that is turned away by an
\* activation which is about to clear bridge_started: the run call_media shows
\* that this happens, and nothing else does.
THEOREM MediaIsRarelyMissed == Spec => []MediaIsPending
<1>1. Init => BridgeInv
  BY DEF Init, BridgeInv, ResetInv, MediaIsPending, Tasks
<1>2. BridgeInv => MediaIsPending
  BY DEF BridgeInv
<1> QED BY <1>1, <1>2, TypeCorrect, SingleBridge, BridgePendingStep, PTL DEF Spec
=============================================================================
