------------------------ MODULE JanusWebSocketProof ------------------------
(***************************************************************************)
(* Proofs about the signalling connection: JanusWebSocket for all values   *)
(* of PingInterval, PingTimeout and MaxKeepalives, and PromptServer for    *)
(* all intervals and delays that satisfy DelayAssumption.                  *)
(***************************************************************************)
EXTENDS PromptServer, TLAPS

\* A timer that runs was started with its interval.
TimersSet ==
    /\ Active(pPingTimer) => pPingTimer.interval = PingInterval
    /\ Active(pPingTimeOutTimer) => pPingTimeOutTimer.interval = PingTimeout

\* While a connection is being made or is up, the ping timer runs.
PingRuns == sock \in {"Connecting", "Connected"} => Active(pPingTimer)

\* Nothing of a connection outlives it.
NothingOutlives ==
    sock # "Connected" => keepalives = 0 /\ silence = 0 /\ ~creating

\* The time left on the running timers, added to the silence so far, is what
\* bounds the silence from above and (unless inherited) from below.
SilenceBudget ==
    sock = "Connected" =>
        IF Active(pPingTimeOutTimer)
        THEN /\ silence + pPingTimeOutTimer.left <= PingInterval + PingTimeout
             /\ ~inherited => silence + pPingTimeOutTimer.left >= PingTimeout
        ELSE silence + pPingTimer.left <= PingInterval

IInv ==
    /\ TypeOK
    /\ TimersSet
    /\ PingRuns
    /\ NothingOutlives
    /\ AckFindsArmedTimer
    /\ SilenceBudget

-----------------------------------------------------------------------------

LEMMA InitIInv == Init => IInv
<1>1. Init => FlagsOK
    BY Zenon DEF Init, FlagsOK
<1>2. QED
    BY <1>1, PingAssumption, KeepaliveAssumption
       DEF Init, IInv, TypeOK, TimersSet, PingRuns, NothingOutlives,
           AckFindsArmedTimer, SilenceBudget, SocketState, SessionId, Timer,
           NewTimer, Active

LEMMA StepFlags == FlagsOK /\ [Next]_vars => FlagsOK'
BY Zenon DEF FlagsOK, Next, Event, vars, Open, Close, Destroy, CloseSocket,
    ConnectionLost, onWebSocketConnected, onWebSocketDisConnected,
    onCreateSessionId, onPingTimer, onPingTimeout, onHeartBeat, Tick, Active

LEMMA StepIInv == IInv /\ [Next]_vars => IInv'
<1> SUFFICES ASSUME IInv, [Next]_vars PROVE IInv'
    OBVIOUS
<1>0. FlagsOK'
    BY StepFlags DEF IInv, TypeOK
<1> USE <1>0, PingAssumption, KeepaliveAssumption
<1> USE DEF IInv, TypeOK, TimersSet, PingRuns, NothingOutlives,
        AckFindsArmedTimer, SilenceBudget, SocketState, SessionId, Timer, Active
<1>1. CASE Open
    BY <1>1 DEF Open, ConnectionLost, StartFor
<1>2. CASE Close
    BY <1>2 DEF Close, CloseSocket, ConnectionLost, StopBothTimers, Stop
<1>3. CASE Destroy
    BY <1>3 DEF Destroy, NewTimer
<1>4. CASE onWebSocketConnected
  <2>1. ~inherited' => ~Active(pPingTimeOutTimer)
      BY <1>4, Zenon DEF onWebSocketConnected
  <2>2. QED
      BY <1>4, <2>1 DEF onWebSocketConnected
<1>5. CASE onWebSocketDisConnected
    BY <1>5 DEF onWebSocketDisConnected, ConnectionLost
<1>6. CASE onCreateSessionId
    BY <1>6 DEF onCreateSessionId
<1>7. CASE onPingTimer
  <2>1. CASE sock = "Connected"
      BY <1>7, <2>1
         DEF onPingTimer, Due, Start, StartFor, ArmTimeOut, SendKeepalive
  <2>2. CASE sock # "Connected"
      BY <1>7, <2>2 DEF onPingTimer, Due, Start, Stop
  <2>3. QED BY <2>1, <2>2
<1>8. CASE onPingTimeout
    BY <1>8 DEF onPingTimeout, CloseSocket, ConnectionLost, StopBothTimers, Stop
<1>9. CASE onHeartBeat
    BY <1>9 DEF onHeartBeat, ResetTimer, Start, Stop
<1>10. CASE Tick
    BY <1>10 DEF Tick, Due, Elapse, SilenceCap
<1>11. CASE UNCHANGED vars
    BY <1>11 DEF vars
<1>12. QED
    BY <1>1, <1>2, <1>3, <1>4, <1>5, <1>6, <1>7, <1>8, <1>9, <1>10, <1>11
       DEF Next, Event

LEMMA AlwaysIInv == Init /\ [][Next]_vars => []IInv
BY InitIInv, StepIInv, PTL

\* The model's variables keep their types, whatever the order of timers,
\* messages, drops and re-logins.
THEOREM TypeCorrect == Spec => []TypeOK
<1>1. IInv => TypeOK
    BY DEF IInv
<1>2. QED
    BY <1>1, AlwaysIInv, PTL DEF Spec

\* No connection stays up unacknowledged for more than PingInterval + PingTimeout.
THEOREM SilenceIsBounded == Spec => []SilenceBounded
<1>1. IInv => SilenceBounded
    BY PingAssumption
       DEF IInv, TypeOK, Timer, Active, TimersSet, SilenceBudget, SilenceBounded
<1>2. QED
    BY <1>1, AlwaysIInv, PTL DEF Spec

\* Whenever an ack can still arrive, the timer it restarts runs with PingTimeout.
THEOREM AckIsSafe == Spec => []AckFindsArmedTimer
<1>1. IInv => AckFindsArmedTimer
    BY DEF IInv
<1>2. QED
    BY <1>1, AlwaysIInv, PTL DEF Spec

\* onPingTimeout closes a connection that started with a quiet time-out timer
\* only after PingTimeout ticks without an ack.
THEOREM TimeoutIsDeserved == Spec => TimeoutMeansSilence
<1>1. IInv /\ [Next]_vars =>
        [onPingTimeout /\ sock = "Connected" /\ ~inherited => silence >= PingTimeout]_vars
    BY PingAssumption
       DEF IInv, TypeOK, Timer, Active, SilenceBudget, onPingTimeout, Due
<1>2. QED
    BY <1>1, AlwaysIInv, PTL DEF Spec, TimeoutMeansSilence

-----------------------------------------------------------------------------
(* While the server is prompt the heartbeat never closes a connection that *)
(* started with a quiet time-out timer.                                    *)

\* The session is asked for when the connection comes up, and keepalives that
\* can be acknowledged carry it.
SessionComes ==
    /\ sock = "Connected" => creating \/ mSessionId = "live"
    /\ mSessionId = "live" => sock = "Connected" /\ ~creating
    /\ keepalives > 0 => mSessionId = "live"

\* The ages of requests stay within what a prompt server allows.
WaitsBounded == createWait \in 0..Delay /\ ackWait \in 0..Delay

\* Enough is left on the time-out for the ack to arrive first: for the ack that is
\* on its way, or else for the next keepalive and its ack.  A session that is
\* still missing will be there before that next keepalive.
AckWins ==
    prompt /\ sock = "Connected" /\ ~inherited /\ Active(pPingTimeOutTimer) =>
        IF keepalives > 0
        THEN pPingTimeOutTimer.left + ackWait > Delay
        ELSE /\ pPingTimeOutTimer.left > pPingTimer.left + Delay
             /\ creating => createWait + pPingTimer.left >= PingInterval

PInv == IInv /\ WaitsBounded /\ SessionComes /\ AckWins

LEMMA InitPInv == PInit => PInv
<1>1. PInit => IInv
    BY InitIInv DEF PInit
<1>2. PInit => SessionComes /\ AckWins
    BY DEF PInit, Init, SessionComes, AckWins
<1>3. PInit => WaitsBounded
    BY DelayAssumption DEF PInit, WaitsBounded
<1>4. QED
    BY <1>1, <1>2, <1>3 DEF PInv

LEMMA PNextIsNext == [PNext]_pvars => [Next]_vars
BY DEF PNext, PEvent, PTick, Hang, Next, pvars, vars

LEMMA StepWaits ==
    ASSUME PInv, [PNext]_pvars
    PROVE  WaitsBounded'
<1> USE DelayAssumption DEF PInv, WaitsBounded
<1>1. CASE PEvent
    BY <1>1 DEF PEvent
<1>2. CASE PTick
    BY <1>2 DEF PTick
<1>3. CASE UNCHANGED pvars
    BY <1>3 DEF pvars
<1>4. CASE Hang
    BY <1>4 DEF Hang
<1>5. QED
    BY <1>1, <1>2, <1>3, <1>4 DEF PNext

LEMMA StepSession == PInv /\ [Next]_vars => SessionComes'
<1> SUFFICES ASSUME PInv, [Next]_vars PROVE SessionComes'
    OBVIOUS
<1> USE PingAssumption, KeepaliveAssumption
<1> USE DEF PInv, IInv, NothingOutlives, SessionComes, TypeOK, SocketState, SessionId
<1>1. CASE Open \/ onWebSocketDisConnected \/ Close \/ onPingTimeout
    BY <1>1 DEF Open, onWebSocketDisConnected, Close, onPingTimeout,
                CloseSocket, ConnectionLost
<1>2. CASE Destroy
    BY <1>2 DEF Destroy
<1>3. CASE onWebSocketConnected
    BY <1>3 DEF onWebSocketConnected
<1>4. CASE onCreateSessionId
    BY <1>4 DEF onCreateSessionId
<1>5. CASE onPingTimer
    BY <1>5 DEF onPingTimer, SendKeepalive
<1>6. CASE onHeartBeat
    BY <1>6 DEF onHeartBeat
<1>7. CASE Tick
    BY <1>7 DEF Tick
<1>8. CASE UNCHANGED vars
    BY <1>8 DEF vars
<1>9. QED
    BY <1>1, <1>2, <1>3, <1>4, <1>5, <1>6, <1>7, <1>8 DEF Next, Event

LEMMA StepAckWins == PInv /\ [PNext]_pvars => AckWins'
<1> SUFFICES ASSUME PInv, [PNext]_pvars PROVE AckWins'
    OBVIOUS
<1> USE PingAssumption, KeepaliveAssumption, DelayAssumption
<1> USE DEF PInv, WaitsBounded, IInv, TypeOK, Timer, TimersSet, PingRuns,
        NothingOutlives, SessionComes, AckWins, Active
<1>1. ASSUME PEvent PROVE AckWins'
  <2> USE <1>1 DEF PEvent
  <2>1. CASE Open \/ onWebSocketDisConnected \/ Close \/ onPingTimeout
      BY <2>1 DEF Open, onWebSocketDisConnected, Close, onPingTimeout,
                  CloseSocket, ConnectionLost
  <2>2. CASE Destroy
      BY <2>2 DEF Destroy
  <2>3. CASE onWebSocketConnected
    <3>1. ~inherited' => ~Active(pPingTimeOutTimer)
        BY <2>3, Zenon DEF onWebSocketConnected
    <3>2. QED
        BY <2>3, <3>1 DEF onWebSocketConnected
  <2>4. CASE onCreateSessionId
      BY <2>4 DEF onCreateSessionId
  <2>5. CASE onPingTimer
    <3>1. CASE sock = "Connected"
        BY <2>5, <3>1 DEF onPingTimer, Due, Start, StartFor, ArmTimeOut, SendKeepalive
    <3>2. CASE sock # "Connected"
        BY <2>5, <3>2 DEF onPingTimer
    <3>3. QED BY <3>1, <3>2
  <2>6. CASE onHeartBeat
      BY <2>6 DEF onHeartBeat, ResetTimer, Start, Stop, AckFindsArmedTimer
  <2>7. QED
      BY <2>1, <2>2, <2>3, <2>4, <2>5, <2>6 DEF Event
<1>2. CASE PTick
    BY <1>2 DEF PTick, Tick, Elapse, Due
<1>3. CASE UNCHANGED pvars
    BY <1>3 DEF pvars, vars
<1>4. CASE Hang
    BY <1>4 DEF Hang
<1>5. QED
    BY <1>1, <1>2, <1>3, <1>4 DEF PNext

LEMMA StepPInv == PInv /\ [PNext]_pvars => PInv'
<1> SUFFICES ASSUME PInv, [PNext]_pvars PROVE PInv'
    OBVIOUS
<1>1. [Next]_vars
    BY PNextIsNext
<1>2. IInv'
    BY <1>1, StepIInv DEF PInv
<1>3. WaitsBounded'
    BY StepWaits
<1>4. QED
    BY <1>1, <1>2, <1>3, StepSession, StepAckWins DEF PInv

\* A prompt server keeps its connection: until the server hangs, onPingTimeout never
\* closes a connection that found the time-out timer quiet.
THEOREM PromptServerIsKept == PSpec => HealthyStaysUp
<1>1. PInv /\ [PNext]_pvars =>
        [~(onPingTimeout /\ sock = "Connected" /\ ~inherited /\ prompt)]_pvars
    BY PingAssumption, DelayAssumption
       DEF PInv, WaitsBounded, IInv, TypeOK, Timer, TimersSet, PingRuns, AckWins,
           Active, onPingTimeout, Due
<1>2. QED
    BY <1>1, InitPInv, StepPInv, PTL DEF PSpec, HealthyStaysUp
=============================================================================
