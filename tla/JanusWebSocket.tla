--------------------------- MODULE JanusWebSocket ---------------------------
(***************************************************************************)
(* The signalling connection: class JanusWebSocket (a QWebSocket and two   *)
(* repeating QTimers) together with the callbacks JanusVideoRoomManager    *)
(* registers on it (session creation and the "keepalive" heartbeat).       *)
(*                                                                         *)
(* pPingTimer, started by Open, sends a keepalive every PingInterval.      *)
(* pPingTimeOutTimer is armed by the first keepalive of a connection,      *)
(* restarted by every "ack", and closes the connection when it expires.    *)
(*                                                                         *)
(* Time advances by Tick.  A due timer fires before time goes on (the      *)
(* event loop is not blocked); everything due at one instant fires in any  *)
(* order, and any message may arrive between two of those.                 *)
(***************************************************************************)
EXTENDS Integers

CONSTANTS
    PingInterval,   \* ticks between keepalives (pingInterval, 25000 ms)
    PingTimeout,    \* ticks without an ack before closing (pingTimeout, 60000 ms)
    MaxKeepalives   \* unanswered keepalives are counted up to this bound

ASSUME PingAssumption ==
    /\ PingInterval \in Nat \ {0}
    /\ PingTimeout \in Nat \ {0}
    /\ PingInterval < PingTimeout

ASSUME KeepaliveAssumption == MaxKeepalives \in Nat \ {0}

VARIABLES
    sock,               \* pWebSocket->state()
    pPingTimer,
    pPingTimeOutTimer,
    mSessionId,         \* the manager's session id, relative to the connection
    creating,           \* the answer to this connection's "create" is pending
    keepalives,         \* keepalives of this connection the server may yet ack
    silence,            \* history: ticks connected since connected() or an ack
    inherited           \* history: the time-out timer was already running when
                        \* this connection was made, and no ack came since

vars == <<sock, pPingTimer, pPingTimeOutTimer, mSessionId, creating,
          keepalives, silence, inherited>>

SocketState == {"Unconnected", "Connecting", "Connected", "Closing"}

\* mSessionId is 0 ("none"), the id of a session that went away with an earlier
\* connection ("stale"), or the id of this connection's session ("live").
SessionId == {"none", "stale", "live"}

\* A timer that is only ever started for n ticks.
Timer(n) == [left : -1..n, interval : {0, n}]

FlagsOK == creating \in BOOLEAN /\ inherited \in BOOLEAN

TypeOK ==
    /\ sock \in SocketState
    /\ pPingTimer \in Timer(PingInterval)
    /\ pPingTimeOutTimer \in Timer(PingTimeout)
    /\ mSessionId \in SessionId
    /\ keepalives \in 0..MaxKeepalives
    /\ silence \in Nat
    /\ FlagsOK

-----------------------------------------------------------------------------
(* QTimer: a repeating timer.  left is remainingTime(), -1 when stopped; a  *)
(* stopped timer remembers its interval.                                   *)

NewTimer == [left |-> -1, interval |-> 0]
StartFor(n) == [left |-> n, interval |-> n]
Start(t) == [left |-> t.interval, interval |-> t.interval]
Stop(t) == [left |-> -1, interval |-> t.interval]
Active(t) == t.left # -1
Due(t) == t.left = 0
Elapse(t) == [left |-> IF Active(t) THEN t.left - 1 ELSE -1, interval |-> t.interval]

-----------------------------------------------------------------------------

Init ==
    /\ sock = "Unconnected"
    /\ pPingTimer = NewTimer
    /\ pPingTimeOutTimer = NewTimer
    /\ mSessionId = "none"
    /\ creating = FALSE
    /\ keepalives = 0
    /\ silence = 0
    /\ inherited = FALSE

\* The connection is gone: so are its session on the server and every answer
\* that was still to come.  onSocketDisConnected itself changes nothing.
ConnectionLost ==
    /\ mSessionId' = IF mSessionId = "live" THEN "stale" ELSE mSessionId
    /\ creating' = FALSE
    /\ keepalives' = 0
    /\ silence' = 0
    /\ inherited' = FALSE

\* Plausible error: the ping timer is started with the other interval.
Open_timeout ==
    /\ sock' = "Connecting"
    /\ pPingTimer' = StartFor(PingTimeout)
    /\ ConnectionLost
    /\ UNCHANGED pPingTimeOutTimer

\* Open: QWebSocket::open silently drops whatever connection the socket had.
\* pPingTimeOutTimer is left as it is.
Open ==
    /\ sock' = "Connecting"
    /\ pPingTimer' = StartFor(PingInterval)
    /\ ConnectionLost
    /\ UNCHANGED pPingTimeOutTimer

\* pWebSocket->close(): the socket delivers nothing any more.
CloseSocket ==
    /\ sock' = IF sock = "Unconnected" THEN sock ELSE "Closing"
    /\ ConnectionLost

StopBothTimers ==
    /\ pPingTimer' = Stop(pPingTimer)
    /\ pPingTimeOutTimer' = Stop(pPingTimeOutTimer)

Close == CloseSocket /\ StopBothTimers

\* Logout deletes the manager and its socket; the next GetInstance makes new ones.
Destroy ==
    /\ sock' = "Unconnected"
    /\ pPingTimer' = NewTimer
    /\ pPingTimeOutTimer' = NewTimer
    /\ mSessionId' = "none"
    /\ creating' = FALSE
    /\ keepalives' = 0
    /\ silence' = 0
    /\ inherited' = FALSE

\* connected(): onSocketConnected sends "create".
onWebSocketConnected ==
    /\ sock = "Connecting"
    /\ sock' = "Connected"
    /\ creating' = TRUE
    /\ inherited' = Active(pPingTimeOutTimer)
    /\ UNCHANGED <<pPingTimer, pPingTimeOutTimer, mSessionId, keepalives, silence>>

\* disconnected() or error(): the server, the network or our own close() ended
\* the connection.  The timers go on.
onWebSocketDisConnected ==
    /\ sock # "Unconnected"
    /\ sock' = "Unconnected"
    /\ ConnectionLost
    /\ UNCHANGED <<pPingTimer, pPingTimeOutTimer>>

\* janus "success" for our "create".
onCreateSessionId ==
    /\ sock = "Connected"
    /\ creating
    /\ creating' = FALSE
    /\ mSessionId' = "live"
    /\ UNCHANGED <<sock, pPingTimer, pPingTimeOutTimer, keepalives, silence, inherited>>

\* onWebSocketHeartBeatMessage: the server acks a keepalive only if it knows
\* the session; the "error" it answers otherwise is ignored.
SendKeepalive ==
    keepalives' = IF mSessionId = "live" /\ keepalives < MaxKeepalives
                  THEN keepalives + 1 ELSE keepalives

\* Plausible errors: the time-out is restarted at every keepalive, or never armed.
ArmTimeOut_always == pPingTimeOutTimer' = StartFor(PingTimeout)
ArmTimeOut_never == UNCHANGED pPingTimeOutTimer

ArmTimeOut ==
    pPingTimeOutTimer' = IF Active(pPingTimeOutTimer)
                         THEN pPingTimeOutTimer ELSE StartFor(PingTimeout)

onPingTimer ==
    /\ Due(pPingTimer)
    /\ pPingTimer' = Start(pPingTimer)
    /\ \/ /\ sock = "Connected"
          /\ ArmTimeOut
          /\ SendKeepalive
       \/ /\ sock # "Connected"
          /\ pPingTimeOutTimer' = Stop(pPingTimeOutTimer)
          /\ UNCHANGED keepalives
    /\ UNCHANGED <<sock, mSessionId, creating, silence, inherited>>

\* No callback is registered for the time-out.
onPingTimeout == Due(pPingTimeOutTimer) /\ CloseSocket /\ StopBothTimers

\* Plausible errors: the ack leaves the time-out alone, or stops it for good.
ResetTimer_missing == UNCHANGED pPingTimeOutTimer
ResetTimer_stopOnly == pPingTimeOutTimer' = Stop(pPingTimeOutTimer)

ResetTimer == pPingTimeOutTimer' = Start(Stop(pPingTimeOutTimer))

\* janus "ack" for a keepalive.  At the bound the count stands for "that many
\* or more", so it may stay there.
onHeartBeat ==
    /\ sock = "Connected"
    /\ keepalives > 0
    /\ \/ keepalives' = keepalives - 1
       \/ keepalives = MaxKeepalives /\ UNCHANGED keepalives
    /\ ResetTimer
    /\ silence' = 0
    /\ inherited' = FALSE
    /\ UNCHANGED <<sock, pPingTimer, mSessionId, creating>>

\* The history counts silence up to one tick more than should ever be seen.
SilenceCap == PingInterval + PingTimeout + 1

Tick ==
    /\ ~Due(pPingTimer)
    /\ ~Due(pPingTimeOutTimer)
    /\ pPingTimer' = Elapse(pPingTimer)
    /\ pPingTimeOutTimer' = Elapse(pPingTimeOutTimer)
    /\ silence' = IF sock = "Connected" /\ silence < SilenceCap THEN silence + 1 ELSE silence
    /\ UNCHANGED <<sock, mSessionId, creating, keepalives, inherited>>

Event ==
    \/ Open
    \/ Close
    \/ Destroy
    \/ onWebSocketConnected
    \/ onWebSocketDisConnected
    \/ onCreateSessionId
    \/ onPingTimer
    \/ onPingTimeout
    \/ onHeartBeat

Next == Event \/ Tick

\* Time passes and a due timer's slot runs; nothing is assumed of the user,
\* of the network or of the server.
Fairness == WF_vars(Tick) /\ WF_vars(onPingTimer) /\ WF_vars(onPingTimeout)

Spec == Init /\ [][Next]_vars /\ Fairness

-----------------------------------------------------------------------------

\* A connection the server has stopped acknowledging does not stay up longer
\* than one ping interval (until the first keepalive arms the time-out) plus
\* the time-out: onPingTimer, onHeartBeat/ResetTimer and onPingTimeout together
\* bound how long a dead connection looks alive.
SilenceBounded ==
    sock = "Connected" => silence <= PingInterval + PingTimeout

\* A connection is closed by onPingTimeout only after PingTimeout ticks without
\* an ack, unless it found pPingTimeOutTimer already running (see the README on
\* re-login): neither a slow connect, nor a session created late, nor the order
\* of acks and keepalives makes it expire early.
TimeoutMeansSilence ==
    [][onPingTimeout /\ sock = "Connected" /\ ~inherited => silence >= PingTimeout]_vars

\* Every time-out, on any connection, follows PingTimeout ticks of silence: what
\* JanusWebSocket.h:59 says of onPingTimeout ("called when the connection times
\* out").  Refuted: Open leaves pPingTimeOutTimer running.
TimeoutOnlyWhenTimedOut ==
    [][onPingTimeout /\ sock = "Connected" => silence >= PingTimeout]_vars

\* ResetTimer restarts the timer with the interval it was last started with, so
\* an ack must never reach a timer that was never armed: started with interval 0
\* it would expire at once and close the connection that was just confirmed.
AckFindsArmedTimer ==
    keepalives > 0 => Active(pPingTimeOutTimer) /\ pPingTimeOutTimer.interval = PingTimeout

\* A connection does not stay up unacknowledged for ever: again and again it is
\* down or has just been acked (or just made).
SilenceEnds == []<>(sock # "Connected" \/ silence = 0)

=============================================================================
