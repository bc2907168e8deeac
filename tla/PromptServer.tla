---------------------------- MODULE PromptServer ----------------------------
(***************************************************************************)
(* The connection of JanusWebSocket with a server that is well until it    *)
(* hangs, if it does: up to then it answers "create" and every keepalive   *)
(* of a session it knows within Delay ticks, from then on at any time or   *)
(* never, which is JanusWebSocket as it stands.  When the socket connects  *)
(* or drops, when the user logs in again, and where in the ping interval   *)
(* the connection comes up is left to the environment.                     *)
(***************************************************************************)
EXTENDS JanusWebSocket

CONSTANT Delay      \* ticks within which the server answers

ASSUME DelayAssumption ==
    /\ Delay \in Nat
    /\ Delay < PingInterval
    /\ PingInterval + Delay < PingTimeout

VARIABLES
    prompt,         \* the server has not hung
    createWait,     \* age of the unanswered "create", while the server is prompt
    ackWait         \* age of the oldest unanswered keepalive, likewise

pvars == <<vars, prompt, createWait, ackWait>>

PInit == Init /\ prompt = TRUE /\ createWait = 0 /\ ackWait = 0

\* A request that stays unanswered keeps its age.
PEvent ==
    /\ Event
    /\ createWait' = IF creating /\ creating' THEN createWait ELSE 0
    /\ ackWait' = IF 0 < keepalives /\ keepalives <= keepalives' THEN ackWait ELSE 0
    /\ UNCHANGED prompt

\* Time does not pass Delay while an answer of a prompt server is outstanding.
PTick ==
    /\ Tick
    /\ prompt /\ creating => createWait < Delay
    /\ prompt /\ keepalives > 0 => ackWait < Delay
    /\ createWait' = IF prompt /\ creating THEN createWait + 1 ELSE 0
    /\ ackWait' = IF prompt /\ keepalives > 0 THEN ackWait + 1 ELSE 0
    /\ UNCHANGED prompt

\* The server stops answering, without closing the connection.
Hang ==
    /\ prompt /\ prompt' = FALSE
    /\ createWait' = 0 /\ ackWait' = 0
    /\ UNCHANGED vars

PNext == PEvent \/ PTick \/ Hang

\* Time passes: a prompt server answers before it would have to stop.
PSpec == PInit /\ [][PNext]_pvars /\ Fairness

\* As long as the server is prompt no connection that started with a quiet time-out timer is
\* ever closed by onPingTimeout, although the first keepalive may carry session
\* id 0 or the previous session's (and is then answered by an error the client
\* ignores): the first keepalive with the live id is sent, acknowledged and
\* handled by onHeartBeat before the timer armed by the first one expires.
HealthyStaysUp ==
    [][~(onPingTimeout /\ sock = "Connected" /\ ~inherited /\ prompt)]_pvars
=============================================================================
