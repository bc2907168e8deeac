----------------------------- MODULE VideoCall -----------------------------
(***************************************************************************)
(* The video call: JanusVideoRoomManager and ConferenceManager together.   *)
(* Each step is one slot or callback with the calls it makes into the      *)
(* other component: an event of the server that reaches the streams, a     *)
(* queued signal of a stream that reaches the server, a click of the user  *)
(* that reaches both (WebRTCInterface, MainWindow).                        *)
(***************************************************************************)
EXTENDS JanusVideoRoomManager

CONSTANTS NumWindows, MaxMaking, MaxPosted

ASSUME CallAssumption ==
    NumWindows \in Nat /\ MaxMaking \in Nat \ {0} /\ MaxPosted \in Nat \ {0}

VARIABLES mRemoteWinds, streams, posted, orphans,
    wire    \* history: what the server has been sent on each handle

CM == INSTANCE ConferenceManager WITH Handles <- PluginHandles, NoHandle <- 0

cmVars == <<mRemoteWinds, streams, posted, orphans>>
callVars == <<vmVars, cmVars, wire>>

\* nothing, a description, a description and then "completed"; or a candidate
\* without a description or after "completed"; or a request that does not fit
\* its description; or something from a peer the handle is not of (stray).
WireState == {"nothing", "described", "completed", "disordered", "confused", "stray"}

CallInit ==
    /\ VMInit
    /\ CM!CMInit
    /\ wire = [h \in PluginHandles |-> "nothing"]

-----------------------------------------------------------------------------
(* The user.                                                               *)

\* A session that is gone takes its handles with it.
NewWire == wire' = [h \in PluginHandles |-> "nothing"]

Login == ConnectServer /\ CM!SetVideoWindows /\ NewWire

Logout == VMLogout /\ CM!CMLogout /\ NewWire

Join == JoinVideoRoom /\ UNCHANGED <<cmVars, wire>>

Leave == CM!CMLeaveVideoRoom /\ VMLeaveVideoRoom /\ UNCHANGED wire

-----------------------------------------------------------------------------
(* The server.                                                             *)

Dropped == onSocketDisConnected /\ NewWire /\ UNCHANGED cmVars

SessionCreated == onCreateSessionId /\ UNCHANGED <<cmVars, wire>>

AttachAnswered == (\E c \in callbacks : onAttachVideoRoomJoin(c)) /\ UNCHANGED <<cmVars, wire>>

\* OnConnectToPeer only for a handle some listed peer has, those just made included.
EventJoined(h) ==
    /\ \E feeds \in SUBSET Feeds : onVideoRoomEventJoin(h, feeds)
    /\ \/ HasPeer(h)' /\ CM!ConnectToPeer_VideoAudio(h)
       \/ ~HasPeer(h)' /\ UNCHANGED cmVars
    /\ UNCHANGED wire

EventPublishers(h) ==
    /\ \E f \in Feeds : onVideoRoomEventPublisher(h, f)
    /\ UNCHANGED <<cmVars, wire>>

\* OnRemoteStreamRemove with the peer's handle, which may not be its own yet.
EventUnpublished(h, f) ==
    /\ onVideoRoomEventUnpublish(h, f)
    /\ \/ /\ SubscriberIndex(f) # 0
          /\ CM!onRemoteStreamRemove(peers[mVideoRoomPeerList[SubscriberIndex(f)]].handle)
       \/ SubscriberIndex(f) = 0 /\ UNCHANGED cmVars
    /\ UNCHANGED wire

EventJsep(h) ==
    /\ \E type \in {"offer", "answer"} : EventSdp(h, type) /\ CM!onRetmoeSDP(h, type)
    /\ UNCHANGED wire

-----------------------------------------------------------------------------
(* The streams.                                                            *)

SignalingThread(h) == CM!SignalingThread(h) /\ UNCHANGED <<vmVars, wire>>

\* What the server has seen on handle h once a message of this kind arrived.
\* JanusPeerConnection::SendSDP says "configure" for a publisher and "start" for
\* a subscriber; SendCandidate says "completed" at the end.
Wired(h, kind) ==
    LET publisher == \E b \in Route(h) : peers[b].sub = NoFeed
        stray == wire[h] = "stray" \/ \E b \in Route(h) : ~Answered(b)
    IN  CASE stray -> "stray"
          [] ~stray /\ kind \in {"offer", "answer"} /\ (publisher <=> kind = "offer") ->
               IF wire[h] = "nothing" THEN "described" ELSE wire[h]
          [] ~stray /\ kind \in {"offer", "answer"} /\ ~(publisher <=> kind = "offer") -> "confused"
          [] ~stray /\ kind = "candidate" -> IF wire[h] = "described" THEN wire[h] ELSE "disordered"
          [] ~stray /\ kind = "end" -> IF wire[h] = "described" THEN "completed" ELSE "disordered"

\* A queued signal is handled: dropped if its handle is in no map, dropped by the
\* manager if no listed peer has it, sent otherwise.
TakeSignal ==
    /\ CM!TakeSignal
    /\ LET s == Head(posted)
       IN  \/ /\ CM!InMap(s.id)
              /\ IF s.kind \in {"offer", "answer"} THEN SendSDP(s.id) ELSE UNCHANGED vmVars
              /\ wire' = IF Reaches(s.id)
                         THEN [wire EXCEPT ![s.id] = Wired(s.id, s.kind)] ELSE wire
           \/ /\ ~CM!InMap(s.id)
              /\ UNCHANGED <<vmVars, wire>>

-----------------------------------------------------------------------------

CallNext ==
    \/ Login
    \/ Logout
    \/ Join
    \/ Leave
    \/ Dropped
    \/ SessionCreated
    \/ AttachAnswered
    \/ \E h \in PluginHandles :
         \/ EventJoined(h)
         \/ EventPublishers(h)
         \/ \E f \in Feeds : EventUnpublished(h, f)
         \/ EventJsep(h)
         \/ SignalingThread(h)
    \/ TakeSignal

CallSpec == CallInit /\ [][CallNext]_callVars

\* The signaling thread finishes what a peer connection was asked for (strongly
\* fair, as only the bound on the queue keeps it from posting), and the main
\* thread handles what is queued.
CallFairness ==
    /\ \A h \in PluginHandles :
         SF_callVars((CM!OnSuccess(h) \/ CM!OnFailure(h)) /\ UNCHANGED <<vmVars, wire>>)
    /\ WF_callVars(TakeSignal)

FairCallSpec == CallSpec /\ CallFairness

-----------------------------------------------------------------------------

\* On every handle the server gets the description first, then the candidates, then
\* "completed" and no candidate after it, although signals are queued with
\* nothing but a handle and streams are removed and made again under it.  (As
\* long as no peer made in the memory of a deleted one sends on the handle it
\* found there: the README tells when it does.)
WireOrder == \A h \in PluginHandles : wire[h] # "disordered"

\* Offers go out with "configure" and answers with "start": a handle used to
\* publish is never used to subscribe, whoever's memory the peer lives in.
RequestFits == \A h \in PluginHandles : wire[h] # "confused"

\* A window shows a stream that is alive and that was told to draw in that window.
WindowShowsItsStream ==
    \A w \in DOMAIN mRemoteWinds :
        mRemoteWinds[w] # 0 =>
            /\ CM!InMap(mRemoteWinds[w])
            /\ streams[mRemoteWinds[w]].told /\ streams[mRemoteWinds[w]].win = w

\* A listed peer of this session has the handle and it is its own.
Owned(h) == \E b \in Route(h) : peers[b].live /\ Answered(b)

\* Our own published stream never takes one of the windows meant for the others,
\* unless its events arrived after its peer was gone.
OwnStreamHasNoWindow ==
    \A h \in PluginHandles :
        Known(h) /\ srv[h].role = "publisher" /\ Owned(h)
            => \A w \in DOMAIN mRemoteWinds : mRemoteWinds[w] # h

\* The server waits for our description on handle h, and the handle has an owner.
Awaited(h) == Known(h) /\ srv[h].phase \in {"offering", "joined"} /\ Owned(h)

\* Nobody waits for a description that will not come: while the server expects ours
\* on a handle with an owner, there is a stream whose peer connection is making it,
\* or it is queued on its way out, or WebRTC failed.  No step of either thread (a
\* stream replaced, a stream removed for another peer, a signal taken for a handle
\* that is in no map) loses it: what NegotiationEnds rests on.
NegotiationUnderWay ==
    \A h \in PluginHandles :
        Awaited(h) =>
            /\ CM!InMap(h)
            /\ \/ streams[h].making # <<>> \/ streams[h].failed
               \/ \E k \in DOMAIN posted :
                    posted[k].id = h /\ posted[k].kind \in {"offer", "answer"}

\* Negotiation comes to an end: once the server made an offer to a listed
\* subscriber, or a listed publisher joined, our description reaches the server,
\* or the peer is taken off the list, or the session is lost, or WebRTC failed.
NegotiationEnds ==
    \A h \in PluginHandles :
        Awaited(h) ~> (~Awaited(h) \/ (CM!InMap(h) /\ streams[h].failed))

\* An answer of the server finds a stream that has set an offer.  Otherwise a new
\* stream is made for it, SetRemoteDescription rejects and frees the description,
\* and SetPeerSDP reads its type.
\* (webrtc/include/webrtc/api/peer_connection_interface.h:932.)  Refuted.
AnswerFindsItsOffer ==
    \A h \in PluginHandles :
        Known(h) /\ srv[h].role = "publisher" /\ srv[h].phase = "offered"
            => CM!InMap(h) /\ streams[h].gather # "idle"
=============================================================================
