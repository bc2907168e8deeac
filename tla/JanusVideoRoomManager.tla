----------------------- MODULE JanusVideoRoomManager -----------------------
(***************************************************************************)
(* JanusVideoRoomManager with its JanusPeerConnections: joining a video    *)
(* room as publisher, subscribing to the feeds the server announces,       *)
(* unsubscribing, leaving, and what a lost session leaves behind.          *)
(*                                                                         *)
(* A JanusPeerConnection is modelled by the memory block it lives in: new  *)
(* takes a free block, delete frees it, and a callback registered in       *)
(* mMessage_success_callback stays bound to the block, whatever is in it   *)
(* when the answer arrives.                                                *)
(*                                                                         *)
(* The Janus server is external.  It is modelled by what it knows of each  *)
(* plugin handle and by the answers and events that knowledge allows, at   *)
(* any later time.  "error" answers are ignored by the client, so an error *)
(* is an answer that never comes.  One video room is modelled.             *)
(***************************************************************************)
EXTENDS Integers, Sequences, FiniteSets

CONSTANTS
    Blocks,         \* memory for JanusPeerConnection objects
    Feeds,          \* ids of the other participants' streams
    NoFeed,         \* 0, the mSubscribeId of a publisher
    StoresDropped,  \* the build drops stores to an object that is being deleted
    MaxAttach       \* bound: attach requests (and so handles) of one run

ASSUME RoomAssumption ==
    /\ IsFiniteSet(Feeds) /\ NoFeed \notin Feeds
    /\ StoresDropped \in BOOLEAN
    /\ MaxAttach \in Nat

\* The n-th attach request, when it succeeds, gets handle n.  0 stands for a number
\* that names no handle.
PluginHandles == 1..MaxAttach

VARIABLES
    session,            \* "none", "connecting", or "live" once mSessionId is
                        \* the id of a session of the current connection
    peers,              \* what is in each block
    mVideoRoomPeerList, \* blocks, in list order
    callbacks,          \* attach callbacks whose answer can still come
    attaches,           \* attach requests so far
    srv                 \* the server's view of each handle

vmVars == <<session, peers, mVideoRoomPeerList, callbacks, attaches, srv>>

\* tran: the peer's own attach request.  live: mSessionID is the live session's.
\* handle: mVideoRoomHandleID, which no constructor sets: until the attach is
\* answered it is what an earlier peer left in the memory.
Peer == [tran : PluginHandles, handle : PluginHandles \cup {0},
         sub : Feeds \cup {NoFeed}, live : BOOLEAN]
FreedBlock == [tran : {0}, handle : PluginHandles \cup {0}]
Blank == [tran |-> 0, handle |-> 0]

Callback == [tran : PluginHandles, block : Blocks]

\* A publisher's handle goes joining, joined, offered (it has our offer), answered;
\* known: the feeds it was told of.  A subscriber's goes joining, offering, started.
Handle == [role : {"publisher", "subscriber"}, known : SUBSET Feeds,
           phase : {"joining", "joined", "offered", "answered", "offering", "started"}]
Unknown == [role |-> "none"]

VMTypeOK ==
    /\ session \in {"none", "connecting", "live"}
    /\ peers \in [Blocks -> Peer \cup FreedBlock]
    /\ mVideoRoomPeerList \in Seq(Blocks)
    /\ callbacks \subseteq Callback
    /\ attaches \in 0..MaxAttach
    /\ srv \in [PluginHandles -> Handle \cup {Unknown}]

Listed == {mVideoRoomPeerList[i] : i \in DOMAIN mVideoRoomPeerList}
Freed(b) == peers[b].tran = 0
FreeBlocks == {b \in Blocks : Freed(b)}
Known(h) == srv[h] # Unknown

VMInit ==
    /\ session = "none"
    /\ peers = [b \in Blocks |-> Blank]
    /\ mVideoRoomPeerList = <<>>
    /\ callbacks = {}
    /\ attaches = 0
    /\ srv = [h \in PluginHandles |-> Unknown]

-----------------------------------------------------------------------------
(* The session.  JanusWebSocket.tla models the connection itself.          *)

\* The server drops the session with the connection.  The client keeps its peers,
\* its list and mSessionId; the answers still due will never come, and what is
\* left in free memory names no handle any more.
SessionGone ==
    /\ peers' = [b \in Blocks |->
                   IF Freed(b) THEN Blank ELSE [peers[b] EXCEPT !.live = FALSE]]
    /\ callbacks' = {}
    /\ srv' = [h \in PluginHandles |-> Unknown]
    /\ UNCHANGED <<mVideoRoomPeerList, attaches>>

ConnectServer == session' = "connecting" /\ SessionGone

onSocketDisConnected == session # "none" /\ session' = "none" /\ SessionGone

onCreateSessionId ==
    /\ session = "connecting"
    /\ session' = "live"
    /\ UNCHANGED <<peers, mVideoRoomPeerList, callbacks, attaches, srv>>

-----------------------------------------------------------------------------

\* new JanusPeerConnection for each entry of subs, pushed on the list, and
\* AttachVideoRoom.  Without a live session the attach is answered by an error
\* or not sent at all.
NewPeers(subs) ==
    /\ attaches + Len(subs) <= MaxAttach
    /\ \E bs \in [DOMAIN subs -> FreeBlocks] :
         /\ \A i, j \in DOMAIN subs : bs[i] = bs[j] => i = j
         /\ peers' = [b \in Blocks |->
              IF \E i \in DOMAIN subs : bs[i] = b
              THEN LET i == CHOOSE j \in DOMAIN subs : bs[j] = b
                   IN  [tran |-> attaches + i, handle |-> peers[b].handle, sub |-> subs[i],
                        live |-> session = "live"]
              ELSE peers[b]]
         /\ mVideoRoomPeerList' = mVideoRoomPeerList \o bs
         /\ callbacks' = IF session = "live"
                         THEN callbacks \cup
                              {[tran |-> attaches + i, block |-> bs[i]] : i \in DOMAIN subs}
                         ELSE callbacks
    /\ attaches' = attaches + Len(subs)

JoinVideoRoom == NewPeers(<<NoFeed>>) /\ UNCHANGED <<session, srv>>

\* Plausible error: the feed is not looked at.
joinVideoRoom_publisher(h, p) ==
    srv' = IF p.live
           THEN [srv EXCEPT ![h] =
                   [role |-> "publisher", known |-> {}, phase |-> "joining"]]
           ELSE srv

\* joinVideoRoom: "join" as publisher or as subscriber, by the block's fields.
joinVideoRoom(h, p) ==
    srv' = IF p.live
           THEN [srv EXCEPT ![h] =
                   [role |-> IF p.sub = NoFeed THEN "publisher" ELSE "subscriber",
                    known |-> {}, phase |-> "joining"]]
           ELSE srv

\* Plausible error: the answer is taken by every listed peer without a handle.
onAttachVideoRoomJoin_all(c) ==
    /\ c \in callbacks
    /\ callbacks' = callbacks \ {c}
    /\ peers' = [b \in Blocks |->
                   IF b \in Listed /\ peers[b].handle = 0
                   THEN [peers[b] EXCEPT !.handle = c.tran] ELSE peers[b]]
    /\ srv' = [srv EXCEPT ![c.tran] =
                  [role |-> "publisher", known |-> {}, phase |-> "joining"]]
    /\ UNCHANGED <<session, mVideoRoomPeerList, attaches>>

\* janus "success" for an attach: onMessageSuccess takes the callback out of the
\* map and runs onAttachVideoRoomJoin on the block it is bound to.  If the peer
\* was deleted the block holds another peer, which then takes the handle, or none:
\* then the handle goes into free memory and the join through a pWebSocket the
\* allocator has overwritten, to nobody (or the process dies, which is VMLogout).
onAttachVideoRoomJoin(c) ==
    /\ c \in callbacks
    /\ callbacks' = callbacks \ {c}
    /\ peers' = [peers EXCEPT ![c.block].handle = c.tran]
    /\ \/ ~Freed(c.block) /\ joinVideoRoom(c.tran, peers[c.block])
       \/ Freed(c.block) /\ UNCHANGED srv
    /\ UNCHANGED <<session, mVideoRoomPeerList, attaches>>

-----------------------------------------------------------------------------
(* Events of the server (janus "event"), each carrying one thing.          *)

Tell(h, feeds) == [srv EXCEPT ![h].known = @ \cup feeds]

\* The orders in which a set of feeds can be listed in "publishers".
Orders(feeds) ==
    {s \in [1..Cardinality(feeds) -> feeds] :
        \A i, j \in DOMAIN s : s[i] = s[j] => i = j}

\* "joined" on a publisher's handle: onVideoRoomEventPublisher for the feeds
\* already there.  (Then OnConnectToPeer, if HasPeer(h)': see VideoCall.)
onVideoRoomEventJoin(h, feeds) ==
    /\ Known(h) /\ srv[h].role = "publisher" /\ srv[h].phase = "joining"
    /\ \E subs \in Orders(feeds) : NewPeers(subs)
    /\ srv' = [Tell(h, feeds) EXCEPT ![h].phase = "joined"]
    /\ UNCHANGED <<session>>

\* "event" with "publishers": a new feed.
onVideoRoomEventPublisher(h, f) ==
    /\ Known(h) /\ srv[h].role = "publisher" /\ srv[h].phase # "joining"
    /\ f \notin srv[h].known
    /\ NewPeers(<<f>>)
    /\ srv' = Tell(h, {f})
    /\ UNCHANGED <<session>>

\* The first listed peer subscribed to f; 0 if there is none.
SubscriberIndex(f) ==
    LET is == {i \in DOMAIN mVideoRoomPeerList : peers[mVideoRoomPeerList[i]].sub = f}
    IN  IF is = {} THEN 0 ELSE CHOOSE i \in is : \A j \in is : i <= j

Unlist(i) ==
    SubSeq(mVideoRoomPeerList, 1, i - 1)
        \o SubSeq(mVideoRoomPeerList, i + 1, Len(mVideoRoomPeerList))

\* Plausible error: the peer taken off the list is deleted as well.
DropPeer_delete(i) ==
    /\ mVideoRoomPeerList' = Unlist(i)
    /\ peers' = [peers EXCEPT ![mVideoRoomPeerList[i]] = Blank]

\* Plausible errors: the search goes on after the first subscriber, or the stream is
\* removed and its peer stays.
DropPeer_all(i) ==
    /\ mVideoRoomPeerList' =
         SelectSeq(mVideoRoomPeerList, LAMBDA b : peers[b].sub # peers[mVideoRoomPeerList[i]].sub)
    /\ UNCHANGED peers

DropPeer_none(i) == UNCHANGED <<mVideoRoomPeerList, peers>>

\* The peer leaves the list and is not deleted.
DropPeer(i) ==
    /\ mVideoRoomPeerList' = Unlist(i)
    /\ UNCHANGED peers

\* "event" with "unpublished".  (OnRemoteStreamRemove runs first, with the handle
\* of that peer: see VideoCall.)
onVideoRoomEventUnpublish(h, f) ==
    /\ Known(h) /\ srv[h].role = "publisher" /\ f \in srv[h].known
    /\ srv' = [srv EXCEPT ![h].known = @ \ {f}]
    /\ \/ SubscriberIndex(f) # 0 /\ DropPeer(SubscriberIndex(f))
       \/ SubscriberIndex(f) = 0 /\ UNCHANGED <<peers, mVideoRoomPeerList>>
    /\ UNCHANGED <<session, callbacks, attaches>>

\* "attached" on a subscriber's handle, with the server's offer, and a later
\* "event" with a new offer; "event" on a publisher's handle with the answer.
\* onVideoRoomEventSdp only hands the description on.
EventSdp(h, type) ==
    /\ Known(h)
    /\ \/ /\ type = "offer" /\ srv[h].role = "subscriber"
          /\ srv[h].phase \in {"joining", "started"}
          /\ srv' = [srv EXCEPT ![h].phase = "offering"]
       \/ /\ type = "answer" /\ srv[h].role = "publisher" /\ srv[h].phase = "offered"
          /\ srv' = [srv EXCEPT ![h].phase = "answered"]
    /\ UNCHANGED <<session, peers, mVideoRoomPeerList, callbacks, attaches>>

-----------------------------------------------------------------------------

\* Plausible error: the peers are only reset, not deleted.
DeleteListed_reset ==
    peers' = [b \in Blocks |->
                IF b \in Listed
                THEN [tran |-> 0, handle |-> 0, sub |-> NoFeed, live |-> FALSE]
                ELSE peers[b]]

\* delete of every listed peer.  ~JanusPeerConnection sets the handle to 0; an
\* optimising build drops that store to a dying object, and the memory keeps it.
DeleteListed ==
    peers' = [b \in Blocks |->
                IF b \notin Listed THEN peers[b]
                ELSE IF StoresDropped THEN [tran |-> 0, handle |-> peers[b].handle]
                ELSE Blank]

\* Plausible error: the list is cleared one peer short.
LeaveVideoRoom_allButLast ==
    /\ DeleteListed
    /\ mVideoRoomPeerList' =
         IF mVideoRoomPeerList = <<>> THEN <<>>
         ELSE <<mVideoRoomPeerList[Len(mVideoRoomPeerList)]>>
    /\ UNCHANGED <<session, callbacks, attaches, srv>>

\* Every listed peer is deleted.  Nothing is sent, so the server's handles live on,
\* and callbacks bound to the deleted peers stay.
VMLeaveVideoRoom ==
    /\ DeleteListed
    /\ mVideoRoomPeerList' = <<>>
    /\ UNCHANGED <<session, callbacks, attaches, srv>>

\* ~JanusVideoRoomManager, by Logout (or the process dies and is started again).
\* With every trace of the old handles gone, their numbers serve again.
VMLogout ==
    /\ session' = "none"
    /\ peers' = [b \in Blocks |-> Blank]
    /\ mVideoRoomPeerList' = <<>>
    /\ callbacks' = {}
    /\ srv' = [h \in PluginHandles |-> Unknown]
    /\ attaches' = 0

-----------------------------------------------------------------------------
(* Calls of ConferenceManager.                                             *)

\* Plausible error: a handle is looked up among all peers, listed or not.
Route_any(h) == {b \in Blocks : ~Freed(b) /\ peers[b].handle = h}

\* The listed peers with handle h, of which SendSDP and SendCandidate take the first.
Route(h) == {b \in Listed : peers[b].handle = h}

HasPeer(h) == Route(h) # {}

\* The attach of this peer was answered: its handle is its own.
Answered(b) == [tran |-> peers[b].tran, block |-> b] \notin callbacks

\* The message reaches the server if the peer's session is the live one.
Reaches(h) == \E b \in Route(h) : peers[b].live

\* SendSDP(h): "configure" from a publisher, "start" from a subscriber.
SendSDP(h) ==
    /\ srv' = IF Reaches(h) /\ Known(h)
              THEN [srv EXCEPT ![h].phase =
                      IF srv[h].role = "publisher"
                      THEN IF @ \in {"joined", "answered"} THEN "offered" ELSE @
                      ELSE IF @ = "offering" THEN "started" ELSE @]
              ELSE srv
    /\ UNCHANGED <<session, peers, mVideoRoomPeerList, callbacks, attaches>>

LosesSession == ConnectServer \/ onSocketDisConnected

\* Handlers of answers and events, and what ConferenceManager sends.
ServerStep ==
    \/ onCreateSessionId
    \/ \E c \in callbacks : onAttachVideoRoomJoin(c)
    \/ \E h \in PluginHandles :
         \/ \E feeds \in SUBSET Feeds : onVideoRoomEventJoin(h, feeds)
         \/ \E f \in Feeds : \/ onVideoRoomEventPublisher(h, f)
                             \/ onVideoRoomEventUnpublish(h, f)
         \/ \E type \in {"offer", "answer"} : EventSdp(h, type)
         \/ SendSDP(h)

VMNext ==
    \/ LosesSession
    \/ JoinVideoRoom
    \/ VMLeaveVideoRoom
    \/ VMLogout
    \/ ServerStep

VMSpec == VMInit /\ [][VMNext]_vmVars

-----------------------------------------------------------------------------

\* The list never holds a deleted peer, nor one peer twice: the loops of SendSDP,
\* SendCandidate, onVideoRoomEventJoin and LeaveVideoRoom (which deletes what it
\* finds) never touch freed memory, whatever came between.
ListSound ==
    /\ \A i, j \in DOMAIN mVideoRoomPeerList :
         mVideoRoomPeerList[i] = mVideoRoomPeerList[j] => i = j
    /\ \A b \in Listed : ~Freed(b)

\* No two peers have the same handle, even when an answer to a deleted peer was
\* taken by the peer that got its memory: a description or a candidate is never
\* sent on another peer's behalf.
HandlesDistinct ==
    \A a, b \in Blocks :
        /\ ~Freed(a) /\ ~Freed(b)
        /\ peers[a].handle = peers[b].handle
        /\ peers[a].handle # 0
        => a = b

\* The server and the client agree what a handle is for: once a peer's attach is
\* answered, what SendSDP sends for it ("configure" for a publisher, "start" for a
\* subscriber) fits the join that was sent for its handle.
RolesAgree ==
    \A b \in Blocks :
        LET p == peers[b]
        IN  ~Freed(b) /\ p.live /\ Answered(b) =>
              /\ Known(p.handle)
              /\ srv[p.handle].role = "publisher" <=> p.sub = NoFeed

\* The peer that asked is still where the answer will be handled.
FindsItsPeer(c) == peers[c.block].tran = c.tran

\* An answer to an attach runs on the very peer that asked, unless the user left the
\* room in between: only LeaveVideoRoom takes a peer away from under its callback.
\* Unpublish may take the peer off the list before the answer comes; it is safe
\* because it does not delete it.
CallbackFindsItsPeer ==
    [][\A c \in callbacks' :
          FindsItsPeer(c)' \/ (c \in callbacks /\ (~FindsItsPeer(c) \/ VMLeaveVideoRoom))]_vmVars
=============================================================================
