----------------------------- MODULE DataChannel -----------------------------
(***************************************************************************)
(* Text rooms: joining one over a data channel and talking in it.  The     *)
(* code is spread over WebRTCInterface, JanusVideoRoomManager's list of    *)
(* text room peers, ConferenceManager's map of data channel streams with   *)
(* LocalStream_DataChannels, and WebrtcStreamDataChannels.                 *)
(*                                                                         *)
(* Two threads.  The main thread runs the user's calls, the server's       *)
(* messages and the queued signals.  WebRTC's signaling thread runs the    *)
(* observers, OnStateChange of the channel among them, which reads the     *)
(* manager's room and name while the main thread may be setting them.      *)
(* Calls of the main thread into WebRTC are carried out by the signaling   *)
(* thread, so they wait until it is done with its observer.                *)
(*                                                                         *)
(* The n-th request to join makes the n-th peer, which the server gives    *)
(* handle n, under which the n-th stream is filed: all are named n here.   *)
(* Not shown, as they change nothing: LeaveDataChannelRoom, whose body is  *)
(* empty, and OnMessage, which only logs (nobody registers for messages).  *)
(***************************************************************************)
EXTENDS Integers, Sequences

CONSTANTS
    Rooms, NoRoom,      \* text room numbers, and an unset one
    Names, TornName,    \* display names, and one read while it is being set
    MaxJoins,           \* bound: requests to join
    MaxPosted,          \* bound: signals queued for the main thread
    MaxGot              \* bound: messages of one channel

ASSUME TextAssumption ==
    /\ NoRoom \notin Rooms /\ TornName \notin Names
    /\ MaxJoins \in Nat /\ MaxPosted \in Nat \ {0} /\ MaxGot \in Nat \ {0}

Ids == 1..MaxJoins
Idle == [busy |-> FALSE]
NoStream == [channel |-> "no stream"]

VARIABLES
    session,        \* "none" or "live"
    mTextRoomID, mTextRoomDisplayName,
    main,           \* the main thread: Idle, or amid JoinDataChannelRoom
    signaling,      \* the signaling thread: Idle, or amid OnStateChange
    peers,          \* mTextRoomPeerList, by n; "dead" when its session is gone
    streams,        \* mRemoteStreamInfos_DataChannels, NoStream where no entry
    local,          \* LocalStream_DataChannels, 0 when null
    posted,         \* queued signals LocalSDP and LocalIceCandidate
    srv,            \* the server's view of each handle
    requests,       \* history: what the user asked to join
    got             \* history: what arrived at the server over each channel

vmVars == <<session, peers, srv>>
cmVars == <<mTextRoomID, mTextRoomDisplayName, main, streams, local, posted>>
history == <<requests, got>>
dcVars == <<vmVars, cmVars, signaling, history>>

Request == [room : Rooms, name : Names]

\* channel: mDataChannel and its state.  making: an answer is being created.  failed:
\* that ended in OnFailure.  join: OnSendLocalInfoWhenOpenDataChannel is set.
\* remote: the stream observes the channel the server opened, too.
Stream == [channel : {"null", "connecting", "open", "closed"},
           making : BOOLEAN, failed : BOOLEAN, join : BOOLEAN, remote : BOOLEAN]

\* at: how many requests there were when the room was read.
\* upto: how many when it was sent.
Message == [what : {"join"}, room : Rooms, name : Names \cup {TornName},
            at : Ids, upto : Ids]
           \cup [what : {"message"}, room : Rooms, at : Ids]

DCTypeOK ==
    /\ session \in {"none", "live"}
    /\ mTextRoomID \in Rooms \cup {NoRoom}
    /\ mTextRoomDisplayName \in Names \cup {TornName}
    /\ main \in {Idle} \cup [busy : {TRUE}, name : Names]
    /\ signaling \in {Idle} \cup [busy : {TRUE}, id : Ids, room : Rooms, at : Ids]
    /\ peers \in [Ids -> {"none", "attaching", "answered", "dead"}]
    /\ streams \in [Ids -> Stream \cup {NoStream}]
    /\ local \in {0} \cup {n \in Ids : streams[n] # NoStream}
    /\ posted \in Seq([kind : {"answer", "candidate"}, id : Ids])
    /\ Len(posted) <= MaxPosted
    /\ srv \in [Ids -> {"none", "setup", "offered", "acked"}]
    /\ requests \in Seq(Request) /\ Len(requests) <= MaxJoins
    /\ got \in [Ids -> Seq(Message)]

InMap(n) == streams[n] # NoStream

DCInit ==
    /\ session = "none"
    /\ mTextRoomID = NoRoom /\ mTextRoomDisplayName = TornName
    /\ main = Idle /\ signaling = Idle
    /\ peers = [n \in Ids |-> "none"]
    /\ streams = [n \in Ids |-> NoStream]
    /\ local = 0
    /\ posted = <<>>
    /\ srv = [n \in Ids |-> "none"]
    /\ requests = <<>>
    /\ got = [n \in Ids |-> <<>>]

MainFree == main = Idle
SignalingFree == signaling = Idle

-----------------------------------------------------------------------------
(* Main thread: the user.                                                  *)

\* JoinDataChannelRoom: the room is set, then the name, and then JoinTextRoom makes
\* a peer and attaches it.  The signaling thread may look at any moment.
JoinDataChannelRoom(room, name) ==
    /\ MainFree /\ Len(requests) < MaxJoins
    /\ mTextRoomID' = room
    /\ main' = [busy |-> TRUE, name |-> name]
    /\ requests' = Append(requests, [room |-> room, name |-> name])
    /\ UNCHANGED <<mTextRoomDisplayName, streams, local, posted, vmVars, signaling, got>>

\* Plausible error: the name is not stored.
JoinTextRoom_noName ==
    /\ ~MainFree
    /\ mTextRoomDisplayName' =
         IF mTextRoomDisplayName = TornName THEN main.name ELSE mTextRoomDisplayName
    /\ main' = Idle
    /\ peers' = [peers EXCEPT ![Len(requests)] =
                   IF session = "live" THEN "attaching" ELSE "dead"]
    /\ UNCHANGED <<mTextRoomID, streams, local, posted, session, srv, signaling, history>>

JoinTextRoom ==
    /\ ~MainFree
    /\ mTextRoomDisplayName' = main.name
    /\ main' = Idle
    /\ peers' = [peers EXCEPT ![Len(requests)] =
                   IF session = "live" THEN "attaching" ELSE "dead"]
    /\ UNCHANGED <<mTextRoomID, streams, local, posted, session, srv, signaling, history>>

\* WebRTC sends only on a channel that is open; the text is lost otherwise.
Deliver(n, msg) ==
    /\ streams[n].channel = "open" => Len(got[n]) < MaxGot
    /\ got' = IF streams[n].channel = "open"
              THEN [got EXCEPT ![n] = Append(@, msg)] ELSE got

\* Plausible error: LocalStream_DataChannels outlives the manager.
Gone_keepLocal ==
    /\ session' = "none"
    /\ mTextRoomID' = NoRoom /\ mTextRoomDisplayName' = TornName
    /\ main' = Idle /\ signaling' = Idle
    /\ peers' = [n \in Ids |-> "none"]
    /\ streams' = [n \in Ids |-> NoStream]
    /\ posted' = <<>>
    /\ srv' = [n \in Ids |-> "none"]
    /\ UNCHANGED local
    /\ requests' = <<>>
    /\ got' = [n \in Ids |-> <<>>]

\* The manager and all it has are gone, by Logout or with the process.
Gone ==
    /\ session' = "none"
    /\ mTextRoomID' = NoRoom /\ mTextRoomDisplayName' = TornName
    /\ main' = Idle /\ signaling' = Idle
    /\ peers' = [n \in Ids |-> "none"]
    /\ streams' = [n \in Ids |-> NoStream]
    /\ local' = 0
    /\ posted' = <<>>
    /\ srv' = [n \in Ids |-> "none"]
    /\ requests' = <<>>
    /\ got' = [n \in Ids |-> <<>>]

\* Plausible error: the room the stream's peer was made for.
MessageRoom_peer == requests[local].room

MessageRoom == mTextRoomID

\* The message names the room of the last request and goes over the newest stream.
\* Without any stream the null pointer is used and the process dies.
SendMessage ==
    /\ MainFree /\ SignalingFree
    /\ \/ /\ local # 0
          /\ Deliver(local, [what |-> "message", room |-> MessageRoom, at |-> Len(requests)])
          /\ UNCHANGED <<vmVars, cmVars, signaling, requests>>
       \/ local = 0 /\ Gone

\* ~ConferenceManager.  A stream with an entry in the map that is also
\* LocalStream_DataChannels is deleted twice, and one that observes a channel of the
\* server stays registered there: the process dies, now or when that channel speaks.
Logout == MainFree /\ SignalingFree /\ Gone

-----------------------------------------------------------------------------
(* Main thread: the server and the queued signals.                         *)

\* The server forgets the handles of a session that is gone; answers do not come.
SessionGone ==
    /\ peers' = [n \in Ids |-> IF peers[n] = "none" THEN "none" ELSE "dead"]
    /\ srv' = [n \in Ids |-> "none"]
    /\ UNCHANGED <<cmVars, signaling, history>>

Login == MainFree /\ session' = "live" /\ SessionGone

Dropped == MainFree /\ session = "live" /\ session' = "none" /\ SessionGone

\* The attach is answered: joinTextRoom sends "setup".
onAttachTextRoomJoin(n) ==
    /\ MainFree /\ peers[n] = "attaching"
    /\ peers' = [peers EXCEPT ![n] = "answered"]
    /\ srv' = [srv EXCEPT ![n] = "setup"]
    /\ UNCHANGED <<session, cmVars, signaling, history>>

\* ConnectToPeer_DataChannels and SetPeerSDP: a stream with a channel, unless
\* WebRTC gives none; an offer is answered, a text that does not parse is not.
NewStream(channel, type) ==
    [channel |-> channel, making |-> type = "offer", failed |-> type # "offer",
     join |-> TRUE, remote |-> FALSE]

\* onTextRoomEventEvent with the server's offer, handed to onRetmoeSDP(n, .., true).
onTextRoomEventEvent(n, type) ==
    /\ MainFree /\ SignalingFree
    /\ srv[n] = "setup" /\ ~InMap(n)
    /\ srv' = [srv EXCEPT ![n] = "offered"]
    /\ \E channel \in {"null", "connecting"} :
         streams' = [streams EXCEPT ![n] = NewStream(channel, type)]
    /\ local' = n
    /\ UNCHANGED <<session, peers, mTextRoomID, mTextRoomDisplayName, main, posted,
                   signaling, history>>

\* Plausible error: descriptions are looked for in the list of video peers only.
SendSDPText_never(n) == UNCHANGED srv

\* SendSDP finds the text peer with handle n and sends "ack" with the answer.
SendSDPText(n) ==
    srv' = IF InMap(n) /\ peers[n] = "answered" /\ srv[n] = "offered"
           THEN [srv EXCEPT ![n] = "acked"] ELSE srv

\* onLocalSDP, onLocalIceCandidate.  SendCandidate knows only the list of video
\* peers: candidates of data channel streams go nowhere.
TakeSignal ==
    /\ MainFree /\ posted # <<>>
    /\ posted' = Tail(posted)
    /\ IF Head(posted).kind = "answer" THEN SendSDPText(Head(posted).id) ELSE UNCHANGED srv
    /\ UNCHANGED <<session, peers, mTextRoomID, mTextRoomDisplayName, main, streams,
                   local, signaling, history>>

-----------------------------------------------------------------------------
(* Signaling thread.                                                       *)

Post(kind, n) ==
    /\ Len(posted) < MaxPosted
    /\ posted' = Append(posted, [kind |-> kind, id |-> n])

Settle(n, failed) ==
    streams' = [streams EXCEPT ![n].making = FALSE, ![n].failed = failed]

OnSuccess(n) ==
    /\ SignalingFree /\ InMap(n) /\ streams[n].making
    /\ Post("answer", n)
    /\ Settle(n, FALSE)
    /\ UNCHANGED <<vmVars, mTextRoomID, mTextRoomDisplayName, main, local, signaling, history>>

OnFailure(n) ==
    /\ SignalingFree /\ InMap(n) /\ streams[n].making
    /\ Settle(n, TRUE)
    /\ UNCHANGED <<vmVars, mTextRoomID, mTextRoomDisplayName, main, local, posted, signaling,
                   history>>

OnIceCandidate(n) ==
    /\ SignalingFree /\ InMap(n) /\ ~streams[n].making /\ ~streams[n].failed
    /\ Post("candidate", n)
    /\ UNCHANGED <<vmVars, mTextRoomID, mTextRoomDisplayName, main, streams, local, signaling,
                   history>>

\* onSendLocalInfoWhenOpenDataChannel reads the manager's room now.
JoinRoom == mTextRoomID

\* Plausible error: the test of the callback is inverted.
OnStateChange_inverted(n, channel) ==
    signaling' = IF channel = "open" /\ ~streams[n].join
                 THEN [busy |-> TRUE, id |-> n, room |-> JoinRoom, at |-> Len(requests)]
                 ELSE Idle

\* OnStateChange with mDataChannel in this state: if it is open and the callback is
\* still set, the room is read; SendJoin does the rest.
OnStateChange(n, channel) ==
    signaling' = IF channel = "open" /\ streams[n].join
                 THEN [busy |-> TRUE, id |-> n, room |-> JoinRoom, at |-> Len(requests)]
                 ELSE Idle

\* The display name as the signaling thread may see it: torn while it is assigned.
SeenNames ==
    IF MainFree THEN {mTextRoomDisplayName}
    ELSE {mTextRoomDisplayName, main.name, TornName}

\* Plausible error: the callback stays set.
JoinSent_again(n) == UNCHANGED streams

\* The callback is cleared: the join is sent once.
JoinSent(n) == streams' = [streams EXCEPT ![n].join = FALSE]

SendJoin ==
    /\ ~SignalingFree
    /\ LET n == signaling.id
       IN  /\ \E name \in SeenNames :
                Deliver(n, [what |-> "join", room |-> signaling.room, name |-> name,
                            at |-> signaling.at, upto |-> Len(requests)])
           /\ JoinSent(n)
    /\ signaling' = Idle
    /\ UNCHANGED <<vmVars, mTextRoomID, mTextRoomDisplayName, main, local, posted, requests>>

\* Our channel opens, once the server has our answer, or closes.
ChannelChanges(n, channel) ==
    /\ SignalingFree /\ InMap(n)
    /\ \/ channel = "open" /\ streams[n].channel = "connecting" /\ srv[n] = "acked"
       \/ channel = "closed" /\ streams[n].channel \in {"connecting", "open"}
    /\ streams' = [streams EXCEPT ![n].channel = channel]
    /\ OnStateChange(n, channel)
    /\ UNCHANGED <<vmVars, mTextRoomID, mTextRoomDisplayName, main, local, posted, history>>

\* The server opens a channel of its own, which the stream observes as well.
OnDataChannel(n) ==
    /\ SignalingFree /\ InMap(n) /\ srv[n] = "acked" /\ ~streams[n].remote
    /\ streams' = [streams EXCEPT ![n].remote = TRUE]
    /\ UNCHANGED <<vmVars, mTextRoomID, mTextRoomDisplayName, main, local, posted, signaling,
                   history>>

\* That channel changes its state: OnStateChange runs, and looks at ours.
RemoteChannelChanges(n) ==
    /\ SignalingFree /\ InMap(n) /\ streams[n].remote
    /\ OnStateChange(n, streams[n].channel)
    /\ UNCHANGED <<vmVars, cmVars, history>>

-----------------------------------------------------------------------------

DCNext ==
    \/ Login \/ Logout \/ Dropped
    \/ \E room \in Rooms, name \in Names : JoinDataChannelRoom(room, name)
    \/ JoinTextRoom
    \/ SendMessage
    \/ TakeSignal
    \/ SendJoin
    \/ \E n \in Ids :
         \/ onAttachTextRoomJoin(n)
         \/ \E type \in {"offer", "unparsable"} : onTextRoomEventEvent(n, type)
         \/ OnSuccess(n) \/ OnFailure(n) \/ OnIceCandidate(n)
         \/ \E channel \in {"open", "closed"} : ChannelChanges(n, channel)
         \/ OnDataChannel(n) \/ RemoteChannelChanges(n)

DCSpec == DCInit /\ [][DCNext]_dcVars

\* Either thread goes on with what it began, the main thread handles what is queued,
\* and WebRTC ends what it was asked to create; strongly, as a full queue (a bound
\* of the model) disables it in between.
DCFairness ==
    /\ WF_dcVars(JoinTextRoom) /\ WF_dcVars(SendJoin) /\ WF_dcVars(TakeSignal)
    /\ \A n \in Ids : SF_dcVars(OnSuccess(n) \/ OnFailure(n))

FairDCSpec == DCSpec /\ DCFairness

-----------------------------------------------------------------------------

\* The first thing the server gets over a channel is the join, and it gets no other,
\* although the user may send at any time and two channels report their state to
\* the same OnStateChange: nothing said is refused for want of a join.
JoinFirst ==
    \A n \in Ids : \A k \in DOMAIN got[n] : got[n][k].what = "join" <=> k = 1

\* A join carries the room and the name the user typed for it, unless the user asked
\* to join again before it was out: then the room is that of a later request.
JoinAsAsked ==
    \A n \in Ids : \A k \in DOMAIN got[n] :
        LET m == got[n][k]
        IN  m.what = "join" =>
              /\ n <= m.at /\ m.room = requests[m.at].room
              /\ m.upto = n => m.name = requests[n].name

\* What is said goes to the room that was joined over the same channel, unless the
\* user has asked to join again since: also when the offers of two requests come
\* in the wrong order and the older stream is the one that is used.
SaidInJoinedRoom ==
    \A n \in Ids : \A k \in DOMAIN got[n] :
        got[n][k].room = got[n][1].room \/ got[n][k].at > got[n][1].at

\* An offer of the server is answered, or the session is lost, or WebRTC failed.
TextNegotiationEnds ==
    \A n \in Ids : srv[n] = "offered" ~> (srv[n] # "offered" \/ (InMap(n) /\ streams[n].failed))

\* Once a channel is open its join goes out, or the stream goes.
OpenedIsJoined ==
    \A n \in Ids :
        (InMap(n) /\ streams[n].channel = "open") ~> (got[n] # <<>> \/ ~InMap(n))
=============================================================================
