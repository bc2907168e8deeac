--------------------------- MODULE VideoCallProof ---------------------------
(***************************************************************************)
(* Proofs about VideoCall, the two managers together, for any memory, any  *)
(* feeds and windows, either build and any number of attach requests,      *)
(* descriptions and queued signals.                                        *)
(*                                                                         *)
(* What the two components keep by themselves is taken from their proofs:  *)
(* each step of the call is a step of either, or leaves it alone.  What    *)
(* they keep together rests on one fact: a peer becomes the owner of a     *)
(* handle when its attach is answered, before anything has happened on     *)
(* that handle, and never again.                                           *)
(***************************************************************************)
EXTENDS VideoCall, JanusVideoRoomManagerProof

CMP == INSTANCE ConferenceManagerProof WITH Handles <- PluginHandles, NoHandle <- 0

InMap(h) == streams[h] # CM!NoStream

\* The queued signals of handle h, and those that carry a description.
Signals(h) == {i \in DOMAIN posted : posted[i].id = h}
Describes(i) == posted[i].kind \in {"offer", "answer"}

\* No stream was made for h, no signal is queued, nothing was sent.
Untouched(h) == ~InMap(h) /\ Signals(h) = {} /\ wire[h] = "nothing"

\* A handle is touched only after its join was answered.
TouchedLate ==
    \A h \in PluginHandles : ~Untouched(h) =>
        /\ h <= attaches
        /\ \A c \in callbacks : c.tran # h
        /\ Known(h) => srv[h].phase # "joining"

\* Streams of publishers make offers, those of subscribers answers.
Fits(kind, role) ==
    /\ kind = "offer" => role = "publisher"
    /\ kind = "answer" => role # "publisher"

KindsFit ==
    \A h \in PluginHandles : Known(h) =>
        /\ InMap(h) => \A k \in DOMAIN streams[h].making : Fits(streams[h].making[k], srv[h].role)
        /\ \A i \in Signals(h) : Fits(posted[i].kind, srv[h].role)

\* Once a publisher has joined and while its peer owns the handle it has its stream,
\* and that was told no window.
OwnConnected ==
    \A h \in PluginHandles :
        Known(h) /\ srv[h].role = "publisher" /\ srv[h].phase # "joining" /\ Owned(h)
            => InMap(h) /\ ~streams[h].told

\* Publishers join and subscribers are offered.
PhasesFit ==
    \A h \in PluginHandles : Known(h) =>
        /\ srv[h].phase = "joined" => srv[h].role = "publisher"
        /\ srv[h].phase = "offering" => srv[h].role # "publisher"

\* What is queued for a stream, with what was sent before, is in order: no candidate
\* before a description, none after "completed", and gathering as far as that.
InOrder(h) ==
    /\ streams[h].gather = "idle" => Signals(h) = {} /\ wire[h] = "nothing"
    /\ streams[h].gather # "idle" => wire[h] # "nothing" \/ \E i \in Signals(h) : Describes(i)
    /\ streams[h].gather = "on" => \A i \in Signals(h) : posted[i].kind # "end"
    /\ \A i \in Signals(h) : ~Describes(i) =>
         wire[h] # "nothing" \/ \E j \in Signals(h) : j < i /\ Describes(j)
    /\ \A i, j \in Signals(h) : i < j /\ posted[i].kind = "end" => Describes(j)
    /\ wire[h] = "completed" =>
         streams[h].gather = "done" /\ \A i \in Signals(h) : Describes(i)

QueueInOrder ==
    \A h \in PluginHandles : Owned(h) /\ wire[h] # "stray" =>
        IF InMap(h) THEN InOrder(h) ELSE Untouched(h)

WireOK == wire \in [PluginHandles -> WireState \ {"disordered", "confused"}]

CallInv ==
    /\ VMInv /\ CMP!CMInv /\ CMP!RestOK /\ WireOK
    /\ TouchedLate /\ KindsFit /\ OwnConnected /\ QueueInOrder
    /\ WindowShowsItsStream /\ PhasesFit /\ NegotiationUnderWay

-----------------------------------------------------------------------------
(* A step of the call is a step of each component.                         *)

LEMMA ConferenceFits == CMP!ConferenceAssumption
BY CallAssumption, RoomAssumption DEF CMP!ConferenceAssumption, PluginHandles

\* The names of ConferenceManager mean the same in its proofs.
LEMMA SameNames ==
    /\ CM!NoStream = CMP!NoStream /\ CM!NoWindows = CMP!NoWindows
    /\ CM!Windows = CMP!Windows /\ CM!FirstFree = CMP!FirstFree
    /\ CM!Unset = CMP!Unset /\ CM!WindowIDs = CMP!WindowIDs /\ CM!NoWindow = CMP!NoWindow
    /\ \A h : /\ CM!InMap(h) <=> CMP!InMap(h)
              /\ CM!WindowOf(h) = CMP!WindowOf(h)
BY DEF CM!NoStream, CMP!NoStream, CM!NoWindows, CMP!NoWindows, CM!Windows, CMP!Windows,
       CM!FirstFree, CMP!FirstFree, CM!FreeWindows, CMP!FreeWindows, CM!NoWindow, CMP!NoWindow,
       CM!Unset, CMP!Unset, CM!WindowIDs, CMP!WindowIDs, CM!InMap, CMP!InMap,
       CM!WindowOf, CMP!WindowOf

LEMMA SameUserCalls ==
    /\ CM!SetVideoWindows => CMP!SetVideoWindows
    /\ CM!CMLeaveVideoRoom => CMP!CMLeaveVideoRoom
    /\ CM!CMLogout => CMP!CMLogout
    /\ CM!TakeSignal => CMP!TakeSignal
BY SameNames DEF CM!SetVideoWindows, CMP!SetVideoWindows, CM!CMLeaveVideoRoom,
       CMP!CMLeaveVideoRoom, CM!CMLogout, CMP!CMLogout, CM!TakeSignal, CMP!TakeSignal

LEMMA SameConnect ==
    ASSUME NEW h, CM!ConnectToPeer_VideoAudio(h)
    PROVE  CMP!ConnectToPeer_VideoAudio(h)
BY SameNames DEF CM!ConnectToPeer_VideoAudio, CMP!ConnectToPeer_VideoAudio,
   CM!NewStream, CMP!NewStream

LEMMA SameRemoteSdp ==
    ASSUME NEW h, NEW type, CM!onRetmoeSDP(h, type)
    PROVE  CMP!onRetmoeSDP(h, type)
BY SameNames DEF CM!onRetmoeSDP, CMP!onRetmoeSDP, CM!NewStream, CMP!NewStream, CM!Asked, CMP!Asked

LEMMA SameRemove ==
    ASSUME NEW h, CM!onRemoteStreamRemove(h)
    PROVE  CMP!onRemoteStreamRemove(h)
BY SameNames DEF CM!onRemoteStreamRemove, CMP!onRemoteStreamRemove, CM!FreeWindow, CMP!FreeWindow

LEMMA SameSignaling ==
    ASSUME NEW h, CM!SignalingThread(h)
    PROVE  CMP!SignalingThread(h)
BY SameNames DEF CM!SignalingThread, CMP!SignalingThread, CM!OnSuccess, CMP!OnSuccess,
       CM!OnFailure, CMP!OnFailure, CM!OnIceCandidate, CMP!OnIceCandidate,
       CM!OnIceGatheringChange, CMP!OnIceGatheringChange, CM!Post, CMP!Post

LEMMA CallIsCM ==
    ASSUME VMInv, [CallNext]_callVars
    PROVE  [CMP!CMNext]_(CMP!cmVars)
<1>1. CASE Login \/ Logout \/ Leave \/ TakeSignal
    BY <1>1, SameUserCalls DEF Login, Logout, Leave, TakeSignal, CMP!CMNext
<1>2. CASE Join \/ Dropped \/ SessionCreated \/ AttachAnswered \/ UNCHANGED callVars
    BY <1>2 DEF Join, Dropped, SessionCreated, AttachAnswered, callVars, cmVars, CMP!cmVars
<1>3. ASSUME NEW h \in PluginHandles, EventJoined(h) PROVE [CMP!CMNext]_(CMP!cmVars)
    BY <1>3, SameConnect DEF EventJoined, CMP!CMNext, cmVars, CMP!cmVars
<1>4. ASSUME NEW h \in PluginHandles, EventPublishers(h) PROVE [CMP!CMNext]_(CMP!cmVars)
    BY <1>4 DEF EventPublishers, cmVars, CMP!cmVars
<1>5. ASSUME NEW h \in PluginHandles, NEW f \in Feeds, EventUnpublished(h, f)
      PROVE  [CMP!CMNext]_(CMP!cmVars)
  <2>1. CASE SubscriberIndex(f) = 0
      BY <1>5, <2>1 DEF EventUnpublished, cmVars, CMP!cmVars
  <2>2. CASE SubscriberIndex(f) # 0
    <3> DEFINE k == peers[mVideoRoomPeerList[SubscriberIndex(f)]].handle
    <3>1. CM!onRemoteStreamRemove(k)
        BY <1>5, <2>2 DEF EventUnpublished
    <3>2. k \in PluginHandles \cup {0}
      <4>1. VMTypeOK
          BY DEF VMInv
      <4>2. SubscriberIndex(f) \in DOMAIN mVideoRoomPeerList
          BY <2>2, <4>1, SubscriberIndexFinds
      <4>3. mVideoRoomPeerList[SubscriberIndex(f)] \in Blocks
          BY <4>1, <4>2, ListedBlocks
      <4>4. k \in 0..MaxAttach
          BY <4>1, <4>3, BlockTypes
      <4>5. QED
          BY <4>4, RoomAssumption DEF PluginHandles
    <3> HIDE DEF k
    <3>3. QED
        BY <3>1, <3>2, SameRemove DEF CMP!CMNext
  <2>3. QED
      BY <2>1, <2>2
<1>6. ASSUME NEW h \in PluginHandles, EventJsep(h) PROVE [CMP!CMNext]_(CMP!cmVars)
    BY <1>6, SameRemoteSdp DEF EventJsep, CMP!CMNext
<1>7. ASSUME NEW h \in PluginHandles, SignalingThread(h) PROVE [CMP!CMNext]_(CMP!cmVars)
    BY <1>7, SameSignaling DEF SignalingThread, CMP!CMNext
<1>8. QED
    BY <1>1, <1>2, <1>3, <1>4, <1>5, <1>6, <1>7 DEF CallNext

LEMMA HeadIsSignal ==
    ASSUME CMP!RestOK, posted # <<>>
    PROVE  Head(posted).id \in PluginHandles
           /\ Head(posted).kind \in {"offer", "answer", "candidate", "end"}
<1>1. posted \in Seq(CMP!Signal)
    BY DEF CMP!RestOK, CMP!QueueOK
<1>2. Head(posted) \in CMP!Signal
    BY <1>1
<1>3. QED
    BY <1>2 DEF CMP!Signal

\* A step of the room manager that is not a logout.
RoomStep == LosesSession \/ JoinVideoRoom \/ VMLeaveVideoRoom \/ ServerStep \/ UNCHANGED vmVars

LEMMA CallIsRoom ==
    ASSUME CMP!RestOK, [CallNext]_callVars
    PROVE  Logout \/ RoomStep
<1> USE DEF RoomStep, ServerStep, LosesSession
<1>1. CASE Login \/ Join \/ Leave \/ Dropped \/ SessionCreated \/ AttachAnswered
    BY <1>1 DEF Login, Join, Leave, Dropped, SessionCreated, AttachAnswered
<1>2. CASE TakeSignal
  <2>1. posted # <<>>
      BY <1>2 DEF TakeSignal, CM!TakeSignal
  <2>2. QED
      BY <1>2, <2>1, HeadIsSignal DEF TakeSignal, vmVars
<1>3. ASSUME NEW h \in PluginHandles,
             \/ EventJoined(h) \/ EventPublishers(h) \/ EventJsep(h) \/ SignalingThread(h)
             \/ \E f \in Feeds : EventUnpublished(h, f)
      PROVE  RoomStep
    BY <1>3 DEF EventJoined, EventPublishers, EventUnpublished, EventJsep, SignalingThread
<1>4. CASE UNCHANGED callVars
    BY <1>4 DEF callVars
<1>5. QED
    BY <1>1, <1>2, <1>3, <1>4 DEF CallNext

LEMMA CallIsVM ==
    ASSUME CMP!RestOK, [CallNext]_callVars
    PROVE  [VMNext]_vmVars
BY CallIsRoom DEF RoomStep, Logout, VMNext

\* What the components keep by themselves.
LEMMA StepParts ==
    ASSUME CallInv, [CallNext]_callVars
    PROVE  VMInv' /\ CMP!CMInv' /\ CMP!RestOK'
<1>1. VMInv /\ CMP!CMInv /\ CMP!RestOK
    BY DEF CallInv
<1>2. [VMNext]_vmVars /\ [CMP!CMNext]_(CMP!cmVars)
    BY <1>1, CallIsVM, CallIsCM
<1>3. QED
    BY <1>1, <1>2, ConferenceFits, StepVMInv, CMP!StepCMInv, CMP!StepRestOK

-----------------------------------------------------------------------------
(* What a step of the room manager may do to a handle.                     *)

\* The attach that h is the number of was asked for and is not waited for any more.
Past(h) == h <= attaches /\ \A c \in callbacks : c.tran # h

\* The server knows a handle from the answer to its attach on, which finds it
\* "joining"; from then on its role stays, it never is "joining" again, and nobody
\* comes to own it who does not own it already.
Effects(h) ==
    /\ Past(h) => Past(h)'
    /\ Known(h)' =>
         IF Past(h)
         THEN /\ Known(h) /\ srv'[h].role = srv[h].role
              /\ srv'[h].phase = "joining" => srv[h].phase = "joining"
         ELSE srv'[h].phase = "joining"
    /\ Owned(h)' => Owned(h) \/ ~Past(h)

Mild(h) ==
    Known(h)' => /\ Known(h) /\ srv'[h].role = srv[h].role
                 /\ srv'[h].phase = "joining" => srv[h].phase = "joining"

LEMMA KnownIsPast ==
    ASSUME VMInv, NEW h \in PluginHandles, Known(h)
    PROVE  Past(h)
BY DEF VMInv, Counted, AnsweredOnce, Past

\* Steps that leave peers and callbacks alone and take no handle's role away.
LEMMA QuietEffects ==
    ASSUME VMInv, NEW h \in PluginHandles,
           UNCHANGED <<peers, callbacks, attaches>>, Listed' \subseteq Listed,
           Mild(h)
    PROVE  Effects(h)
<1>1. Past(h)' <=> Past(h)
    BY DEF Past
<1>2. Known(h) => Past(h)
    BY KnownIsPast
<1>3. Owned(h)' => Owned(h)
    BY DEF Owned, Route, Answered
<1>4. QED
    BY <1>1, <1>2, <1>3 DEF Effects, Mild

LEMMA NewPeersEffects ==
    ASSUME VMInv, NEW h \in PluginHandles, NEW subs \in Seq(Feeds \cup {NoFeed}), NewPeers(subs),
           Mild(h)
    PROVE  Effects(h)
<1>1. VMTypeOK
    BY DEF VMInv
<1>2. /\ attaches' = attaches + Len(subs) /\ Len(subs) \in Nat /\ attaches \in Nat
      /\ \E bs : Made(bs, subs)
    BY <1>1, NewPeersMade, RoomAssumption DEF VMTypeOK
<1>3. PICK bs : Made(bs, subs)
    BY <1>2
<1> DEFINE k == Len(subs)
           new == {[tran |-> attaches + i, block |-> bs[i]] : i \in 1..k}
<1>4. callbacks' = IF session = "live" THEN callbacks \cup new ELSE callbacks
    BY <1>3 DEF Made
<1>5. Past(h) => Past(h)'
  <2> SUFFICES ASSUME Past(h) PROVE Past(h)'
      OBVIOUS
  <2> HIDE DEF k
  <2>1. h \in Nat /\ h <= attaches /\ h <= attaches'
      BY <1>2, RoomAssumption DEF Past, PluginHandles, k
  <2>2. \A c \in new : c.tran # h
      BY <1>2, <2>1 DEF k
  <2>3. QED
      BY <1>4, <2>1, <2>2 DEF Past
<1>6. Known(h) => Past(h)
    BY KnownIsPast
<1>7. \A i \in 1..k : /\ peers'[bs[i]].tran = attaches + i
                        /\ peers'[bs[i]].live = (session = "live")
  <2> TAKE i \in 1..k
  <2>1. peers'[bs[i]] = [tran |-> attaches + i, handle |-> peers[bs[i]].handle,
                         sub |-> subs[i], live |-> session = "live"]
      BY <1>3 DEF Made
  <2>2. QED
      BY <2>1
<1>8. Owned(h)' => Owned(h)
  <2> SUFFICES ASSUME NEW b \in Listed', peers'[b].handle = h, peers'[b].live, Answered(b)'
               PROVE  Owned(h)
      BY DEF Owned, Route
  <2>1. b \in Listed \/ \E i \in 1..k : b = bs[i]
    <3>1. /\ mVideoRoomPeerList \in Seq(Blocks) /\ bs \in Seq(Blocks) /\ Len(bs) = k
          /\ mVideoRoomPeerList' = mVideoRoomPeerList \o bs
        BY <1>1, <1>3 DEF Made, VMTypeOK
    <3>2. PICK j \in DOMAIN mVideoRoomPeerList' : b = mVideoRoomPeerList'[j]
        BY DEF Listed
    <3> DEFINE L == mVideoRoomPeerList
               n == Len(L)
    <3>3. /\ L \o bs \in Seq(Blocks) /\ Len(L \o bs) = n + k
          /\ \A i \in 1..(n + k) : (L \o bs)[i] = IF i <= n THEN L[i] ELSE bs[i - n]
      <4>1. /\ L \o bs \in Seq(Blocks) /\ Len(L \o bs) = Len(L) + Len(bs)
            /\ \A i \in 1..(Len(L) + Len(bs)) :
                  (L \o bs)[i] = IF i <= Len(L) THEN L[i] ELSE bs[i - Len(L)]
          BY <3>1, ConcatProperties, Zenon
      <4>2. QED
          BY <3>1, <4>1, Zenon
    <3>4. n \in Nat /\ DOMAIN L = 1..n
        BY <3>1
    <3>5. DOMAIN (L \o bs) = 1..(n + k)
      <4>1. DOMAIN (L \o bs) = 1..Len(L \o bs)
          BY <3>3, LenProperties
      <4>2. QED
          BY <3>3, <4>1
    <3> HIDE DEF n, L, k
    <3>6. j \in 1..(n + k) /\ b = IF j <= n THEN L[j] ELSE bs[j - n]
        BY <3>1, <3>2, <3>3, <3>5 DEF L
    <3>7. CASE j <= n
      <4>1. j \in DOMAIN L /\ b = L[j]
          BY <1>2, <3>4, <3>6, <3>7 DEF k
      <4>2. QED
          BY <4>1 DEF Listed, L
    <3>8. CASE ~(j <= n)
      <4>1. j - n \in 1..k /\ b = bs[j - n]
          BY <1>2, <3>4, <3>6, <3>8 DEF k
      <4>2. QED
          BY <4>1
    <3>9. QED
        BY <3>7, <3>8
  <2>2. \A i \in 1..k : b # bs[i]
    <3> SUFFICES ASSUME NEW i \in 1..k, b = bs[i] PROVE FALSE
        OBVIOUS
    <3>1. (session = "live") /\ peers'[b].tran = attaches + i
        BY <1>7, Zenon
    <3>2. [tran |-> attaches + i, block |-> bs[i]] \in callbacks'
        BY <1>4, <3>1
    <3>3. QED
        BY <3>1, <3>2 DEF Answered
  <2>3. b \in Listed /\ b \in Blocks
      BY <1>1, <2>1, <2>2, ListedBlocks
  <2>4. peers'[b] = peers[b]
      BY <1>3, <2>2, <2>3, Zenon DEF Made
  <2>5. callbacks \subseteq callbacks'
      BY <1>4
  <2>6. QED
      BY <2>3, <2>4, <2>5 DEF Owned, Route, Answered
<1>9. QED
    BY <1>5, <1>6, <1>8 DEF Effects, Mild

LEMMA AnswerEffects ==
    ASSUME VMInv, NEW h \in PluginHandles, NEW c \in callbacks, onAttachVideoRoomJoin(c)
    PROVE  Effects(h)
<1>1. VMTypeOK /\ c \in Callback
    BY DEF VMInv, VMTypeOK
<1>2. c.tran \in PluginHandles /\ c.block \in Blocks
    BY <1>1 DEF Callback
<1>3. /\ callbacks' = callbacks \ {c} /\ attaches' = attaches
      /\ mVideoRoomPeerList' = mVideoRoomPeerList
      /\ peers' = [peers EXCEPT ![c.block].handle = c.tran]
    BY DEF onAttachVideoRoomJoin
<1>4. Past(h) => Past(h)' /\ h # c.tran
    BY <1>3 DEF Past
<1>5. \/ srv' = srv
      \/ \E r : srv' = [srv EXCEPT ![c.tran] = r] /\ r.phase = "joining"
    BY DEF onAttachVideoRoomJoin, joinVideoRoom
<1>6. srv \in [PluginHandles -> Handle \cup {Unknown}]
    BY <1>1 DEF VMTypeOK
<1>7. h # c.tran => srv'[h] = srv[h]
    BY <1>2, <1>5, <1>6
<1>8. Known(h) => Past(h)
    BY KnownIsPast
<1>9. ASSUME Known(h)', h = c.tran PROVE srv'[h].phase = "joining" /\ ~Past(h)
  <2>1. ~Past(h) /\ ~Known(h)
      BY <1>4, <1>8, <1>9
  <2>2. QED
      BY <1>5, <1>6, <1>9, <2>1 DEF Known
<1>10. Owned(h)' => Owned(h) \/ ~Past(h)
  <2> SUFFICES ASSUME NEW b \in Listed', peers'[b].handle = h, peers'[b].live, Answered(b)', Past(h)
               PROVE  Owned(h)
      BY DEF Owned, Route
  <2>1. b \in Listed /\ b \in Blocks
      BY <1>1, <1>3, ListedBlocks DEF Listed
  <2>2. b # c.block
    <3> SUFFICES ASSUME b = c.block PROVE FALSE
        OBVIOUS
    <3>1. peers[b] \in Peer \cup FreedBlock /\ peers'[b] = [peers[b] EXCEPT !.handle = c.tran]
        BY <1>1, <1>3, <2>1 DEF VMTypeOK
    <3>2. peers'[b].handle = c.tran
        BY <3>1 DEF Peer, FreedBlock
    <3>3. QED
        BY <1>4, <3>2
  <2>3. peers'[b] = peers[b]
      BY <1>1, <1>3, <2>1, <2>2 DEF VMTypeOK
  <2>4. [tran |-> peers[b].tran, block |-> b] # c
      BY <2>2
  <2>5. Answered(b)
      BY <1>3, <2>3, <2>4 DEF Answered
  <2>6. QED
      BY <2>1, <2>3, <2>5 DEF Owned, Route
<1>11. QED
  <2>1. CASE h = c.tran
      BY <1>4, <1>9, <1>10, <2>1 DEF Effects
  <2>2. CASE h # c.tran
      BY <1>4, <1>7, <1>8, <1>10, <2>2 DEF Effects, Known
  <2>3. QED
      BY <2>1, <2>2

\* One record of srv changes and keeps its role.
LEMMA ChangeIsMild ==
    ASSUME VMInv, NEW g \in PluginHandles, Known(g), NEW r, r.role = srv[g].role,
           r.phase = "joining" => srv[g].phase = "joining",
           srv' = [srv EXCEPT ![g] = r], NEW h \in PluginHandles
    PROVE  Mild(h)
<1>1. srv \in [PluginHandles -> Handle \cup {Unknown}]
    BY DEF VMInv, VMTypeOK
<1>2. CASE h = g
    BY <1>1, <1>2 DEF Mild
<1>3. CASE h # g
    BY <1>1, <1>3 DEF Mild, Known
<1>4. QED
    BY <1>2, <1>3

LEMMA PhaseIsMild ==
    ASSUME VMInv, NEW g \in PluginHandles, Known(g), NEW p,
           p = "joining" => srv[g].phase = "joining",
           srv' = [srv EXCEPT ![g].phase = p], NEW h \in PluginHandles
    PROVE  Mild(h)
<1>1. srv[g] \in Handle
    BY KnownHandle DEF VMInv
<1> DEFINE r == [srv[g] EXCEPT !.phase = p]
<1>2. r.role = srv[g].role /\ r.phase = p /\ srv' = [srv EXCEPT ![g] = r]
    BY <1>1 DEF Handle
<1> HIDE DEF r
<1>3. QED
    BY <1>2, ChangeIsMild

LEMMA KnownIsMild ==
    ASSUME VMInv, NEW g \in PluginHandles, Known(g), NEW feeds \in SUBSET Feeds,
           NEW p \in {"joined", srv[g].phase},
           srv' = [srv EXCEPT ![g] = [srv[g] EXCEPT !.known = feeds, !.phase = p]],
           NEW h \in PluginHandles
    PROVE  Mild(h)
<1>1. srv[g] \in Handle
    BY KnownHandle DEF VMInv
<1> DEFINE r == [srv[g] EXCEPT !.known = feeds, !.phase = p]
<1>2. r.role = srv[g].role /\ r.phase = p /\ srv' = [srv EXCEPT ![g] = r]
    BY <1>1 DEF Handle
<1> HIDE DEF r
<1>3. QED
    BY <1>2, ChangeIsMild

\* The steps that change only srv.
LEMMA SrvIsMild ==
    ASSUME VMInv, NEW h \in PluginHandles, NEW g \in PluginHandles,
           SendSDP(g) \/ \E type : EventSdp(g, type)
    PROVE  Mild(h)
<1>1. CASE \E type : EventSdp(g, type)
  <2>1. Known(g) /\ \E p \in {"offering", "answered"} : srv' = [srv EXCEPT ![g].phase = p]
      BY <1>1 DEF EventSdp
  <2>2. QED
      BY <2>1, PhaseIsMild
<1>2. CASE SendSDP(g) /\ Reaches(g) /\ Known(g)
  <2> DEFINE p == IF srv[g].role = "publisher"
                  THEN IF srv[g].phase \in {"joined", "answered"} THEN "offered" ELSE srv[g].phase
                  ELSE IF srv[g].phase = "offering" THEN "started" ELSE srv[g].phase
  <2>1. p = "joining" => srv[g].phase = "joining"
      OBVIOUS
  <2>2. srv' = [srv EXCEPT ![g].phase = p]
    <3>1. srv \in [PluginHandles -> Handle \cup {Unknown}]
        BY DEF VMInv, VMTypeOK
    <3>2. QED
        BY <1>2, <3>1 DEF SendSDP
  <2> HIDE DEF p
  <2>3. QED
      BY <1>2, <2>1, <2>2, PhaseIsMild
<1>3. CASE SendSDP(g) /\ ~(Reaches(g) /\ Known(g))
  <2>1. UNCHANGED srv
      BY <1>3 DEF SendSDP
  <2>2. QED
      BY <2>1 DEF Mild, Known
<1>4. QED
    BY <1>1, <1>2, <1>3

LEMMA UnpublishEffects ==
    ASSUME VMInv, NEW h \in PluginHandles, NEW g \in PluginHandles, NEW f \in Feeds,
           onVideoRoomEventUnpublish(g, f)
    PROVE  Effects(h)
<1>1. UNCHANGED <<peers, callbacks, attaches>>
    BY DEF onVideoRoomEventUnpublish, DropPeer
<1>2. Listed' \subseteq Listed
  <2>1. CASE SubscriberIndex(f) = 0
      BY <2>1 DEF onVideoRoomEventUnpublish, Listed
  <2>2. CASE SubscriberIndex(f) # 0
    <3> DEFINE L == mVideoRoomPeerList
               n == Len(L)
               k == SubscriberIndex(f)
    <3>1. k \in DOMAIN L /\ VMTypeOK
        BY <2>2, SubscriberIndexFinds DEF VMInv
    <3>2. L' = Unlist(k)
        BY <2>2 DEF onVideoRoomEventUnpublish, DropPeer
    <3>3. n \in Nat /\ DOMAIN L = 1..n /\ \A j \in 1..n : L[j] \in Listed
        BY <3>1, ListedBlocks
    <3>4. /\ DOMAIN L' = 1..(n - 1)
          /\ \A j \in 1..(n - 1) : L'[j] = IF j < k THEN L[j] ELSE L[j + 1]
        BY <3>1, <3>2, UnlistShifts
    <3> HIDE DEF n, k
    <3>5. \A j \in 1..(n - 1) : L'[j] \in Listed
      <4> TAKE j \in 1..(n - 1)
      <4>1. j \in 1..n /\ j + 1 \in 1..n
          BY <3>3
      <4>2. QED
          BY <3>3, <3>4, <4>1
    <3>6. QED
        BY <3>4, <3>5 DEF Listed
  <2>3. QED
      BY <2>1, <2>2
<1>3. Mild(h)
  <2>1. Known(g)
      BY DEF onVideoRoomEventUnpublish
  <2>2. srv[g].known \ {f} \in SUBSET Feeds
      BY EventUnpublishSrv DEF Handle
  <2>3. QED
      BY <2>1, <2>2, EventUnpublishSrv, KnownIsMild
<1>4. QED
    BY <1>1, <1>2, <1>3, QuietEffects

LEMMA SessionGoneEffects ==
    ASSUME VMInv, NEW h \in PluginHandles, SessionGone
    PROVE  Effects(h) /\ ~Known(h)' /\ ~Owned(h)'
<1>1. VMTypeOK /\ ListSound
    BY DEF VMInv
<1>2. /\ callbacks' = {} /\ srv' = [g \in PluginHandles |-> Unknown]
      /\ UNCHANGED <<mVideoRoomPeerList, attaches>>
    BY DEF SessionGone
<1>3. ~Known(h)'
    BY <1>2 DEF Known
<1>4. ~Owned(h)'
  <2> SUFFICES ASSUME NEW b \in Listed', peers'[b].live PROVE FALSE
      BY DEF Owned, Route
  <2>1. b \in Listed /\ b \in Blocks /\ ~Freed(b)
      BY <1>1, <1>2, ListedBlocks DEF Listed, ListSound
  <2>2. peers[b] \in Peer /\ peers'[b] = [peers[b] EXCEPT !.live = FALSE]
      BY <1>1, <2>1, BlockTypes DEF SessionGone
  <2>3. peers'[b].live = FALSE
      BY <2>2 DEF Peer
  <2>4. QED
      BY <2>3
<1>5. QED
    BY <1>2, <1>3, <1>4 DEF Effects, Past

LEMMA VMEffects ==
    ASSUME VMInv, NEW h \in PluginHandles, RoomStep
    PROVE  Effects(h)
<1>1. CASE LosesSession
    BY <1>1, SessionGoneEffects DEF LosesSession, ConnectServer, onSocketDisConnected
<1>2. CASE JoinVideoRoom
  <2>1. <<NoFeed>> \in Seq(Feeds \cup {NoFeed})
      OBVIOUS
  <2>2. Mild(h)
      BY <1>2 DEF JoinVideoRoom, Mild, Known
  <2>3. QED
      BY <1>2, <2>1, <2>2, NewPeersEffects DEF JoinVideoRoom
<1>3. CASE VMLeaveVideoRoom
  <2>1. ~Owned(h)' /\ UNCHANGED <<callbacks, attaches, srv>>
      BY <1>3 DEF VMLeaveVideoRoom, Owned, Route, Listed
  <2>2. QED
      BY <2>1, KnownIsPast DEF Effects, Past, Known
<1>4. CASE onCreateSessionId \/ UNCHANGED vmVars
  <2>1. UNCHANGED <<peers, callbacks, attaches, mVideoRoomPeerList, srv>>
      BY <1>4 DEF onCreateSessionId, vmVars
  <2>2. Mild(h) /\ Listed' = Listed
      BY <2>1 DEF Mild, Known, Listed
  <2>3. QED
      BY <2>1, <2>2, QuietEffects
<1>5. ASSUME NEW g \in PluginHandles, NEW feeds \in SUBSET Feeds, onVideoRoomEventJoin(g, feeds)
      PROVE  Effects(h)
  <2>1. PICK subs \in Orders(feeds) : NewPeers(subs)
      BY <1>5 DEF onVideoRoomEventJoin
  <2>2. Known(g)
      BY <1>5 DEF onVideoRoomEventJoin
  <2>3. Mild(h)
      BY <1>5, <2>2, EventJoinSrv, KnownIsMild
  <2>4. QED
      BY <2>1, <2>3, OrdersAreSeqs, NewPeersEffects
<1>6. ASSUME NEW g \in PluginHandles, NEW f \in Feeds, onVideoRoomEventPublisher(g, f)
      PROVE  Effects(h)
  <2>1. <<f>> \in Seq(Feeds \cup {NoFeed})
      OBVIOUS
  <2>2. Known(g) /\ NewPeers(<<f>>)
      BY <1>6 DEF onVideoRoomEventPublisher
  <2>3. Mild(h)
    <3> DEFINE fs == srv[g].known \cup {f}
    <3>1. /\ fs \in SUBSET Feeds
          /\ srv' = [srv EXCEPT ![g] = [srv[g] EXCEPT !.known = fs, !.phase = srv[g].phase]]
        BY <1>6, EventPublisherSrv DEF Handle
    <3> HIDE DEF fs
    <3>2. QED
        BY <2>2, <3>1, KnownIsMild
  <2>4. QED
      BY <2>1, <2>2, <2>3, NewPeersEffects
<1>7. ASSUME NEW g \in PluginHandles,
             SendSDP(g) \/ \E type \in {"offer", "answer"} : EventSdp(g, type)
      PROVE  Effects(h)
  <2>1. Mild(h)
      BY <1>7, SrvIsMild
  <2>2. UNCHANGED <<peers, callbacks, attaches>> /\ Listed' = Listed
      BY <1>7 DEF SendSDP, EventSdp, Listed
  <2>3. QED
      BY <2>1, <2>2, QuietEffects
<1>8. QED
    BY <1>1, <1>2, <1>3, <1>4, <1>5, <1>6, <1>7, UnpublishEffects, AnswerEffects
       DEF RoomStep, ServerStep

-----------------------------------------------------------------------------
(* What a step of the call does to the stream, the signals and the wire of *)
(* a handle.                                                               *)

SameSignals(h) == Signals(h)' = Signals(h) /\ \A i \in Signals(h) : posted'[i] = posted[i]

Kept(h) == streams'[h] = streams[h] /\ SameSignals(h) /\ wire'[h] = wire[h]

\* The session is gone.
Lost(h) ==
    /\ streams'[h] = streams[h] /\ SameSignals(h) /\ wire'[h] = "nothing"
    /\ ~Known(h)' /\ ~Owned(h)'

\* The stream is gone, and the peer with it.
Gone(h) ==
    /\ streams'[h] = CM!NoStream /\ SameSignals(h) /\ wire'[h] = wire[h]
    /\ ~Owned(h)'

Begun(h) == EventJoined(h) /\ CM!ConnectToPeer_VideoAudio(h)

HandleStep(h) ==
    \/ Kept(h) \/ Lost(h) \/ Gone(h)
    \/ Begun(h) \/ EventJsep(h) \/ SignalingThread(h) \/ TakeSignal

LEMMA QueueOfSignals ==
    ASSUME CallInv
    PROVE  /\ posted \in Seq(CMP!Signal) /\ Len(posted) \in Nat
           /\ DOMAIN posted = 1..Len(posted)
           /\ \A i \in 1..Len(posted) : posted[i] \in CMP!Signal
<1>1. posted \in Seq(CMP!Signal)
    BY DEF CallInv, CMP!RestOK, CMP!QueueOK
<1>2. QED
    BY <1>1

\* What the parts of CallInv say.
LEMMA CallParts ==
    ASSUME CallInv
    PROVE  /\ VMInv /\ VMTypeOK /\ CMP!CMInv /\ CMP!RestOK
           /\ streams \in [PluginHandles -> CMP!Stream \cup {CM!NoStream}]
           /\ wire \in [PluginHandles -> {"nothing", "described", "completed", "stray"}]
BY SameNames DEF CallInv, VMInv, CMP!CMInv, CMP!StreamsOK, WireOK, WireState

\* What is appended to the queue is the last signal of its handle.
LEMMA AppendSignals ==
    ASSUME CallInv, NEW g, NEW kind, posted' = Append(posted, [kind |-> kind, id |-> g])
    PROVE  /\ \A h : h # g => SameSignals(h)
           /\ Signals(g)' = Signals(g) \cup {Len(posted) + 1}
           /\ \A i \in Signals(g) : i \in 1..Len(posted) /\ posted'[i] = posted[i]
           /\ posted'[Len(posted) + 1].kind = kind
           /\ Len(posted) \in Nat
<1> DEFINE s == [kind |-> kind, id |-> g]
           n == Len(posted)
<1>1. /\ posted \in Seq(CMP!Signal) /\ n \in Nat /\ DOMAIN posted = 1..n
    BY QueueOfSignals
<1>2. s.id = g /\ s.kind = kind /\ posted' = Append(posted, s)
    OBVIOUS
<1> HIDE DEF s
<1>3. /\ DOMAIN posted' = 1..(n + 1)
      /\ \A i \in 1..n : posted'[i] = posted[i]
      /\ posted'[n + 1] = s
  <2>1. posted \in Seq(CMP!Signal \cup {s}) /\ s \in CMP!Signal \cup {s}
      BY <1>1
  <2>2. QED
      BY <1>1, <1>2, <2>1
<1> HIDE DEF n
<1>4. \A h : Signals(h) \subseteq 1..n /\ \A i \in 1..n : i \in Signals(h) <=> posted[i].id = h
    BY <1>1 DEF Signals
<1>5. \A h : Signals(h)' = {i \in 1..(n + 1) : posted'[i].id = h}
    BY <1>3 DEF Signals
<1>6. \A h : h # g => SameSignals(h)
  <2> SUFFICES ASSUME NEW h, h # g PROVE SameSignals(h)
      OBVIOUS
  <2>1. Signals(h)' \subseteq Signals(h)
    <3> SUFFICES ASSUME NEW i \in 1..(n + 1), posted'[i].id = h PROVE i \in Signals(h)
        BY <1>5
    <3>1. i # n + 1
        BY <1>2, <1>3
    <3>2. i \in 1..n
        BY <1>1, <3>1
    <3>3. QED
        BY <1>3, <1>4, <3>2
  <2>2. Signals(h) \subseteq Signals(h)'
    <3> SUFFICES ASSUME NEW i \in Signals(h) PROVE i \in 1..(n + 1) /\ posted'[i].id = h
        BY <1>5
    <3>1. i \in 1..n /\ posted[i].id = h
        BY <1>4
    <3>2. QED
        BY <1>1, <1>3, <3>1
  <2>3. QED
      BY <1>3, <1>4, <2>1, <2>2 DEF SameSignals
<1>7. Signals(g)' = Signals(g) \cup {n + 1}
  <2>1. \A i \in 1..(n + 1) : i \in 1..n \/ i = n + 1
      BY <1>1
  <2>2. \A i \in 1..n : i \in 1..(n + 1)
      BY <1>1
  <2>3. n + 1 \in 1..(n + 1)
      BY <1>1
  <2>4. QED
      BY <1>2, <1>3, <1>4, <1>5, <2>1, <2>2, <2>3
<1>8. QED
    BY <1>1, <1>2, <1>3, <1>4, <1>6, <1>7 DEF n

\* When the first signal is taken the others move up by one.
LEMMA TailSignals ==
    ASSUME CallInv, posted # <<>>, posted' = Tail(posted), NEW h
    PROVE  /\ 1 \in DOMAIN posted /\ Head(posted) = posted[1]
           /\ Signals(h) \subseteq Nat \ {0} /\ Signals(h)' \subseteq Nat \ {0}
           /\ \A i \in Nat \ {0} : i \in Signals(h)' <=> i + 1 \in Signals(h)
           /\ \A i \in Signals(h)' : posted'[i] = posted[i + 1]
           /\ 1 \in Signals(h) <=> posted[1].id = h
<1> DEFINE n == Len(posted)
<1>1. posted \in Seq(CMP!Signal) /\ n \in Nat /\ DOMAIN posted = 1..n
    BY QueueOfSignals
<1>2. n > 0 /\ Head(posted) = posted[1]
    BY <1>1
<1>3. /\ posted' \in Seq(CMP!Signal) /\ Len(posted') = n - 1
      /\ \A i \in 1..(n - 1) : posted'[i] = posted[i + 1]
    BY <1>1, <1>2
<1>4. DOMAIN posted' = 1..(n - 1)
    BY <1>3
<1> HIDE DEF n
<1>5. /\ Signals(h) = {i \in 1..n : posted[i].id = h}
      /\ Signals(h)' = {i \in 1..(n - 1) : posted'[i].id = h}
    BY <1>1, <1>4 DEF Signals
<1>6. 1 \in 1..n
    BY <1>1, <1>2
<1>7. \A i \in Nat \ {0} : i \in 1..(n - 1) <=> i + 1 \in 1..n
    BY <1>1
<1>8. Signals(h) \subseteq Nat \ {0} /\ Signals(h)' \subseteq Nat \ {0}
  <2>1. 1..n \subseteq Nat \ {0} /\ 1..(n - 1) \subseteq Nat \ {0}
      BY <1>1
  <2>2. QED
      BY <1>5, <2>1
<1>9. \A i \in Nat \ {0} : i \in Signals(h)' <=> i + 1 \in Signals(h)
    BY <1>3, <1>5, <1>7
<1>10. QED
    BY <1>1, <1>2, <1>3, <1>5, <1>6, <1>8, <1>9

\* The peer taken off the list was the only one with its handle.
LEMMA UnpublishDisowns ==
    ASSUME VMInv, NEW h \in PluginHandles, NEW g \in PluginHandles, NEW f \in Feeds,
           onVideoRoomEventUnpublish(g, f), SubscriberIndex(f) # 0,
           h = peers[mVideoRoomPeerList[SubscriberIndex(f)]].handle
    PROVE  ~Owned(h)'
<1> DEFINE L == mVideoRoomPeerList
           n == Len(L)
           k == SubscriberIndex(f)
<1>1. VMTypeOK /\ k \in DOMAIN L
    BY SubscriberIndexFinds DEF VMInv
<1>2. L' = Unlist(k) /\ UNCHANGED peers
    BY DEF onVideoRoomEventUnpublish, DropPeer
<1>3. /\ n \in Nat /\ DOMAIN L = 1..n
      /\ \A j \in 1..n : L[j] \in Blocks
    BY <1>1, ListedBlocks
<1>4. /\ DOMAIN L' = 1..(n - 1)
      /\ \A j \in 1..(n - 1) : L'[j] = IF j < k THEN L[j] ELSE L[j + 1]
    BY <1>1, <1>2, UnlistShifts
<1>5. \A i, j \in 1..n : L[i] = L[j] => i = j
    BY <1>3 DEF VMInv, ListSound
<1>6. h = peers[L[k]].handle /\ h # 0
    BY RoomAssumption DEF PluginHandles
<1> HIDE DEF n, k
<1>7. \A j \in 1..(n - 1) : L'[j] # L[k] /\ L'[j] \in Blocks
  <2> TAKE j \in 1..(n - 1)
  <2>1. j \in 1..n /\ j + 1 \in 1..n /\ k \in 1..n
      BY <1>1, <1>3
  <2>2. CASE j < k
      BY <1>3, <1>4, <1>5, <2>1, <2>2
  <2>3. CASE ~(j < k)
    <3>1. L'[j] = L[j + 1] /\ j + 1 # k
        BY <1>4, <2>1, <2>3
    <3>2. QED
        BY <1>3, <1>5, <2>1, <3>1
  <2>4. QED
      BY <2>2, <2>3
<1>8. SUFFICES ASSUME NEW b \in Listed', peers'[b].handle = h PROVE FALSE
    BY DEF Owned, Route
<1>9. b \in Blocks /\ b # L[k]
    BY <1>4, <1>7 DEF Listed
<1>10. L[k] \in Blocks /\ peers[b].handle = peers[L[k]].handle /\ peers[b].handle # 0
    BY <1>1, <1>2, <1>3, <1>6, <1>8
<1>11. QED
    BY <1>9, <1>10 DEF VMInv, BlocksDistinct

LEMMA StepCases ==
    ASSUME CallInv, [CallNext]_callVars, NEW h \in PluginHandles
    PROVE  Logout \/ HandleStep(h)
<1>1. /\ VMInv /\ VMTypeOK
      /\ streams \in [PluginHandles -> CMP!Stream \cup {CM!NoStream}]
      /\ wire \in [PluginHandles -> {"nothing", "described", "completed", "stray"}]
    BY CallParts
<1>2. CASE Join \/ SessionCreated \/ AttachAnswered \/ UNCHANGED callVars
  <2>1. Kept(h)
      BY <1>2 DEF Join, SessionCreated, AttachAnswered, callVars, cmVars, Kept, SameSignals, Signals
  <2>2. QED
      BY <2>1 DEF HandleStep
<1>3. CASE Dropped \/ Login
  <2>1. SessionGone /\ UNCHANGED <<streams, posted>> /\ NewWire
      BY <1>3 DEF Dropped, Login, onSocketDisConnected, ConnectServer, CM!SetVideoWindows, cmVars
  <2>2. ~Known(h)' /\ ~Owned(h)'
      BY <1>1, <2>1, SessionGoneEffects
  <2>3. Lost(h)
      BY <2>1, <2>2 DEF Lost, NewWire, SameSignals, Signals
  <2>4. QED
      BY <2>3 DEF HandleStep
<1>4. CASE Leave
  <2>1. streams'[h] = CM!NoStream /\ UNCHANGED <<posted, wire>>
      BY <1>4 DEF Leave, CM!CMLeaveVideoRoom
  <2>2. ~Owned(h)'
      BY <1>4 DEF Leave, VMLeaveVideoRoom, Owned, Route, Listed
  <2>3. Gone(h)
      BY <2>1, <2>2 DEF Gone, SameSignals, Signals
  <2>4. QED
      BY <2>3 DEF HandleStep
<1>5. ASSUME NEW g \in PluginHandles, EventJoined(g) PROVE HandleStep(h)
  <2>1. CASE UNCHANGED cmVars
    <3>1. Kept(h)
        BY <1>5, <2>1 DEF EventJoined, cmVars, Kept, SameSignals, Signals
    <3>2. QED
        BY <3>1 DEF HandleStep
  <2>2. CASE CM!ConnectToPeer_VideoAudio(g)
    <3>1. CASE h = g
        BY <1>5, <2>2, <3>1 DEF Begun, HandleStep
    <3>2. CASE h # g
      <4>1. Kept(h)
          BY <1>1, <1>5, <2>2, <3>2
             DEF EventJoined, CM!ConnectToPeer_VideoAudio, Kept, SameSignals, Signals
      <4>2. QED
          BY <4>1 DEF HandleStep
    <3>3. QED
        BY <3>1, <3>2
  <2>3. QED
      BY <1>5, <2>1, <2>2 DEF EventJoined
<1>6. ASSUME NEW g \in PluginHandles, EventPublishers(g) PROVE HandleStep(h)
  <2>1. Kept(h)
      BY <1>6 DEF EventPublishers, cmVars, Kept, SameSignals, Signals
  <2>2. QED
      BY <2>1 DEF HandleStep
<1>7. ASSUME NEW g \in PluginHandles, NEW f \in Feeds, EventUnpublished(g, f) PROVE HandleStep(h)
  <2>1. CASE UNCHANGED cmVars
    <3>1. Kept(h)
        BY <1>7, <2>1 DEF EventUnpublished, cmVars, Kept, SameSignals, Signals
    <3>2. QED
        BY <3>1 DEF HandleStep
  <2>2. CASE SubscriberIndex(f) # 0 /\ ~UNCHANGED cmVars
    <3> DEFINE k == peers[mVideoRoomPeerList[SubscriberIndex(f)]].handle
    <3>1. CM!onRemoteStreamRemove(k) /\ UNCHANGED wire /\ onVideoRoomEventUnpublish(g, f)
        BY <1>7, <2>2 DEF EventUnpublished
    <3>2. h = k => ~Owned(h)'
        BY <1>1, <2>2, <3>1, UnpublishDisowns
    <3> HIDE DEF k
    <3>3. CASE h = k
      <4>1. Gone(h)
          BY <3>1, <3>2, <3>3 DEF CM!onRemoteStreamRemove, Gone, SameSignals, Signals
      <4>2. QED
          BY <4>1 DEF HandleStep
    <3>4. CASE h # k
      <4>1. Kept(h)
          BY <3>1, <3>4 DEF CM!onRemoteStreamRemove, Kept, SameSignals, Signals
      <4>2. QED
          BY <4>1 DEF HandleStep
    <3>5. QED
        BY <3>3, <3>4
  <2>3. QED
      BY <1>7, <2>1, <2>2 DEF EventUnpublished
<1>8. ASSUME NEW g \in PluginHandles, EventJsep(g) PROVE HandleStep(h)
  <2>1. CASE h = g
      BY <1>8, <2>1 DEF HandleStep
  <2>2. CASE h # g
    <3>1. Kept(h)
        BY <1>1, <1>8, <2>2 DEF EventJsep, CM!onRetmoeSDP, Kept, SameSignals, Signals
    <3>2. QED
        BY <3>1 DEF HandleStep
  <2>3. QED
      BY <2>1, <2>2
<1>9. ASSUME NEW g \in PluginHandles, SignalingThread(g) PROVE HandleStep(h)
  <2>1. CASE h = g
      BY <1>9, <2>1 DEF HandleStep
  <2>2. CASE h # g
    <3>1. streams'[h] = streams[h] /\ UNCHANGED wire
        BY <1>1, <1>9, <2>2 DEF SignalingThread, CM!SignalingThread, CM!OnSuccess, CM!OnFailure,
           CM!OnIceCandidate, CM!OnIceGatheringChange
    <3>2. posted' = posted \/ \E kind : posted' = Append(posted, [kind |-> kind, id |-> g])
        BY <1>9 DEF SignalingThread, CM!SignalingThread, CM!OnSuccess, CM!OnFailure,
           CM!OnIceCandidate, CM!OnIceGatheringChange, CM!Post
    <3>3. SameSignals(h)
        BY <2>2, <3>2, AppendSignals DEF SameSignals, Signals
    <3>4. QED
        BY <3>1, <3>3 DEF Kept, HandleStep
  <2>3. QED
      BY <2>1, <2>2
<1>10. QED
    BY <1>2, <1>3, <1>4, <1>5, <1>6, <1>7, <1>8, <1>9 DEF CallNext, HandleStep

-----------------------------------------------------------------------------
(* What the steps of a stream do to it.                                    *)

LEMMA StreamIsSome == CM!NoStream \notin CMP!Stream
BY SameNames, ConferenceFits, CMP!NoStreamIsNone

LEMMA InMapIsStream ==
    ASSUME CallInv, NEW h \in PluginHandles
    PROVE  InMap(h) <=> streams[h] \in CMP!Stream
BY CallParts, StreamIsSome DEF InMap

LEMMA BegunStream ==
    ASSUME CallInv, NEW h \in PluginHandles, Begun(h)
    PROVE  /\ Known(h) /\ srv[h].role = "publisher" /\ srv[h].phase = "joining"
           /\ srv'[h].phase = "joined"
           /\ InMap(h)' /\ ~streams'[h].told /\ streams'[h].gather = "idle"
           /\ streams'[h].making = <<"offer">>
           /\ UNCHANGED <<posted, wire>>
<1>1. PICK feeds \in SUBSET Feeds : onVideoRoomEventJoin(h, feeds)
    BY DEF Begun, EventJoined
<1>2. Known(h) /\ srv[h].role = "publisher" /\ srv[h].phase = "joining"
    BY <1>1 DEF onVideoRoomEventJoin
<1>3. srv'[h].phase = "joined"
  <2>1. /\ srv' = [srv EXCEPT ![h] = [srv[h] EXCEPT !.known = feeds, !.phase = "joined"]]
        /\ srv[h] \in Handle
      BY <1>1, EventJoinSrv, CallParts
  <2>2. srv \in [PluginHandles -> Handle \cup {Unknown}]
      BY CallParts DEF VMTypeOK
  <2>3. QED
      BY <2>1, <2>2 DEF Handle
<1>4. PICK id \in CM!Unset :
        streams' = [streams EXCEPT ![h] = CM!NewStream(id, FALSE, <<"offer">>)]
    BY DEF Begun, CM!ConnectToPeer_VideoAudio
<1>5. streams'[h] = [win |-> id, told |-> FALSE, making |-> <<"offer">>, gather |-> "idle",
                     failed |-> FALSE]
    BY <1>4, CallParts DEF CM!NewStream
<1>6. <<"offer">> \in Seq({"offer", "answer"})
    OBVIOUS
<1>7. streams'[h] \in CMP!Stream
    BY <1>5, <1>6, SameNames DEF CMP!Stream, CMP!Unset
<1>8. UNCHANGED <<posted, wire>>
    BY DEF Begun, EventJoined, CM!ConnectToPeer_VideoAudio
<1>9. InMap(h)'
    BY <1>7, StreamIsSome DEF InMap, CM!NoStream
<1>10. QED
    BY <1>2, <1>3, <1>5, <1>8, <1>9

LEMMA SdpStream ==
    ASSUME CallInv, [CallNext]_callVars, NEW h \in PluginHandles, NEW type,
           CM!onRetmoeSDP(h, type)
    PROVE  /\ \/ /\ InMap(h) /\ streams'[h].win = streams[h].win
                 /\ streams'[h].told = streams[h].told
                 /\ streams'[h].gather = streams[h].gather
                 /\ streams'[h].making = streams[h].making \o CM!Asked(type)
                 /\ UNCHANGED mRemoteWinds
              \/ /\ ~InMap(h) /\ streams'[h].told = (CM!FirstFree # 0)
                 /\ CM!FirstFree # 0 => streams'[h].win = CM!FirstFree
                 /\ streams'[h].gather = "idle"
                 /\ streams'[h].making = CM!Asked(type)
                 /\ mRemoteWinds' = [w \in DOMAIN mRemoteWinds |->
                                       IF w = CM!FirstFree THEN h ELSE mRemoteWinds[w]]
           /\ InMap(h)'
           /\ \A g \in PluginHandles : g # h => streams'[g] = streams[g]
           /\ UNCHANGED posted
<1>1. streams \in [PluginHandles -> CMP!Stream \cup {CM!NoStream}]
    BY CallParts
<1>2. streams' \in [PluginHandles -> CMP!Stream \cup {CM!NoStream}]
    BY StepParts, SameNames DEF CMP!CMInv, CMP!StreamsOK
<1>3. CASE InMap(h)
  <2>1. streams[h] \in CMP!Stream
      BY <1>3, InMapIsStream
  <2>2. /\ streams' = [streams EXCEPT ![h].making = @ \o CM!Asked(type), ![h].failed = FALSE]
        /\ UNCHANGED <<mRemoteWinds, posted>>
      BY <1>3 DEF CM!onRetmoeSDP, CM!InMap, InMap
  <2>3. streams'[h] = [streams[h] EXCEPT !.making = streams[h].making \o CM!Asked(type),
                                         !.failed = FALSE]
      BY <1>1, <2>1, <2>2 DEF CMP!Stream
  <2>4. /\ streams'[h].win = streams[h].win /\ streams'[h].gather = streams[h].gather
        /\ streams'[h].told = streams[h].told
        /\ streams'[h].making = streams[h].making \o CM!Asked(type)
      BY <2>1, <2>3 DEF CMP!Stream
  <2>5. streams'[h].gather = streams[h].gather /\ DOMAIN streams'[h] = DOMAIN streams[h]
      BY <2>1, <2>3, <2>4
  <2>6. InMap(h)'
    <3>1. DOMAIN streams[h] = {"win", "told", "making", "gather", "failed"}
        BY <2>1 DEF CMP!Stream
    <3>2. DOMAIN CM!NoStream = {"win"}
        BY DEF CM!NoStream
    <3>3. streams'[h] # CM!NoStream
        BY <2>5, <3>1, <3>2
    <3>4. QED
        BY <3>3 DEF InMap, CM!NoStream
  <2>7. \A g \in PluginHandles : g # h => streams'[g] = streams[g]
      BY <1>1, <2>2
  <2>8. QED
      BY <1>3, <2>2, <2>4, <2>6, <2>7
<1>4. CASE ~InMap(h)
  <2>1. /\ \E id \in CM!WindowIDs :
             streams' = [streams EXCEPT
                           ![h] = CM!NewStream(id, CM!FirstFree # CM!NoWindow, CM!Asked(type))]
        /\ mRemoteWinds' = [w \in DOMAIN mRemoteWinds |->
                                IF w = CM!FirstFree THEN h ELSE mRemoteWinds[w]]
        /\ UNCHANGED posted
      BY <1>4 DEF CM!onRetmoeSDP, CM!InMap, InMap
  <2>2. PICK id \in CM!WindowIDs :
          streams' = [streams EXCEPT
                        ![h] = CM!NewStream(id, CM!FirstFree # CM!NoWindow, CM!Asked(type))]
      BY <2>1
  <2>3. streams'[h] = [win |-> id, told |-> CM!FirstFree # 0, making |-> CM!Asked(type),
                       gather |-> "idle", failed |-> FALSE]
      BY <1>1, <2>2 DEF CM!NewStream, CM!NoWindow
  <2>4. CM!FirstFree # 0 => id = CM!FirstFree
      BY DEF CM!WindowIDs, CM!NoWindow
  <2>5. InMap(h)'
    <3>1. DOMAIN streams'[h] = {"win", "told", "making", "gather", "failed"}
        BY <2>3
    <3>2. DOMAIN CM!NoStream = {"win"}
        BY DEF CM!NoStream
    <3>3. streams'[h] # CM!NoStream
        BY <3>1, <3>2
    <3>4. QED
        BY <3>3 DEF InMap, CM!NoStream
  <2>6. \A g \in PluginHandles : g # h => streams'[g] = streams[g]
      BY <1>1, <2>2
  <2>7. QED
      BY <1>4, <2>1, <2>3, <2>4, <2>5, <2>6
<1>5. QED
    BY <1>3, <1>4

\* What is posted for the stream and what becomes of it.
Posts(h, kind) == posted' = Append(posted, [kind |-> kind, id |-> h])

LEMMA SignalStream ==
    ASSUME CallInv, [CallNext]_callVars, NEW h \in PluginHandles, SignalingThread(h)
    PROVE  /\ InMap(h) /\ InMap(h)' /\ streams[h] \in CMP!Stream
           /\ streams'[h].win = streams[h].win /\ streams'[h].told = streams[h].told
           /\ UNCHANGED <<mRemoteWinds, wire>>
           /\ \/ /\ streams[h].making # <<>> /\ Posts(h, Head(streams[h].making))
                 /\ streams'[h].making = Tail(streams[h].making)
                 /\ streams'[h].gather = IF streams[h].gather = "idle" THEN "on"
                                         ELSE streams[h].gather
              \/ /\ streams[h].making # <<>> /\ UNCHANGED posted
                 /\ streams'[h].making = Tail(streams[h].making)
                 /\ streams'[h].gather = streams[h].gather /\ streams'[h].failed
              \/ /\ streams[h].gather = "on" /\ Posts(h, "candidate")
                 /\ streams'[h] = streams[h]
              \/ /\ streams[h].gather = "on" /\ Posts(h, "end")
                 /\ streams'[h].making = streams[h].making
                 /\ streams'[h].gather = "done" /\ streams'[h].failed = streams[h].failed
<1> DEFINE s == streams[h]
<1>1. streams \in [PluginHandles -> CMP!Stream \cup {CM!NoStream}]
    BY CallParts
<1>2. InMap(h)
    BY DEF InMap, SignalingThread, CM!SignalingThread, CM!OnSuccess, CM!OnFailure, CM!InMap,
       CM!OnIceCandidate, CM!OnIceGatheringChange
<1>3. s \in CMP!Stream
    BY <1>2, InMapIsStream
<1>4. UNCHANGED <<mRemoteWinds, wire>>
    BY DEF SignalingThread, CM!SignalingThread, CM!OnSuccess, CM!OnFailure,
       CM!OnIceCandidate, CM!OnIceGatheringChange
<1>5. DOMAIN s = {"win", "told", "making", "gather", "failed"} /\ DOMAIN CM!NoStream = {"win"}
    BY <1>3 DEF CMP!Stream, CM!NoStream
<1>6. CASE CM!OnSuccess(h)
  <2> DEFINE g == IF s.gather = "idle" THEN "on" ELSE s.gather
  <2>1. streams'[h] = [s EXCEPT !.making = Tail(s.making), !.gather = g, !.failed = FALSE]
      BY <1>1, <1>3, <1>6 DEF CM!OnSuccess, CMP!Stream
  <2> HIDE DEF g
  <2>2. /\ streams'[h].making = Tail(s.making) /\ streams'[h].gather = g
        /\ streams'[h].win = s.win /\ DOMAIN streams'[h] = DOMAIN s
        /\ streams'[h].told = s.told
      BY <1>3, <2>1 DEF CMP!Stream
  <2>3. InMap(h)'
      BY <1>5, <2>2 DEF InMap, CM!NoStream
  <2>4. s.making # <<>> /\ Posts(h, Head(s.making))
      BY <1>6 DEF CM!OnSuccess, CM!Post, Posts
  <2>5. QED
      BY <1>2, <1>3, <1>4, <2>2, <2>3, <2>4 DEF g
<1>7. CASE CM!OnFailure(h)
  <2>1. streams'[h] = [s EXCEPT !.making = Tail(s.making), !.failed = TRUE]
      BY <1>1, <1>3, <1>7 DEF CM!OnFailure, CMP!Stream
  <2>2. /\ streams'[h].making = Tail(s.making) /\ streams'[h].gather = s.gather
        /\ streams'[h].win = s.win /\ DOMAIN streams'[h] = DOMAIN s
        /\ streams'[h].told = s.told /\ streams'[h].failed = TRUE
      BY <1>3, <2>1 DEF CMP!Stream
  <2>3. InMap(h)'
      BY <1>5, <2>2 DEF InMap, CM!NoStream
  <2>4. s.making # <<>> /\ UNCHANGED posted
      BY <1>7 DEF CM!OnFailure
  <2>5. QED
      BY <1>2, <1>3, <1>4, <2>2, <2>3, <2>4
<1>8. CASE CM!OnIceCandidate(h)
  <2>1. s.gather = "on" /\ Posts(h, "candidate") /\ UNCHANGED streams
      BY <1>8 DEF CM!OnIceCandidate, CM!Post, Posts
  <2>2. InMap(h)'
      BY <1>2, <2>1 DEF InMap, CM!NoStream
  <2>3. QED
      BY <1>2, <1>3, <1>4, <2>1, <2>2
<1>9. CASE CM!OnIceGatheringChange(h)
  <2>1. streams'[h] = [s EXCEPT !.gather = "done"]
      BY <1>1, <1>3, <1>9 DEF CM!OnIceGatheringChange, CMP!Stream
  <2>2. /\ streams'[h].making = s.making /\ streams'[h].gather = "done"
        /\ streams'[h].win = s.win /\ DOMAIN streams'[h] = DOMAIN s
        /\ streams'[h].told = s.told /\ streams'[h].failed = s.failed
      BY <1>3, <2>1 DEF CMP!Stream
  <2>3. InMap(h)'
      BY <1>5, <2>2 DEF InMap, CM!NoStream
  <2>4. s.gather = "on" /\ Posts(h, "end")
      BY <1>9 DEF CM!OnIceGatheringChange, CM!Post, Posts
  <2>5. QED
      BY <1>2, <1>3, <1>4, <2>2, <2>3, <2>4
<1>10. QED
    BY <1>6, <1>7, <1>8, <1>9 DEF SignalingThread, CM!SignalingThread

-----------------------------------------------------------------------------
(* The invariant, handle by handle.                                        *)

\* TouchedLate for one handle.
Late(h) ==
    ~Untouched(h) => Past(h) /\ (Known(h) => srv[h].phase # "joining")

LEMMA LateIs ==
    ASSUME CallInv, NEW h \in PluginHandles
    PROVE  Late(h)
BY DEF CallInv, TouchedLate, Late, Past

LEMMA SdpPhase ==
    ASSUME CallInv, NEW h \in PluginHandles, NEW type, EventSdp(h, type)
    PROVE  /\ Known(h)
           /\ \/ type = "offer" /\ srv[h].role = "subscriber" /\ srv'[h].phase = "offering"
              \/ type = "answer" /\ srv[h].role = "publisher" /\ srv'[h].phase = "answered"
<1>1. srv \in [PluginHandles -> Handle \cup {Unknown}] /\ VMTypeOK
    BY CallParts DEF VMTypeOK
<1>2. /\ Known(h)
      /\ \/ /\ type = "offer" /\ srv[h].role = "subscriber"
            /\ srv' = [srv EXCEPT ![h].phase = "offering"]
         \/ /\ type = "answer" /\ srv[h].role = "publisher"
            /\ srv' = [srv EXCEPT ![h].phase = "answered"]
    BY DEF EventSdp
<1>3. srv[h] \in Handle
    BY <1>1, <1>2, KnownHandle
<1>4. QED
    BY <1>1, <1>2, <1>3 DEF Handle

\* What TakeSignal does to the signals and the wire of h.
LEMMA TakenSignal ==
    ASSUME CallInv, NEW h \in PluginHandles, TakeSignal
    PROVE  /\ UNCHANGED <<mRemoteWinds, streams, peers, mVideoRoomPeerList, callbacks>>
           /\ posted # <<>> /\ posted' = Tail(posted)
           /\ wire'[h] = IF 1 \in Signals(h) /\ InMap(h) /\ Reaches(h)
                         THEN Wired(h, posted[1].kind) ELSE wire[h]
           /\ \A g \in PluginHandles : g # posted[1].id => wire'[g] = wire[g]
<1>1. /\ UNCHANGED <<mRemoteWinds, streams>> /\ posted # <<>> /\ posted' = Tail(posted)
    BY DEF TakeSignal, CM!TakeSignal
<1>2. UNCHANGED <<peers, mVideoRoomPeerList, callbacks>>
    BY DEF TakeSignal, SendSDP, vmVars
<1>3. Head(posted) = posted[1] /\ (1 \in Signals(h) <=> posted[1].id = h)
    BY <1>1, TailSignals
<1>4. wire \in [PluginHandles -> {"nothing", "described", "completed", "stray"}]
    BY CallParts
<1>5. \/ /\ InMap(posted[1].id)
         /\ wire' = IF Reaches(posted[1].id)
                    THEN [wire EXCEPT ![posted[1].id] = Wired(posted[1].id, posted[1].kind)]
                    ELSE wire
      \/ ~InMap(posted[1].id) /\ wire' = wire
    BY <1>3 DEF TakeSignal, CM!InMap, InMap
<1>6. QED
    BY <1>1, <1>2, <1>3, <1>4, <1>5

LEMMA StepLate ==
    ASSUME CallInv, [CallNext]_callVars, NEW h \in PluginHandles, RoomStep, HandleStep(h)
    PROVE  Late(h)'
<1>1. Effects(h) /\ Late(h)
    BY VMEffects, LateIs DEF CallInv
<1>2. CASE ~Untouched(h)
    BY <1>1, <1>2 DEF Late, Effects
<1>3. ASSUME Known(h), srv'[h].phase # "joining" PROVE Late(h)'
  <2>1. Past(h)
      BY <1>3, KnownIsPast DEF CallInv
  <2>2. QED
      BY <1>1, <1>3, <2>1 DEF Late, Effects
<1>4. ASSUME Untouched(h)' PROVE Late(h)'
    BY <1>4 DEF Late
<1>5. CASE Untouched(h)
  <2>1. CASE Kept(h) \/ Lost(h) \/ Gone(h)
    <3>1. Untouched(h)'
        BY <1>5, <2>1 DEF Kept, Lost, Gone, SameSignals, Untouched, InMap, CM!NoStream
    <3>2. QED
        BY <1>4, <3>1
  <2>2. CASE Begun(h)
      BY <1>3, <2>2, BegunStream
  <2>3. CASE EventJsep(h)
    <3>1. PICK type \in {"offer", "answer"} : EventSdp(h, type)
        BY <2>3 DEF EventJsep
    <3>2. QED
        BY <1>3, <3>1, SdpPhase
  <2>4. CASE SignalingThread(h)
      BY <1>5, <2>4, SignalStream DEF Untouched
  <2>5. CASE TakeSignal
    <3>1. /\ UNCHANGED streams /\ posted # <<>> /\ posted' = Tail(posted)
          /\ 1 \notin Signals(h) => wire'[h] = wire[h]
        BY <2>5, TakenSignal
    <3>2. Signals(h)' = {}
      <4>1. /\ Signals(h)' \subseteq Nat \ {0}
            /\ \A i \in Nat \ {0} : i \in Signals(h)' <=> i + 1 \in Signals(h)
          BY <3>1, TailSignals
      <4>2. QED
          BY <1>5, <4>1 DEF Untouched
    <3>3. Untouched(h)'
        BY <1>5, <3>1, <3>2 DEF Untouched, InMap, CM!NoStream
    <3>4. QED
        BY <1>4, <3>3
  <2>6. QED
      BY <2>1, <2>2, <2>3, <2>4, <2>5 DEF HandleStep
<1>6. QED
    BY <1>2, <1>5

\* KindsFit for one handle: with the making and the signals apart.
MakingFits(h) ==
    Known(h) /\ InMap(h) =>
        \A k \in DOMAIN streams[h].making : Fits(streams[h].making[k], srv[h].role)
SignalsFit(h) ==
    Known(h) => \A i \in Signals(h) : Fits(posted[i].kind, srv[h].role)

\* A handle that was touched was known before, in the same role.
LEMMA TouchedWasKnown ==
    ASSUME CallInv, NEW h \in PluginHandles, Effects(h), Late(h)', ~Untouched(h)', Known(h)'
    PROVE  Past(h) /\ Known(h) /\ srv'[h].role = srv[h].role
BY DEF Effects, Late

LEMMA StepMakingFits ==
    ASSUME CallInv, [CallNext]_callVars, NEW h \in PluginHandles, RoomStep, HandleStep(h),
           Late(h)'
    PROVE  MakingFits(h)'
<1> SUFFICES ASSUME Known(h)', InMap(h)'
             PROVE  \A k \in DOMAIN streams'[h].making : Fits(streams'[h].making[k], srv'[h].role)
    BY DEF MakingFits
<1>1. Effects(h)
    BY VMEffects DEF CallInv
<1>2. ~Untouched(h)'
    BY DEF Untouched
<1>3. Known(h) /\ srv'[h].role = srv[h].role
    BY <1>1, <1>2, TouchedWasKnown
<1>4. InMap(h) =>
        /\ streams[h].making \in Seq({"offer", "answer"})
        /\ \A k \in DOMAIN streams[h].making : Fits(streams[h].making[k], srv[h].role)
    BY <1>3, InMapIsStream DEF CallInv, KindsFit, CMP!Stream
<1>5. CASE Kept(h) \/ TakeSignal
  <2>1. streams'[h] = streams[h]
      BY <1>5, TakenSignal DEF Kept
  <2>2. QED
      BY <1>3, <1>4, <2>1 DEF InMap, CM!NoStream
<1>6. CASE Lost(h) \/ Gone(h)
    BY <1>6 DEF Lost, Gone, InMap, CM!NoStream
<1>7. CASE Begun(h)
    BY <1>3, <1>7, BegunStream DEF Fits
<1>8. CASE EventJsep(h)
  <2>1. PICK type \in {"offer", "answer"} : EventSdp(h, type) /\ CM!onRetmoeSDP(h, type)
      BY <1>8 DEF EventJsep
  <2>2. CM!Asked(type) \in Seq({"offer", "answer"})
    <3>1. <<"answer">> \in Seq({"offer", "answer"}) /\ <<>> \in Seq({"offer", "answer"})
        OBVIOUS
    <3>2. CM!Asked(type) = <<"answer">> \/ CM!Asked(type) = <<>>
        BY DEF CM!Asked
    <3>3. QED
        BY <3>1, <3>2
  <2>3. \A k \in DOMAIN CM!Asked(type) : Fits(CM!Asked(type)[k], srv[h].role)
    <3>1. CASE type = "offer"
      <4>1. srv[h].role = "subscriber"
          BY <2>1, <3>1 DEF EventSdp
      <4>2. QED
          BY <3>1, <4>1 DEF CM!Asked, Fits
    <3>2. CASE type # "offer"
        BY <3>2 DEF CM!Asked
    <3>3. QED
        BY <3>1, <3>2
  <2>4. CASE InMap(h)
    <3> DEFINE m == streams[h].making
               a == CM!Asked(type)
    <3>1. streams'[h].making = m \o a
        BY <2>1, <2>4, SdpStream
    <3>2. m \in Seq({"offer", "answer"}) /\ a \in Seq({"offer", "answer"})
        BY <1>4, <2>2, <2>4
    <3> HIDE DEF a, m
    <3>3. \A k \in DOMAIN (m \o a) :
            \/ k \in DOMAIN m /\ (m \o a)[k] = m[k]
            \/ k - Len(m) \in DOMAIN a /\ (m \o a)[k] = a[k - Len(m)]
        BY <3>2
    <3>4. QED
        BY <1>3, <1>4, <2>3, <2>4, <3>1, <3>3 DEF a, m
  <2>5. CASE ~InMap(h)
      BY <1>3, <2>1, <2>3, <2>5, SdpStream
  <2>6. QED
      BY <2>4, <2>5
<1>9. CASE SignalingThread(h)
  <2>1. InMap(h) /\ \/ streams'[h].making = streams[h].making
                    \/ streams[h].making # <<>> /\ streams'[h].making = Tail(streams[h].making)
      BY <1>9, SignalStream
  <2>2. CASE streams[h].making # <<>> /\ streams'[h].making = Tail(streams[h].making)
    <3> DEFINE m == streams[h].making
    <3>1. m \in Seq({"offer", "answer"}) /\ m # <<>>
        BY <1>4, <2>1, <2>2
    <3> HIDE DEF m
    <3>2. \A k \in DOMAIN Tail(m) : k + 1 \in DOMAIN m /\ Tail(m)[k] = m[k + 1]
        BY <3>1
    <3>3. QED
        BY <1>3, <1>4, <2>1, <2>2, <3>2 DEF m
  <2>3. QED
      BY <1>3, <1>4, <2>1, <2>2
<1>10. QED
    BY <1>5, <1>6, <1>7, <1>8, <1>9 DEF HandleStep

LEMMA StepSignalsFit ==
    ASSUME CallInv, [CallNext]_callVars, NEW h \in PluginHandles, RoomStep, HandleStep(h),
           Late(h)'
    PROVE  SignalsFit(h)'
<1> SUFFICES ASSUME Known(h)', NEW i \in Signals(h)'
             PROVE  Fits(posted'[i].kind, srv'[h].role)
    BY DEF SignalsFit
<1>1. Effects(h)
    BY VMEffects DEF CallInv
<1>2. ~Untouched(h)'
    BY DEF Untouched
<1>3. Known(h) /\ srv'[h].role = srv[h].role
    BY <1>1, <1>2, TouchedWasKnown
<1>4. \A j \in Signals(h) : Fits(posted[j].kind, srv[h].role)
    BY <1>3 DEF CallInv, KindsFit
<1>5. CASE SameSignals(h)
    BY <1>3, <1>4, <1>5 DEF SameSignals
<1>6. CASE UNCHANGED posted
    BY <1>5, <1>6 DEF SameSignals, Signals
<1>7. CASE Begun(h) \/ EventJsep(h)
    BY <1>6, <1>7, BegunStream, SdpStream DEF EventJsep
<1>8. CASE SignalingThread(h)
  <2>1. ASSUME NEW kind, Posts(h, kind), Fits(kind, srv[h].role)
        PROVE  Fits(posted'[i].kind, srv'[h].role)
      BY <1>3, <1>4, <2>1, AppendSignals DEF Posts
  <2>2. CASE streams[h].making # <<>> /\ Posts(h, Head(streams[h].making))
    <3>1. InMap(h) /\ streams[h].making \in Seq({"offer", "answer"})
        BY <1>8, SignalStream DEF CMP!Stream
    <3>2. /\ 1 \in DOMAIN streams[h].making
          /\ Head(streams[h].making) = streams[h].making[1]
        BY <2>2, <3>1
    <3>3. Fits(Head(streams[h].making), srv[h].role)
        BY <1>3, <3>1, <3>2 DEF CallInv, KindsFit
    <3>4. QED
        BY <2>1, <2>2, <3>3
  <2>3. CASE Posts(h, "candidate") \/ Posts(h, "end")
      BY <2>1, <2>3 DEF Fits
  <2>4. QED
      BY <1>6, <1>8, <2>2, <2>3, SignalStream
<1>9. CASE TakeSignal
  <2>1. posted # <<>> /\ posted' = Tail(posted)
      BY <1>9, TakenSignal
  <2>2. i + 1 \in Signals(h) /\ posted'[i] = posted[i + 1]
      BY <2>1, TailSignals
  <2>3. QED
      BY <1>3, <1>4, <2>2
<1>10. QED
    BY <1>5, <1>7, <1>8, <1>9 DEF HandleStep, Kept, Lost, Gone

\* Nothing else changes where a known handle is.
LEMMA PhaseChanges ==
    ASSUME CallInv, [CallNext]_callVars, ~Logout, NEW h \in PluginHandles,
           Known(h), Known(h)', srv'[h].phase # srv[h].phase
    PROVE  EventJoined(h) \/ EventJsep(h) \/ (TakeSignal /\ SendSDP(h) /\ Reaches(h))
<1>1. VMInv /\ VMTypeOK /\ srv \in [PluginHandles -> Handle \cup {Unknown}] /\ srv[h] \in Handle
    BY CallParts, KnownHandle DEF VMTypeOK
<1>2. srv'[h] # srv[h]
    OBVIOUS
<1>3. ~(Join \/ Leave \/ SessionCreated \/ UNCHANGED callVars)
    BY <1>2 DEF Join, JoinVideoRoom, Leave, VMLeaveVideoRoom, SessionCreated,
       onCreateSessionId, callVars, vmVars
<1>4. ~(Login \/ Dropped)
    BY DEF Login, ConnectServer, Dropped, onSocketDisConnected, SessionGone, Known
<1>5. ~AttachAnswered
  <2> SUFFICES ASSUME NEW c \in callbacks, onAttachVideoRoomJoin(c) PROVE FALSE
      BY DEF AttachAnswered
  <2>1. c.tran \in PluginHandles /\ c.tran # h
      BY <1>1, KnownIsPast DEF VMTypeOK, Callback, Past
  <2>2. \/ srv' = srv
        \/ \E r : srv' = [srv EXCEPT ![c.tran] = r]
      BY DEF onAttachVideoRoomJoin, joinVideoRoom
  <2>3. QED
      BY <1>1, <1>2, <2>1, <2>2
<1>6. ASSUME NEW g \in PluginHandles, g # h PROVE ~EventJoined(g)
  <2> SUFFICES ASSUME NEW feeds \in SUBSET Feeds, onVideoRoomEventJoin(g, feeds) PROVE FALSE
      BY DEF EventJoined
  <2>1. srv' = [srv EXCEPT ![g] = [srv[g] EXCEPT !.known = feeds, !.phase = "joined"]]
      BY <1>1, EventJoinSrv
  <2>2. QED
      BY <1>1, <1>2, <1>6, <2>1
<1>7. ASSUME NEW g \in PluginHandles PROVE ~EventPublishers(g)
  <2> SUFFICES ASSUME NEW f \in Feeds, onVideoRoomEventPublisher(g, f) PROVE FALSE
      BY DEF EventPublishers
  <2>1. srv' = [srv EXCEPT ![g] = [srv[g] EXCEPT !.known = srv[g].known \cup {f},
                                                 !.phase = srv[g].phase]]
      BY <1>1, EventPublisherSrv
  <2>2. CASE g = h
    <3>1. srv'[h] = [srv[h] EXCEPT !.known = srv[h].known \cup {f}, !.phase = srv[h].phase]
        BY <1>1, <2>1, <2>2
    <3>2. srv'[h].phase = srv[h].phase
        BY <1>1, <3>1 DEF Handle
    <3>3. QED
        BY <3>2
  <2>3. CASE g # h
      BY <1>1, <1>2, <2>1, <2>3
  <2>4. QED
      BY <2>2, <2>3
<1>8. ASSUME NEW g \in PluginHandles, NEW f \in Feeds PROVE ~EventUnpublished(g, f)
  <2> SUFFICES ASSUME onVideoRoomEventUnpublish(g, f) PROVE FALSE
      BY DEF EventUnpublished
  <2>1. srv' = [srv EXCEPT ![g] = [srv[g] EXCEPT !.known = srv[g].known \ {f},
                                                 !.phase = srv[g].phase]]
      BY <1>1, EventUnpublishSrv
  <2>2. CASE g = h
    <3>1. srv'[h] = [srv[h] EXCEPT !.known = srv[h].known \ {f}, !.phase = srv[h].phase]
        BY <1>1, <2>1, <2>2
    <3>2. srv'[h].phase = srv[h].phase
        BY <1>1, <3>1 DEF Handle
    <3>3. QED
        BY <3>2
  <2>3. CASE g # h
      BY <1>1, <1>2, <2>1, <2>3
  <2>4. QED
      BY <2>2, <2>3
<1>9. ASSUME NEW g \in PluginHandles, g # h PROVE ~EventJsep(g)
  <2> SUFFICES ASSUME NEW type \in {"offer", "answer"}, EventSdp(g, type) PROVE FALSE
      BY DEF EventJsep
  <2>1. \E p : srv' = [srv EXCEPT ![g].phase = p]
      BY DEF EventSdp
  <2>2. QED
      BY <1>1, <1>2, <1>9, <2>1
<1>10. ASSUME NEW g \in PluginHandles PROVE ~SignalingThread(g)
    BY <1>2 DEF SignalingThread, vmVars
<1>11. TakeSignal => SendSDP(h) /\ Reaches(h)
  <2> SUFFICES ASSUME NEW g, SendSDP(g) \/ UNCHANGED vmVars PROVE g = h /\ SendSDP(g) /\ Reaches(g)
      BY DEF TakeSignal
  <2>1. SendSDP(g) /\ Reaches(g) /\ Known(g)
      BY <1>2 DEF SendSDP, vmVars
  <2>2. CASE g # h
      BY <1>1, <1>2, <2>1, <2>2 DEF SendSDP
  <2>3. QED
      BY <2>1, <2>2
<1>12. QED
    BY <1>3, <1>4, <1>5, <1>6, <1>7, <1>8, <1>9, <1>10, <1>11 DEF CallNext

\* Where a handle is once our description has reached the server.
LEMMA DescribedPhase ==
    ASSUME CallInv, NEW h \in PluginHandles, Known(h), SendSDP(h), Reaches(h)
    PROVE  srv'[h].phase = IF srv[h].role = "publisher"
                           THEN IF srv[h].phase \in {"joined", "answered"} THEN "offered"
                                ELSE srv[h].phase
                           ELSE IF srv[h].phase = "offering" THEN "started" ELSE srv[h].phase
<1>1. VMTypeOK /\ srv \in [PluginHandles -> Handle \cup {Unknown}] /\ srv[h] \in Handle
    BY CallParts, KnownHandle DEF VMTypeOK
<1> DEFINE p == IF srv[h].role = "publisher"
                THEN IF srv[h].phase \in {"joined", "answered"} THEN "offered" ELSE srv[h].phase
                ELSE IF srv[h].phase = "offering" THEN "started" ELSE srv[h].phase
<1>2. srv' = [srv EXCEPT ![h].phase = p]
    BY <1>1 DEF SendSDP
<1> HIDE DEF p
<1>3. srv'[h].phase = p
    BY <1>1, <1>2 DEF Handle
<1>4. QED
    BY <1>3 DEF p

\* Only "joined" ends the joining of a publisher.
LEMMA JoiningEnds ==
    ASSUME CallInv, [CallNext]_callVars, ~Logout, NEW h \in PluginHandles,
           Known(h), srv[h].role = "publisher", srv[h].phase = "joining",
           Known(h)', srv'[h].phase # "joining"
    PROVE  EventJoined(h)
<1>1. EventJoined(h) \/ EventJsep(h) \/ (TakeSignal /\ SendSDP(h) /\ Reaches(h))
    BY PhaseChanges
<1>2. ~EventJsep(h)
    BY DEF EventJsep, EventSdp
<1>3. ~(SendSDP(h) /\ Reaches(h))
    BY DescribedPhase
<1>4. QED
    BY <1>1, <1>2, <1>3

\* OwnConnected for one handle.
OwnOK(h) ==
    Known(h) /\ srv[h].role = "publisher" /\ srv[h].phase # "joining" /\ Owned(h)
        => InMap(h) /\ ~streams[h].told

LEMMA StepOwn ==
    ASSUME CallInv, [CallNext]_callVars, ~Logout, NEW h \in PluginHandles, RoomStep, HandleStep(h)
    PROVE  OwnOK(h)'
<1> SUFFICES ASSUME Known(h)', srv'[h].role = "publisher", srv'[h].phase # "joining", Owned(h)'
             PROVE  InMap(h)' /\ ~streams'[h].told
    BY DEF OwnOK
<1>1. Effects(h)
    BY VMEffects DEF CallInv
<1>2. Past(h) /\ Known(h) /\ srv[h].role = "publisher" /\ Owned(h)
    BY <1>1 DEF Effects
<1>3. CASE srv[h].phase = "joining"
  <2>1. EventJoined(h)
      BY <1>2, <1>3, JoiningEnds
  <2>2. HasPeer(h)'
      BY DEF Owned, HasPeer
  <2>3. Begun(h)
      BY <2>1, <2>2 DEF EventJoined, Begun
  <2>4. QED
      BY <2>3, BegunStream
<1>4. CASE srv[h].phase # "joining"
  <2>1. InMap(h) /\ ~streams[h].told
      BY <1>2, <1>4 DEF CallInv, OwnConnected
  <2>2. CASE Kept(h) \/ TakeSignal
    <3>1. streams'[h] = streams[h]
        BY <2>2, TakenSignal DEF Kept
    <3>2. QED
        BY <2>1, <3>1 DEF InMap, CM!NoStream
  <2>3. CASE Lost(h) \/ Gone(h)
      BY <2>3 DEF Lost, Gone
  <2>4. CASE Begun(h)
      BY <2>4, BegunStream
  <2>5. CASE EventJsep(h)
    <3>1. PICK type \in {"offer", "answer"} : CM!onRetmoeSDP(h, type)
        BY <2>5 DEF EventJsep
    <3>2. QED
        BY <2>1, <3>1, SdpStream
  <2>6. CASE SignalingThread(h)
      BY <2>1, <2>6, SignalStream
  <2>7. QED
      BY <2>2, <2>3, <2>4, <2>5, <2>6 DEF HandleStep
<1>5. QED
    BY <1>3, <1>4

\* PhasesFit for one handle.
PhaseFits(h) ==
    Known(h) => /\ srv[h].phase = "joined" => srv[h].role = "publisher"
                /\ srv[h].phase = "offering" => srv[h].role # "publisher"

LEMMA StepPhaseFits ==
    ASSUME CallInv, [CallNext]_callVars, ~Logout, NEW h \in PluginHandles, RoomStep
    PROVE  PhaseFits(h)'
<1> SUFFICES ASSUME Known(h)', srv'[h].phase # "joining"
             PROVE  /\ srv'[h].phase = "joined" => srv'[h].role = "publisher"
                    /\ srv'[h].phase = "offering" => srv'[h].role # "publisher"
    BY DEF PhaseFits
<1>1. Effects(h)
    BY VMEffects DEF CallInv
<1>2. Known(h) /\ srv'[h].role = srv[h].role
    BY <1>1 DEF Effects
<1>3. /\ srv[h].phase = "joined" => srv[h].role = "publisher"
      /\ srv[h].phase = "offering" => srv[h].role # "publisher"
    BY <1>2 DEF CallInv, PhasesFit
<1>4. CASE srv'[h].phase = srv[h].phase
    BY <1>2, <1>3, <1>4
<1>5. CASE EventJoined(h)
  <2>1. PICK feeds \in SUBSET Feeds : onVideoRoomEventJoin(h, feeds)
      BY <1>5 DEF EventJoined
  <2>2. srv[h].role = "publisher"
      BY <2>1 DEF onVideoRoomEventJoin
  <2>3. srv'[h].phase = "joined"
    <3>1. /\ srv' = [srv EXCEPT ![h] = [srv[h] EXCEPT !.known = feeds, !.phase = "joined"]]
          /\ srv[h] \in Handle
        BY <2>1, EventJoinSrv, CallParts
    <3>2. srv \in [PluginHandles -> Handle \cup {Unknown}]
        BY CallParts DEF VMTypeOK
    <3>3. QED
        BY <3>1, <3>2 DEF Handle
  <2>4. QED
      BY <1>2, <2>2, <2>3
<1>6. CASE EventJsep(h)
  <2>1. PICK type \in {"offer", "answer"} : EventSdp(h, type)
      BY <1>6 DEF EventJsep
  <2>2. QED
      BY <1>2, <2>1, SdpPhase
<1>7. CASE SendSDP(h) /\ Reaches(h)
    BY <1>2, <1>3, <1>7, DescribedPhase
<1>8. QED
    BY <1>2, <1>4, <1>5, <1>6, <1>7, PhaseChanges

\* NegotiationUnderWay for one handle.
OnItsWay(h) ==
    /\ InMap(h)
    /\ \/ streams[h].making # <<>> \/ streams[h].failed
       \/ \E i \in Signals(h) : Describes(i)

UnderWay(h) == Awaited(h) => OnItsWay(h)

LEMMA UnderWayIs ==
    /\ NegotiationUnderWay <=> \A h \in PluginHandles : UnderWay(h)
    /\ NegotiationUnderWay' <=> \A h \in PluginHandles : UnderWay(h)'
BY DEF NegotiationUnderWay, UnderWay, OnItsWay, CM!InMap, InMap, CM!NoStream, Signals, Describes

\* The server begins to wait when a stream is asked for a description.
LEMMA WaitBegins ==
    ASSUME CallInv, [CallNext]_callVars, ~Logout, NEW h \in PluginHandles, Known(h), Awaited(h)',
           srv'[h].phase # srv[h].phase
    PROVE  OnItsWay(h)'
<1>1. EventJoined(h) \/ EventJsep(h) \/ (TakeSignal /\ SendSDP(h) /\ Reaches(h))
    BY PhaseChanges DEF Awaited
<1>2. CASE EventJoined(h)
  <2>1. HasPeer(h)'
      BY DEF Awaited, Owned, HasPeer
  <2>2. Begun(h)
      BY <1>2, <2>1 DEF EventJoined, Begun
  <2>3. QED
      BY <2>2, BegunStream DEF OnItsWay
<1>3. CASE EventJsep(h)
  <2>1. PICK type \in {"offer", "answer"} : EventSdp(h, type) /\ CM!onRetmoeSDP(h, type)
      BY <1>3 DEF EventJsep
  <2>2. type = "offer"
      BY <2>1, SdpPhase DEF Awaited
  <2>3. CM!Asked(type) = <<"answer">>
      BY <2>2 DEF CM!Asked
  <2>4. InMap(h)' /\ streams'[h].making # <<>>
    <3>1. CASE InMap(h)
      <4>1. streams[h].making \in Seq({"offer", "answer"})
          BY <3>1, InMapIsStream DEF CMP!Stream
      <4>2. streams[h].making \o <<"answer">> # <<>>
          BY <4>1
      <4>3. QED
          BY <2>1, <2>3, <3>1, <4>2, SdpStream
    <3>2. CASE ~InMap(h)
      <4>1. InMap(h)' /\ streams'[h].making = <<"answer">>
          BY <2>1, <2>3, <3>2, SdpStream
      <4>2. <<"answer">> # <<>>
          OBVIOUS
      <4>3. QED
          BY <4>1, <4>2, Zenon
    <3>3. QED
        BY <3>1, <3>2
  <2>5. QED
      BY <2>4 DEF OnItsWay
<1>4. CASE SendSDP(h) /\ Reaches(h)
    BY <1>4, DescribedPhase DEF Awaited
<1>5. QED
    BY <1>1, <1>2, <1>3, <1>4

\* What was on its way is, or it has arrived.
LEMMA WaitGoesOn ==
    ASSUME CallInv, [CallNext]_callVars, NEW h \in PluginHandles, HandleStep(h),
           Awaited(h), Awaited(h)', srv'[h].phase = srv[h].phase
    PROVE  OnItsWay(h)'
<1>1. OnItsWay(h)
    BY UnderWayIs DEF CallInv, UnderWay
<1>2. CASE Kept(h)
    BY <1>1, <1>2 DEF Kept, SameSignals, OnItsWay, InMap, CM!NoStream, Describes
<1>3. CASE Lost(h) \/ Gone(h)
    BY <1>3 DEF Lost, Gone, Awaited
<1>4. CASE Begun(h)
    BY <1>4, BegunStream DEF OnItsWay
<1>5. CASE EventJsep(h)
  <2>1. PICK type \in {"offer", "answer"} : EventSdp(h, type)
      BY <1>5 DEF EventJsep
  <2>2. QED
      BY <2>1 DEF EventSdp, Awaited
<1>6. CASE SignalingThread(h)
  <2>1. InMap(h)' /\ streams[h] \in CMP!Stream
      BY <1>6, SignalStream
  <2>2. ASSUME NEW kind, Posts(h, kind)
        PROVE  /\ (\E i \in Signals(h) : Describes(i)) => \E i \in Signals(h)' : Describes(i)'
               /\ kind \in {"offer", "answer"} => \E i \in Signals(h)' : Describes(i)'
      BY <2>2, AppendSignals DEF Posts, Describes
  <2>3. CASE streams[h].making # <<>> /\ Posts(h, Head(streams[h].making))
    <3>1. streams[h].making \in Seq({"offer", "answer"})
        BY <2>1 DEF CMP!Stream
    <3>2. Head(streams[h].making) \in {"offer", "answer"}
        BY <2>3, <3>1
    <3>3. QED
        BY <2>1, <2>2, <2>3, <3>2 DEF OnItsWay
  <2>4. CASE streams'[h].failed
      BY <2>1, <2>4 DEF OnItsWay
  <2>5. CASE Posts(h, "candidate") /\ streams'[h] = streams[h]
      BY <1>1, <2>1, <2>2, <2>5 DEF OnItsWay
  <2>6. CASE /\ Posts(h, "end") /\ streams'[h].making = streams[h].making
             /\ streams'[h].failed = streams[h].failed
      BY <1>1, <2>1, <2>2, <2>6 DEF OnItsWay
  <2>7. QED
      BY <1>6, <2>3, <2>4, <2>5, <2>6, SignalStream
<1>7. CASE TakeSignal
  <2>1. /\ UNCHANGED streams /\ posted # <<>> /\ posted' = Tail(posted)
      BY <1>7, TakenSignal
  <2>2. /\ Head(posted) = posted[1] /\ Signals(h) \subseteq Nat \ {0}
        /\ \A i \in Nat \ {0} : i \in Signals(h)' <=> i + 1 \in Signals(h)
        /\ \A i \in Signals(h)' : posted'[i] = posted[i + 1]
        /\ 1 \in Signals(h) <=> posted[1].id = h
      BY <2>1, TailSignals
  <2>3. ~(1 \in Signals(h) /\ Describes(1))
    <3> SUFFICES ASSUME posted[1].id = h, Describes(1) PROVE FALSE
        BY <2>2
    <3>1. SendSDP(h)
        BY <1>1, <1>7, <2>2 DEF TakeSignal, Describes, OnItsWay, InMap, CM!InMap
    <3>2. Known(h) /\ Reaches(h)
        BY DEF Awaited, Owned, Reaches
    <3>3. /\ srv[h].phase = "joined" => srv[h].role = "publisher"
          /\ srv[h].phase = "offering" => srv[h].role # "publisher"
        BY <3>2 DEF CallInv, PhasesFit
    <3>4. QED
        BY <3>1, <3>2, <3>3, DescribedPhase DEF Awaited
  <2>4. ASSUME NEW i \in Signals(h), Describes(i) PROVE \E j \in Signals(h)' : Describes(j)'
    <3>1. i \in Nat \ {0} /\ i # 1
        BY <2>2, <2>3, <2>4
    <3>2. i - 1 \in Nat \ {0} /\ (i - 1) + 1 = i
        BY <3>1
    <3>3. i - 1 \in Signals(h)' /\ posted'[i - 1] = posted[i]
        BY <2>2, <3>2
    <3>4. QED
        BY <2>4, <3>3 DEF Describes
  <2>5. QED
      BY <1>1, <2>1, <2>4 DEF OnItsWay, InMap, CM!NoStream
<1>8. QED
    BY <1>2, <1>3, <1>4, <1>5, <1>6, <1>7 DEF HandleStep

LEMMA StepUnderWay ==
    ASSUME CallInv, [CallNext]_callVars, ~Logout, NEW h \in PluginHandles, RoomStep, HandleStep(h)
    PROVE  UnderWay(h)'
<1> SUFFICES ASSUME Awaited(h)' PROVE OnItsWay(h)'
    BY DEF UnderWay
<1>1. Effects(h)
    BY VMEffects DEF CallInv
<1>2. Known(h) /\ Owned(h)
    BY <1>1 DEF Effects, Awaited
<1>3. CASE srv'[h].phase = srv[h].phase
  <2>1. Awaited(h)
      BY <1>2, <1>3 DEF Awaited
  <2>2. QED
      BY <1>3, <2>1, WaitGoesOn
<1>4. CASE srv'[h].phase # srv[h].phase
    BY <1>2, <1>4, WaitBegins
<1>5. QED
    BY <1>3, <1>4

LEMMA StepWindows ==
    ASSUME CallInv, [CallNext]_callVars
    PROVE  WindowShowsItsStream'
<1> USE DEF WindowShowsItsStream, CM!InMap, CM!NoStream
<1>1. /\ VMInv /\ VMTypeOK
      /\ streams \in [PluginHandles -> CMP!Stream \cup {CM!NoStream}]
    BY CallParts
<1>2. \A w \in DOMAIN mRemoteWinds : mRemoteWinds[w] # 0 =>
         /\ mRemoteWinds[w] \in PluginHandles /\ InMap(mRemoteWinds[w])
         /\ streams[mRemoteWinds[w]].told /\ streams[mRemoteWinds[w]].win = w
         /\ \A v \in DOMAIN mRemoteWinds : mRemoteWinds[v] = mRemoteWinds[w] => v = w
    BY DEF CallInv, CMP!CMInv, CMP!WindsOK, CMP!WindowsLive, InMap
<1>3. ASSUME UNCHANGED <<mRemoteWinds, streams>> PROVE WindowShowsItsStream'
    BY <1>3 DEF CallInv
<1>4. CASE Logout
    BY <1>4 DEF Logout, CM!CMLogout, CM!NoWindows
<1>5. CASE Login \/ Leave
    BY <1>5 DEF Login, Leave, CM!SetVideoWindows, CM!CMLeaveVideoRoom
<1>6. CASE Join \/ Dropped \/ SessionCreated \/ AttachAnswered \/ TakeSignal \/ UNCHANGED callVars
    BY <1>3, <1>6 DEF Join, Dropped, SessionCreated, AttachAnswered, TakeSignal, CM!TakeSignal,
       callVars, cmVars
<1>7. ASSUME NEW h \in PluginHandles, EventJoined(h) PROVE WindowShowsItsStream'
  <2>1. CASE UNCHANGED cmVars
      BY <1>3, <2>1 DEF cmVars
  <2>2. CASE CM!ConnectToPeer_VideoAudio(h)
    <3>1. Begun(h)
        BY <1>7, <2>2 DEF Begun
    <3>2. Known(h) /\ srv[h].phase = "joining"
        BY <3>1, BegunStream
    <3>3. ~InMap(h)
        BY <3>2, LateIs DEF Late, Untouched
    <3>4. /\ UNCHANGED mRemoteWinds
          /\ \A g \in PluginHandles : g # h => streams'[g] = streams[g]
        BY <1>1, <2>2 DEF CM!ConnectToPeer_VideoAudio
    <3>5. QED
        BY <1>2, <3>3, <3>4 DEF InMap
  <2>3. QED
      BY <1>7, <2>1, <2>2 DEF EventJoined
<1>8. ASSUME NEW h \in PluginHandles, EventPublishers(h) PROVE WindowShowsItsStream'
    BY <1>3, <1>8 DEF EventPublishers, cmVars
<1>9. ASSUME NEW k, CM!onRemoteStreamRemove(k) PROVE WindowShowsItsStream'
  <2> DEFINE r == CMP!WindowOf(k)
  <2>1. /\ streams' = [g \in PluginHandles |-> IF g = k THEN CM!NoStream ELSE streams[g]]
        /\ mRemoteWinds' = [w \in DOMAIN mRemoteWinds |-> IF w = r THEN 0 ELSE mRemoteWinds[w]]
      BY <1>9, SameNames DEF CM!onRemoteStreamRemove, CM!FreeWindow
  <2>2. \/ \A w \in DOMAIN mRemoteWinds : mRemoteWinds[w] # k
        \/ r \in DOMAIN mRemoteWinds /\ mRemoteWinds[r] = k
      BY ConferenceFits, CMP!WindowOfShows DEF CallInv, CMP!CMInv
  <2> HIDE DEF r
  <2>3. \A w \in DOMAIN mRemoteWinds' : mRemoteWinds'[w] # 0 =>
           /\ mRemoteWinds'[w] = mRemoteWinds[w] /\ mRemoteWinds[w] # k /\ w \in DOMAIN mRemoteWinds
      BY <1>2, <2>1, <2>2
  <2>4. QED
      BY <1>2, <2>1, <2>3 DEF InMap
<1>10. ASSUME NEW h \in PluginHandles, NEW f \in Feeds, EventUnpublished(h, f)
       PROVE  WindowShowsItsStream'
    BY <1>3, <1>9, <1>10 DEF EventUnpublished, cmVars
<1>11. ASSUME NEW h \in PluginHandles, EventJsep(h) PROVE WindowShowsItsStream'
  <2>1. PICK type \in {"offer", "answer"} : CM!onRetmoeSDP(h, type)
      BY <1>11 DEF EventJsep
  <2>2. /\ InMap(h)'
        /\ \A g \in PluginHandles : g # h => streams'[g] = streams[g]
      BY <2>1, SdpStream
  <2>3. CASE InMap(h)
    <3>1. /\ UNCHANGED mRemoteWinds /\ streams'[h].win = streams[h].win
          /\ streams'[h].told = streams[h].told
        BY <2>1, <2>3, SdpStream
    <3>2. QED
        BY <1>2, <2>2, <3>1 DEF InMap
  <2>4. CASE ~InMap(h)
    <3> DEFINE r == CM!FirstFree
    <3>1. /\ r # 0 => streams'[h].told /\ streams'[h].win = r
          /\ mRemoteWinds' = [w \in DOMAIN mRemoteWinds |-> IF w = r THEN h ELSE mRemoteWinds[w]]
        BY <2>1, <2>4, SdpStream
    <3>2. 0 \notin DOMAIN mRemoteWinds
        BY ConferenceFits DEF CallInv, CMP!CMInv, CMP!WindsOK, CMP!Windows, CMP!ConferenceAssumption
    <3> HIDE DEF r
    <3>3. \A w \in DOMAIN mRemoteWinds' : mRemoteWinds'[w] # 0 =>
            \/ w = r /\ r # 0 /\ mRemoteWinds'[w] = h
            \/ /\ mRemoteWinds'[w] = mRemoteWinds[w] /\ mRemoteWinds[w] # h
               /\ w \in DOMAIN mRemoteWinds
        BY <1>2, <2>4, <3>1, <3>2
    <3> SUFFICES ASSUME NEW w \in DOMAIN mRemoteWinds', mRemoteWinds'[w] # 0
                 PROVE  (/\ InMap(mRemoteWinds[w]) /\ streams[mRemoteWinds[w]].told
                         /\ streams[mRemoteWinds[w]].win = w)'
        BY DEF InMap
    <3>4. CASE w = r /\ r # 0 /\ mRemoteWinds'[w] = h
        BY <2>2, <3>1, <3>4, Zenon DEF InMap
    <3>5. CASE /\ mRemoteWinds'[w] = mRemoteWinds[w] /\ mRemoteWinds[w] # h
               /\ w \in DOMAIN mRemoteWinds
      <4>1. streams'[mRemoteWinds'[w]] = streams[mRemoteWinds[w]]
          BY <1>2, <2>2, <3>5
      <4>2. QED
          BY <1>2, <3>5, <4>1 DEF InMap
    <3>6. QED
        BY <3>3, <3>4, <3>5
  <2>5. QED
      BY <2>3, <2>4
<1>12. ASSUME NEW h \in PluginHandles, SignalingThread(h) PROVE WindowShowsItsStream'
  <2>1. /\ InMap(h)' /\ UNCHANGED mRemoteWinds
        /\ streams'[h].win = streams[h].win /\ streams'[h].told = streams[h].told
      BY <1>12, SignalStream
  <2>2. \A g \in PluginHandles : g # h => streams'[g] = streams[g]
      BY <1>1, <1>12 DEF SignalingThread, CM!SignalingThread, CM!OnSuccess, CM!OnFailure,
         CM!OnIceCandidate, CM!OnIceGatheringChange
  <2>3. QED
      BY <1>2, <2>1, <2>2 DEF InMap
<1>13. QED
    BY <1>4, <1>5, <1>6, <1>7, <1>8, <1>10, <1>11, <1>12 DEF CallNext

\* After a logout, and at the beginning, there is nothing.
LEMMA NothingIsSound ==
    /\ CallInit => WireOK /\ TouchedLate /\ KindsFit /\ OwnConnected /\ QueueInOrder
                   /\ WindowShowsItsStream /\ PhasesFit /\ NegotiationUnderWay
    /\ Logout => (/\ WireOK /\ TouchedLate /\ KindsFit /\ OwnConnected /\ QueueInOrder
                  /\ PhasesFit /\ NegotiationUnderWay)'
<1>1. ASSUME CallInit PROVE /\ \A h \in PluginHandles : Untouched(h) /\ ~Known(h) /\ ~Owned(h)
                            /\ WireOK /\ mRemoteWinds = CM!NoWindows
    BY <1>1 DEF CallInit, VMInit, CM!CMInit, Untouched, InMap, Signals, Known, Owned, Route,
       Listed, WireOK, WireState
<1>2. ASSUME Logout PROVE (\A h \in PluginHandles : Untouched(h) /\ ~Known(h) /\ ~Owned(h))'
                          /\ WireOK'
    BY <1>2 DEF Logout, VMLogout, NewWire, CM!CMLogout, CM!NoStream, Untouched, InMap, Signals,
       Known, Owned, Route, Listed, WireOK, WireState
<1>3. (\A h \in PluginHandles : Untouched(h) /\ ~Known(h) /\ ~Owned(h))
        => /\ TouchedLate /\ KindsFit /\ OwnConnected /\ QueueInOrder
           /\ PhasesFit /\ NegotiationUnderWay
    BY UnderWayIs DEF TouchedLate, KindsFit, OwnConnected, QueueInOrder, PhasesFit,
       UnderWay, Awaited
<1>4. (\A h \in PluginHandles : Untouched(h) /\ ~Known(h) /\ ~Owned(h))'
        => (/\ TouchedLate /\ KindsFit /\ OwnConnected /\ QueueInOrder
            /\ PhasesFit /\ NegotiationUnderWay)'
    BY UnderWayIs DEF TouchedLate, KindsFit, OwnConnected, QueueInOrder, PhasesFit,
       UnderWay, Awaited
<1>5. mRemoteWinds = CM!NoWindows => WindowShowsItsStream
    BY DEF WindowShowsItsStream, CM!NoWindows
<1>6. QED
    BY <1>1, <1>2, <1>3, <1>4, <1>5

-----------------------------------------------------------------------------
(* The order of what is queued and sent.                                   *)

\* QueueInOrder for one handle.
Ordered(h) ==
    Owned(h) /\ wire[h] # "stray" => IF InMap(h) THEN InOrder(h) ELSE Untouched(h)

\* What is sent for a handle by its owner, and does it fit.
LEMMA WiredByOwner ==
    ASSUME CallInv, NEW h \in PluginHandles, Owned(h), wire[h] # "stray", 1 \in Signals(h)
    PROVE  LET kind == posted[1].kind
           IN  /\ Reaches(h)
               /\ kind \in {"offer", "answer", "candidate", "end"}
               /\ kind \in {"offer", "answer"} =>
                    Wired(h, kind) = IF wire[h] = "nothing" THEN "described" ELSE wire[h]
               /\ kind = "candidate" =>
                    Wired(h, kind) = IF wire[h] = "described" THEN wire[h] ELSE "disordered"
               /\ kind = "end" =>
                    Wired(h, kind) = IF wire[h] = "described" THEN "completed" ELSE "disordered"
<1> DEFINE kind == posted[1].kind
<1>1. VMInv /\ VMTypeOK /\ ListSound
    BY CallParts DEF VMInv
<1>2. PICK b \in Route(h) : peers[b].live /\ Answered(b)
    BY DEF Owned
<1>3. b \in Listed /\ b \in Blocks /\ ~Freed(b) /\ peers[b].handle = h
    BY <1>1, <1>2, ListedBlocks DEF Route, ListSound
<1>4. \A a \in Route(h) : a = b
  <2>1. h # 0
      BY RoomAssumption DEF PluginHandles
  <2>2. QED
      BY <1>1, <1>3, <2>1, ListedBlocks DEF Route, VMInv, BlocksDistinct
<1>5. Known(h) /\ (srv[h].role = "publisher" <=> peers[b].sub = NoFeed)
    BY <1>1, <1>2, <1>3 DEF VMInv, RolesSound
<1>6. Fits(kind, srv[h].role)
    BY <1>5 DEF CallInv, KindsFit
<1>7. kind \in {"offer", "answer", "candidate", "end"}
  <2>1. 1 \in 1..Len(posted)
      BY QueueOfSignals DEF Signals
  <2>2. QED
      BY <2>1, QueueOfSignals DEF CMP!Signal
<1> HIDE DEF kind
<1>8. Reaches(h)
    BY <1>2 DEF Reaches
<1> DEFINE publisher == \E a \in Route(h) : peers[a].sub = NoFeed
           stray == wire[h] = "stray" \/ \E a \in Route(h) : ~Answered(a)
<1>9. ~stray
    BY <1>2, <1>4
<1>10. kind \in {"offer", "answer"} => (publisher <=> kind = "offer")
    BY <1>2, <1>4, <1>5, <1>6 DEF Fits
<1>11. Wired(h, kind) =
         CASE stray -> "stray"
           [] ~stray /\ kind \in {"offer", "answer"} /\ (publisher <=> kind = "offer") ->
                IF wire[h] = "nothing" THEN "described" ELSE wire[h]
           [] ~stray /\ kind \in {"offer", "answer"} /\ ~(publisher <=> kind = "offer") -> "confused"
           [] ~stray /\ kind = "candidate" -> IF wire[h] = "described" THEN wire[h] ELSE "disordered"
           [] ~stray /\ kind = "end" -> IF wire[h] = "described" THEN "completed" ELSE "disordered"
    BY DEF Wired
<1> HIDE DEF stray, publisher
<1>12. kind \in {"offer", "answer"} =>
         Wired(h, kind) = IF wire[h] = "nothing" THEN "described" ELSE wire[h]
    BY <1>9, <1>10, <1>11
<1>13. kind = "candidate" =>
         Wired(h, kind) = IF wire[h] = "described" THEN wire[h] ELSE "disordered"
    BY <1>9, <1>11
<1>14. kind = "end" =>
         Wired(h, kind) = IF wire[h] = "described" THEN "completed" ELSE "disordered"
    BY <1>9, <1>11
<1>15. QED
    BY <1>7, <1>8, <1>12, <1>13, <1>14 DEF kind

\* A signal is posted by a stream whose queue is in order.
LEMMA PostInOrder ==
    ASSUME CallInv, [CallNext]_callVars, NEW h \in PluginHandles, InOrder(h), SignalingThread(h)
    PROVE  InOrder(h)'
<1> DEFINE m == Len(posted) + 1
<1>1. /\ InMap(h) /\ UNCHANGED wire /\ streams[h] \in CMP!Stream
      /\ \/ /\ streams[h].making # <<>> /\ Posts(h, Head(streams[h].making))
            /\ streams'[h].gather = IF streams[h].gather = "idle" THEN "on" ELSE streams[h].gather
         \/ UNCHANGED posted /\ streams'[h].gather = streams[h].gather
         \/ /\ streams[h].gather = "on" /\ Posts(h, "candidate")
            /\ streams'[h] = streams[h]
         \/ /\ streams[h].gather = "on" /\ Posts(h, "end")
            /\ streams'[h].gather = "done"
    BY SignalStream
<1>2. streams[h].gather \in {"idle", "on", "done"} /\ streams[h].making \in Seq({"offer", "answer"})
    BY <1>1 DEF CMP!Stream
<1>3. CASE UNCHANGED posted /\ streams'[h].gather = streams[h].gather
    BY <1>1, <1>3 DEF InOrder, Signals, Describes
<1>4. ASSUME NEW kind, Posts(h, kind)
      PROVE  /\ Signals(h)' = Signals(h) \cup {m} /\ m \in Nat
             /\ \A i \in Signals(h) : i \in Nat /\ i < m /\ posted'[i] = posted[i]
             /\ posted'[m].kind = kind
  <2>1. /\ Signals(h)' = Signals(h) \cup {Len(posted) + 1}
        /\ \A i \in Signals(h) : i \in 1..Len(posted) /\ posted'[i] = posted[i]
        /\ posted'[Len(posted) + 1].kind = kind
        /\ Len(posted) \in Nat
      BY <1>4, AppendSignals DEF Posts
  <2>2. \A i \in 1..Len(posted) : i \in Nat /\ i < m
      BY <2>1
  <2>3. QED
      BY <2>1, <2>2
<1> HIDE DEF m
<1>5. CASE /\ streams[h].making # <<>> /\ Posts(h, Head(streams[h].making))
           /\ streams'[h].gather = IF streams[h].gather = "idle" THEN "on" ELSE streams[h].gather
  <2> DEFINE k == Head(streams[h].making)
  <2>1. k \in {"offer", "answer"}
      BY <1>2, <1>5
  <2>2. Posts(h, k)
      BY <1>5
  <2> HIDE DEF k
  <2>3. /\ Signals(h)' = Signals(h) \cup {m} /\ m \in Nat
        /\ \A i \in Signals(h) : i \in Nat /\ i < m /\ posted'[i] = posted[i]
        /\ posted'[m].kind \in {"offer", "answer"}
      BY <1>4, <2>1, <2>2
  <2>4. CASE streams[h].gather = "idle"
    <3>1. Signals(h)' = {m} /\ wire'[h] = "nothing" /\ streams'[h].gather = "on"
        BY <1>1, <1>5, <2>3, <2>4 DEF InOrder
    <3>2. QED
        BY <2>3, <3>1 DEF InOrder, Describes
  <2>5. CASE streams[h].gather # "idle"
    <3>1. streams'[h].gather = streams[h].gather
        BY <1>5, <2>5
    <3>2. QED
        BY <1>1, <2>3, <2>5, <3>1 DEF InOrder, Describes
  <2>6. QED
      BY <2>4, <2>5
<1>6. CASE /\ streams[h].gather = "on" /\ Posts(h, "candidate")
           /\ streams'[h] = streams[h]
  <2>1. /\ Signals(h)' = Signals(h) \cup {m} /\ m \in Nat
        /\ \A i \in Signals(h) : i \in Nat /\ i < m /\ posted'[i] = posted[i]
        /\ posted'[m].kind = "candidate"
      BY <1>4, <1>6
  <2>2. streams'[h].gather = "on"
      BY <1>6
  <2>3. QED
      BY <1>1, <1>6, <2>1, <2>2 DEF InOrder, Describes
<1>7. CASE /\ streams[h].gather = "on" /\ Posts(h, "end")
           /\ streams'[h].gather = "done"
  <2>1. /\ Signals(h)' = Signals(h) \cup {m} /\ m \in Nat
        /\ \A i \in Signals(h) : i \in Nat /\ i < m /\ posted'[i] = posted[i]
        /\ posted'[m].kind = "end"
      BY <1>4, <1>7
  <2>2. QED
      BY <1>1, <1>7, <2>1 DEF InOrder, Describes
<1>8. QED
    BY <1>1, <1>3, <1>5, <1>6, <1>7

\* The first signal is sent by a peer whose queue is in order.
LEMMA TakeInOrder ==
    ASSUME CallInv, NEW h \in PluginHandles, Owned(h), wire[h] # "stray", InMap(h), InOrder(h),
           TakeSignal
    PROVE  InOrder(h)' /\ wire'[h] \in {"nothing", "described", "completed"}
<1>1. /\ UNCHANGED streams /\ posted # <<>> /\ posted' = Tail(posted)
      /\ wire'[h] = IF 1 \in Signals(h) /\ Reaches(h) THEN Wired(h, posted[1].kind) ELSE wire[h]
    BY TakenSignal
<1>2. /\ Signals(h) \subseteq Nat \ {0} /\ Signals(h)' \subseteq Nat \ {0}
      /\ \A i \in Nat \ {0} : i \in Signals(h)' <=> i + 1 \in Signals(h)
      /\ \A i \in Signals(h)' : posted'[i] = posted[i + 1]
    BY <1>1, TailSignals
<1>3. wire[h] \in {"nothing", "described", "completed"}
    BY CallParts
<1>4. streams[h].gather \in {"idle", "on", "done"} /\ streams'[h] = streams[h]
    BY <1>1, InMapIsStream DEF CMP!Stream
<1>5. \A i \in Signals(h) : i = 1 \/ (i - 1 \in Signals(h)' /\ posted'[i - 1] = posted[i])
  <2> TAKE i \in Signals(h)
  <2>1. i \in Nat \ {0}
      BY <1>2
  <2>2. CASE i # 1
    <3>1. i - 1 \in Nat \ {0} /\ (i - 1) + 1 = i
        BY <2>1, <2>2
    <3>2. QED
        BY <1>2, <3>1
  <2>3. QED
      BY <2>2
<1>6. \A i \in Signals(h)' : i + 1 \in Signals(h) /\ posted'[i] = posted[i + 1] /\ i \in Nat \ {0}
    BY <1>2
<1>7. CASE 1 \notin Signals(h)
  <2>1. wire'[h] = wire[h]
      BY <1>1, <1>7
  <2>2. \A i \in Signals(h) : i - 1 \in Signals(h)' /\ posted'[i - 1] = posted[i] /\ i \in Nat
      BY <1>2, <1>5, <1>7
  <2>3. /\ streams[h].gather = "idle" => Signals(h)' = {} /\ wire'[h] = "nothing"
        /\ streams[h].gather = "on" => \A i \in Signals(h)' : posted'[i].kind # "end"
        /\ wire'[h] = "completed" =>
             streams[h].gather = "done" /\ \A i \in Signals(h)' : Describes(i)'
      BY <1>6, <2>1 DEF InOrder, Describes
  <2>4. streams[h].gather # "idle" => wire'[h] # "nothing" \/ \E i \in Signals(h)' : Describes(i)'
      BY <2>1, <2>2 DEF InOrder, Describes
  <2>5. \A i \in Signals(h)' : ~Describes(i)' =>
          wire'[h] # "nothing" \/ \E j \in Signals(h)' : j < i /\ Describes(j)'
    <3> SUFFICES ASSUME NEW i \in Signals(h)', ~Describes(i)', wire'[h] = "nothing"
                 PROVE  \E j \in Signals(h)' : j < i /\ Describes(j)'
        OBVIOUS
    <3>1. i + 1 \in Signals(h) /\ ~Describes(i + 1) /\ wire[h] = "nothing"
        BY <1>6, <2>1 DEF Describes
    <3>2. PICK j \in Signals(h) : j < i + 1 /\ Describes(j)
        BY <3>1 DEF InOrder
    <3>3. j - 1 \in Signals(h)' /\ Describes(j - 1)'
        BY <2>2, <3>2 DEF Describes
    <3>4. j - 1 < i
        BY <1>6, <2>2, <3>2
    <3>5. QED
        BY <3>3, <3>4
  <2>6. \A i, j \in Signals(h)' : i < j /\ posted'[i].kind = "end" => Describes(j)'
    <3> SUFFICES ASSUME NEW i \in Signals(h)', NEW j \in Signals(h)', i < j,
                        posted'[i].kind = "end"
                 PROVE  Describes(j)'
        OBVIOUS
    <3>1. i + 1 < j + 1 /\ i + 1 \in Signals(h) /\ j + 1 \in Signals(h)
        BY <1>6
    <3>2. Describes(j + 1)
        BY <1>6, <3>1 DEF InOrder
    <3>3. QED
        BY <1>6, <3>2 DEF Describes
  <2>7. QED
      BY <1>3, <1>4, <2>1, <2>3, <2>4, <2>5, <2>6 DEF InOrder
<1>8. CASE 1 \in Signals(h)
  <2> DEFINE kind == posted[1].kind
  <2>1. /\ Reaches(h)
        /\ kind \in {"offer", "answer", "candidate", "end"}
        /\ kind \in {"offer", "answer"} =>
             Wired(h, kind) = IF wire[h] = "nothing" THEN "described" ELSE wire[h]
        /\ kind = "candidate" =>
             Wired(h, kind) = IF wire[h] = "described" THEN wire[h] ELSE "disordered"
        /\ kind = "end" =>
             Wired(h, kind) = IF wire[h] = "described" THEN "completed" ELSE "disordered"
      BY <1>8, WiredByOwner
  <2>2. kind \notin {"offer", "answer"} => wire[h] = "described"
    <3> SUFFICES ASSUME ~Describes(1) PROVE wire[h] = "described"
        BY DEF Describes
    <3>1. \A j \in Signals(h) : ~(j < 1)
        BY <1>2
    <3>2. wire[h] # "nothing"
        BY <1>8, <3>1 DEF InOrder
    <3>3. wire[h] # "completed"
        BY <1>8 DEF InOrder
    <3>4. QED
        BY <1>3, <3>2, <3>3
  <2>3. wire'[h] = Wired(h, kind)
      BY <1>1, <1>8, <2>1
  <2>4. /\ wire'[h] \in {"described", "completed"}
        /\ wire'[h] = "completed" => wire[h] = "completed" \/ kind = "end"
      BY <1>3, <2>1, <2>2, <2>3
  <2>5. streams[h].gather # "idle"
      BY <1>8 DEF InOrder
  <2>6. streams[h].gather = "on" => \A i \in Signals(h)' : posted'[i].kind # "end"
      BY <1>6 DEF InOrder
  <2>7. \A i, j \in Signals(h)' : i < j /\ posted'[i].kind = "end" => Describes(j)'
    <3> SUFFICES ASSUME NEW i \in Signals(h)', NEW j \in Signals(h)', i < j,
                        posted'[i].kind = "end"
                 PROVE  Describes(j)'
        OBVIOUS
    <3>1. i + 1 < j + 1 /\ i + 1 \in Signals(h) /\ j + 1 \in Signals(h)
        BY <1>6
    <3>2. Describes(j + 1)
        BY <1>6, <3>1 DEF InOrder
    <3>3. QED
        BY <1>6, <3>2 DEF Describes
  <2>8. ASSUME kind = "end"
        PROVE  streams[h].gather = "done" /\ \A i \in Signals(h)' : Describes(i)'
    <3>1. streams[h].gather = "done"
        BY <1>4, <1>8, <2>5, <2>8 DEF InOrder
    <3>2. \A i \in Signals(h)' : i + 1 \in Signals(h) /\ 1 < i + 1
        BY <1>6
    <3>3. \A i \in Signals(h)' : Describes(i + 1)
        BY <1>8, <2>8, <3>2 DEF InOrder
    <3>4. QED
        BY <1>6, <3>1, <3>3 DEF Describes
  <2>9. ASSUME wire[h] = "completed"
        PROVE  streams[h].gather = "done" /\ \A i \in Signals(h)' : Describes(i)'
      BY <1>6, <2>9 DEF InOrder, Describes
  <2> HIDE DEF kind
  <2>10. QED
      BY <1>4, <2>4, <2>5, <2>6, <2>7, <2>8, <2>9 DEF InOrder
<1>9. QED
    BY <1>7, <1>8

LEMMA StepOrdered ==
    ASSUME CallInv, [CallNext]_callVars, NEW h \in PluginHandles, RoomStep, HandleStep(h), Late(h)'
    PROVE  Ordered(h)'
<1> SUFFICES ASSUME Owned(h)', wire'[h] # "stray"
             PROVE  (IF InMap(h) THEN InOrder(h) ELSE Untouched(h))'
    BY DEF Ordered
<1>1. Effects(h) /\ Late(h)
    BY VMEffects, LateIs DEF CallInv
<1>2. Known(h)'
  <2>1. VMTypeOK' /\ ListSound' /\ RolesSound'
      BY StepParts DEF VMInv
  <2>2. PICK b \in Listed' : peers'[b].handle = h /\ peers'[b].live /\ Answered(b)'
      BY DEF Owned, Route
  <2>3. b \in Blocks /\ ~Freed(b)'
      BY <2>1 DEF VMTypeOK, ListSound, Listed
  <2>4. QED
      BY <2>1, <2>2, <2>3 DEF RolesSound
<1>3. CASE ~Owned(h)
  <2>1. srv'[h].phase = "joining"
      BY <1>1, <1>2, <1>3 DEF Effects
  <2>2. Untouched(h)'
      BY <1>2, <2>1 DEF Late
  <2>3. QED
      BY <2>2 DEF Untouched
<1>4. CASE Owned(h)
  <2>1. ASSUME wire[h] # "stray" PROVE IF InMap(h) THEN InOrder(h) ELSE Untouched(h)
      BY <1>4, <2>1 DEF CallInv, QueueInOrder
  <2>2. CASE Kept(h)
    <3>1. CASE InMap(h)
      <4>1. InOrder(h)'
          BY <2>1, <2>2, <3>1 DEF Kept, SameSignals, InOrder, Describes
      <4>2. InMap(h)'
          BY <2>2, <3>1 DEF Kept, InMap, CM!NoStream
      <4>3. QED
          BY <4>1, <4>2
    <3>2. CASE ~InMap(h)
      <4>1. Untouched(h)'
          BY <2>1, <2>2, <3>2 DEF Kept, SameSignals, Untouched, InMap, CM!NoStream
      <4>2. QED
          BY <4>1 DEF Untouched
    <3>3. QED
        BY <3>1, <3>2
  <2>3. CASE Lost(h) \/ Gone(h)
      BY <2>3 DEF Lost, Gone
  <2>4. ASSUME Untouched(h), UNCHANGED <<posted, wire>>, InMap(h)', streams'[h].gather = "idle"
        PROVE  (IF InMap(h) THEN InOrder(h) ELSE Untouched(h))'
    <3>1. Signals(h)' = {} /\ wire'[h] = "nothing"
        BY <2>4 DEF Untouched, Signals
    <3>2. InOrder(h)'
        BY <2>4, <3>1 DEF InOrder
    <3>3. QED
        BY <2>4, <3>2
  <2>5. CASE Begun(h)
    <3>1. Untouched(h)
        BY <1>1, <2>5, BegunStream DEF Late
    <3>2. QED
        BY <2>4, <2>5, <3>1, BegunStream
  <2>6. CASE EventJsep(h)
    <3>1. PICK type \in {"offer", "answer"} : CM!onRetmoeSDP(h, type)
        BY <2>6 DEF EventJsep
    <3>2. UNCHANGED <<posted, wire>> /\ InMap(h)'
        BY <2>6, <3>1, SdpStream DEF EventJsep
    <3>3. CASE InMap(h)
      <4>1. streams'[h].gather = streams[h].gather
          BY <3>1, <3>3, SdpStream
      <4>2. InOrder(h)
          BY <2>1, <3>2, <3>3
      <4>3. InOrder(h)'
          BY <3>2, <4>1, <4>2 DEF InOrder, Signals, Describes
      <4>4. QED
          BY <3>2, <4>3
    <3>4. CASE ~InMap(h)
      <4>1. streams'[h].gather = "idle" /\ Untouched(h)
          BY <2>1, <3>1, <3>2, <3>4, SdpStream
      <4>2. QED
          BY <2>4, <3>2, <4>1
    <3>5. QED
        BY <3>3, <3>4
  <2>7. CASE SignalingThread(h)
    <3>1. InMap(h) /\ InMap(h)' /\ UNCHANGED wire
        BY <2>7, SignalStream
    <3>2. InOrder(h)'
        BY <2>1, <2>7, <3>1, PostInOrder
    <3>3. QED
        BY <3>1, <3>2
  <2>8. CASE TakeSignal
    <3>1. /\ UNCHANGED streams /\ posted # <<>> /\ posted' = Tail(posted)
          /\ wire'[h] = IF 1 \in Signals(h) /\ InMap(h) /\ Reaches(h)
                        THEN Wired(h, posted[1].kind) ELSE wire[h]
        BY <2>8, TakenSignal
    <3>2. wire[h] # "stray"
      <4>1. wire[h] = "stray" => Wired(h, posted[1].kind) = "stray"
          BY DEF Wired
      <4>2. QED
          BY <3>1, <4>1
    <3>3. CASE InMap(h)
      <4>1. InOrder(h)'
          BY <1>4, <2>1, <2>8, <3>2, <3>3, TakeInOrder
      <4>2. InMap(h)'
          BY <3>1, <3>3 DEF InMap, CM!NoStream
      <4>3. QED
          BY <4>1, <4>2
    <3>4. CASE ~InMap(h)
      <4>1. Untouched(h) /\ wire'[h] = wire[h]
          BY <2>1, <3>1, <3>2, <3>4
      <4>2. /\ Signals(h)' \subseteq Nat \ {0}
            /\ \A i \in Nat \ {0} : i \in Signals(h)' <=> i + 1 \in Signals(h)
          BY <3>1, TailSignals
      <4>3. Untouched(h)'
          BY <3>1, <4>1, <4>2 DEF Untouched, InMap, CM!NoStream
      <4>4. QED
          BY <4>3 DEF Untouched
    <3>5. QED
        BY <3>3, <3>4
  <2>9. QED
      BY <2>2, <2>3, <2>5, <2>6, <2>7, <2>8 DEF HandleStep
<1>5. QED
    BY <1>3, <1>4

\* Whoever sends without owning the handle makes it stray.
LEMMA StepWire ==
    ASSUME CallInv, [CallNext]_callVars, NEW h \in PluginHandles, HandleStep(h)
    PROVE  wire'[h] \in {"nothing", "described", "completed", "stray"}
<1>1. wire[h] \in {"nothing", "described", "completed", "stray"}
    BY CallParts
<1>2. CASE Kept(h) \/ Lost(h) \/ Gone(h) \/ Begun(h) \/ EventJsep(h) \/ SignalingThread(h)
    BY <1>1, <1>2 DEF Kept, Lost, Gone, Begun, EventJoined, EventJsep, SignalingThread
<1>3. CASE TakeSignal
  <2>1. wire'[h] = IF 1 \in Signals(h) /\ InMap(h) /\ Reaches(h)
                   THEN Wired(h, posted[1].kind) ELSE wire[h]
      BY <1>3, TakenSignal
  <2>2. CASE ~(1 \in Signals(h) /\ InMap(h) /\ Reaches(h))
      BY <1>1, <2>1, <2>2
  <2>3. CASE Reaches(h) /\ (wire[h] = "stray" \/ ~Owned(h))
    <3>1. wire[h] = "stray" \/ \E b \in Route(h) : ~Answered(b)
        BY <2>3 DEF Reaches, Owned
    <3>2. Wired(h, posted[1].kind) = "stray"
        BY <3>1 DEF Wired
    <3>3. QED
        BY <1>1, <2>1, <3>2
  <2>4. CASE InMap(h) /\ Owned(h) /\ wire[h] # "stray"
    <3>1. InOrder(h)
        BY <2>4 DEF CallInv, QueueInOrder
    <3>2. QED
        BY <1>3, <2>4, <3>1, TakeInOrder
  <2>5. QED
      BY <2>2, <2>3, <2>4
<1>4. QED
    BY <1>2, <1>3 DEF HandleStep

LEMMA StepWireOK ==
    ASSUME CallInv, [CallNext]_callVars
    PROVE  WireOK'
<1>1. CASE Logout
    BY <1>1, NothingIsSound
<1>2. CASE ~Logout
  <2>1. \A h \in PluginHandles : wire'[h] \in {"nothing", "described", "completed", "stray"}
      BY <1>2, StepCases, StepWire
  <2>2. wire \in [PluginHandles -> {"nothing", "described", "completed", "stray"}]
      BY CallParts
  <2>3. wire' = [h \in PluginHandles |-> wire'[h]]
    <3>1. CASE UNCHANGED wire
        BY <2>2, <3>1
    <3>2. CASE NewWire
        BY <3>2 DEF NewWire
    <3>3. CASE TakeSignal
        BY <2>2, <3>3 DEF TakeSignal
    <3>4. UNCHANGED wire \/ NewWire \/ TakeSignal
        BY DEF CallNext, Login, Logout, Join, Leave, Dropped, SessionCreated, AttachAnswered,
           EventJoined, EventPublishers, EventUnpublished, EventJsep, SignalingThread, callVars
    <3>5. QED
        BY <3>1, <3>2, <3>3, <3>4
  <2>4. QED
      BY <2>1, <2>3 DEF WireOK, WireState
<1>3. QED
    BY <1>1, <1>2

LEMMA StepHandles ==
    ASSUME CallInv, [CallNext]_callVars
    PROVE  (/\ TouchedLate /\ KindsFit /\ OwnConnected /\ QueueInOrder
            /\ PhasesFit /\ NegotiationUnderWay)'
<1>1. CASE Logout
    BY <1>1, NothingIsSound
<1>2. CASE ~Logout
  <2>1. RoomStep
      BY <1>2, CallIsRoom DEF CallInv
  <2>2. \A h \in PluginHandles : HandleStep(h)
      BY <1>2, StepCases
  <2>3. \A h \in PluginHandles : Late(h)'
      BY <2>1, <2>2, StepLate
  <2>4. \A h \in PluginHandles : MakingFits(h)' /\ SignalsFit(h)'
      BY <2>1, <2>2, <2>3, StepMakingFits, StepSignalsFit
  <2>5. \A h \in PluginHandles : OwnOK(h)' /\ Ordered(h)'
      BY <1>2, <2>1, <2>2, <2>3, StepOwn, StepOrdered
  <2>6. TouchedLate'
      BY <2>3 DEF TouchedLate, Late, Past
  <2>7. KindsFit'
      BY <2>4 DEF KindsFit, MakingFits, SignalsFit
  <2>8. OwnConnected' /\ QueueInOrder'
      BY <2>5 DEF OwnConnected, OwnOK, QueueInOrder, Ordered
  <2>9. PhasesFit'
      BY <1>2, <2>1, StepPhaseFits DEF PhasesFit, PhaseFits
  <2>10. NegotiationUnderWay'
      BY <1>2, <2>1, <2>2, StepUnderWay, UnderWayIs
  <2>11. QED
      BY <2>6, <2>7, <2>8, <2>9, <2>10
<1>3. QED
    BY <1>1, <1>2

LEMMA InitCallInv == CallInit => CallInv
<1> SUFFICES ASSUME CallInit PROVE CallInv
    OBVIOUS
<1>1. VMInv
    BY EmptyIsSound DEF CallInit
<1>2. CMP!CMInit
    BY SameNames DEF CallInit, CM!CMInit, CMP!CMInit
<1>3. CMP!CMInv /\ CMP!RestOK
    BY <1>2, ConferenceFits, CMP!InitCMInv, CMP!InitRestOK
<1>4. QED
    BY <1>1, <1>3, NothingIsSound DEF CallInv

LEMMA StepCallInv == CallInv /\ [CallNext]_callVars => CallInv'
<1> SUFFICES ASSUME CallInv, [CallNext]_callVars PROVE CallInv'
    OBVIOUS
<1>1. QED
    BY StepParts, StepWireOK, StepHandles, StepWindows DEF CallInv

LEMMA AlwaysCallInv == CallSpec => []CallInv
BY InitCallInv, StepCallInv, PTL DEF CallSpec

-----------------------------------------------------------------------------

\* On every handle the description is sent first, then the candidates, then "completed".
THEOREM WireStaysInOrder == CallSpec => []WireOrder
<1>1. CallInv => WireOrder
    BY DEF CallInv, WireOK, WireOrder
<1>2. QED
    BY <1>1, AlwaysCallInv, PTL

\* Offers go out with "configure" and answers with "start".
THEOREM RequestsAlwaysFit == CallSpec => []RequestFits
<1>1. CallInv => RequestFits
    BY DEF CallInv, WireOK, RequestFits
<1>2. QED
    BY <1>1, AlwaysCallInv, PTL

\* A window shows a stream that is alive and that was told to draw in that window.
THEOREM WindowsShowTheirStreams == CallSpec => []WindowShowsItsStream
<1>1. CallInv => WindowShowsItsStream
    BY DEF CallInv
<1>2. QED
    BY <1>1, AlwaysCallInv, PTL

\* Our own published stream is never entered in one of the windows meant for the others.
THEOREM OwnStreamStaysHidden == CallSpec => []OwnStreamHasNoWindow
<1>1. ASSUME CallInv PROVE OwnStreamHasNoWindow
  <2> SUFFICES ASSUME NEW h \in PluginHandles, Known(h), srv[h].role = "publisher", Owned(h),
                      NEW w \in DOMAIN mRemoteWinds, mRemoteWinds[w] = h
               PROVE  FALSE
      BY DEF OwnStreamHasNoWindow
  <2>1. h # 0
      BY RoomAssumption DEF PluginHandles
  <2>2. InMap(h) /\ streams[h].told
      BY <1>1, <2>1 DEF CallInv, WindowShowsItsStream, CM!InMap, InMap
  <2>3. srv[h].phase # "joining"
      BY <1>1, <2>2, LateIs DEF Late, Untouched
  <2>4. QED
      BY <1>1, <2>2, <2>3 DEF CallInv, OwnConnected
<1>2. CallInv => OwnStreamHasNoWindow
    BY <1>1
<1>3. QED
    BY <1>2, AlwaysCallInv, PTL

\* While the server waits for our description on a handle with an owner it is being
\* made, or queued, or WebRTC failed.
THEOREM NegotiationStaysUnderWay == CallSpec => []NegotiationUnderWay
<1>1. CallInv => NegotiationUnderWay
    BY DEF CallInv
<1>2. QED
    BY <1>1, AlwaysCallInv, PTL

-----------------------------------------------------------------------------
(* What was proved of each component alone holds in the call.              *)

\* Whatever the conference manager and the streams do, the room manager behaves as
\* JanusVideoRoomManager says.
THEOREM CallImplementsRoom == CallSpec => VMSpec
<1>1. CallInit => VMInit
    BY DEF CallInit
<1>2. CallInv /\ [CallNext]_callVars => [VMNext]_vmVars
    BY CallIsVM DEF CallInv
<1>3. QED
    BY <1>1, <1>2, AlwaysCallInv, PTL DEF CallSpec, VMSpec

\* Whatever the server and the room manager do, the conference manager behaves as
\* ConferenceManager says: the calls it gets are among those it is proved to stand.
THEOREM CallImplementsConference == CallSpec => CMP!CMSpec
<1>1. CallInit => CMP!CMInit
    BY SameNames DEF CallInit, CM!CMInit, CMP!CMInit
<1>2. CallInv /\ [CallNext]_callVars => [CMP!CMNext]_(CMP!cmVars)
    BY CallIsCM DEF CallInv
<1>3. QED
    BY <1>1, <1>2, AlwaysCallInv, PTL DEF CallSpec, CMP!CMSpec

\* Once a peer's attach is answered, the server and the client agree what its handle
\* is for, in the call as in the room manager alone.
THEOREM CallRolesAgree == CallSpec => []RolesAgree
BY CallImplementsRoom, RolesStayAgreed, PTL
=============================================================================
