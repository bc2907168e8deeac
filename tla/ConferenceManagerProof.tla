----------------------- MODULE ConferenceManagerProof -----------------------
(***************************************************************************)
(* Proofs about ConferenceManager, for any set of handles, any number of   *)
(* windows and any order of calls.                                         *)
(***************************************************************************)
EXTENDS ConferenceManager, WellFoundedInduction, TLAPS

WindsOK ==
    /\ DOMAIN mRemoteWinds \subseteq Windows
    /\ mRemoteWinds \in [DOMAIN mRemoteWinds -> Handles \cup {NoHandle}]

StreamsOK == streams \in [Handles -> Stream \cup {NoStream}]

\* A stream that was told its window since the last login is entered for it.
WindowHeld ==
    \A h \in Handles \ orphans :
        InMap(h) /\ streams[h].told =>
            /\ streams[h].win \in DOMAIN mRemoteWinds
            /\ mRemoteWinds[streams[h].win] = h

SameWindow(h) == streams'[h].win = streams[h].win /\ streams'[h].told = streams[h].told

CMInv == WindsOK /\ StreamsOK /\ WindowsLive /\ WindowHeld

-----------------------------------------------------------------------------
(* The first window of a set is in the set.                                *)

LEMMA LeastWindow ==
    ASSUME NEW S \in SUBSET Windows, S # {}
    PROVE  (CHOOSE w \in S : \A v \in S : w <= v) \in S
<1>1. S \subseteq Nat
    BY ConferenceAssumption DEF Windows
<1>2. \E w \in S : \A v \in S : ~(<<v, w>> \in OpToRel(<, Nat))
    BY <1>1, NatLessThanWellFounded, WFMin, Zenon
<1>3. \E w \in S : \A v \in S : w <= v
  <2>1. OpToRel(<, Nat) = {ss \in Nat \X Nat : ss[1] < ss[2]}
      BY Zenon DEF OpToRel
  <2>2. PICK w \in S : \A v \in S : ~(<<v, w>> \in OpToRel(<, Nat))
      BY <1>2
  <2>3. \A v \in S : ~(v < w)
      BY <1>1, <2>1, <2>2
  <2>4. QED
      BY <1>1, <2>3
<1>4. QED
    BY <1>3

LEMMA FirstFreeIsFree ==
    ASSUME WindsOK
    PROVE  \/ FirstFree = NoWindow /\ FreeWindows = {}
           \/ FirstFree \in DOMAIN mRemoteWinds /\ mRemoteWinds[FirstFree] = NoHandle
<1>1. FreeWindows \in SUBSET Windows
    BY DEF FreeWindows, WindsOK
<1>2. CASE FreeWindows = {}
    BY <1>2 DEF FirstFree
<1>3. CASE FreeWindows # {}
    BY <1>1, <1>3, LeastWindow DEF FirstFree, FreeWindows
<1>4. QED
    BY <1>2, <1>3

LEMMA WindowOfShows ==
    ASSUME WindsOK, NEW h
    PROVE  \/ WindowOf(h) = NoWindow /\ \A w \in DOMAIN mRemoteWinds : mRemoteWinds[w] # h
           \/ WindowOf(h) \in DOMAIN mRemoteWinds /\ mRemoteWinds[WindowOf(h)] = h
<1> DEFINE ws == {w \in DOMAIN mRemoteWinds : mRemoteWinds[w] = h}
<1>1. ws \in SUBSET Windows
    BY DEF WindsOK
<1>2. CASE ws = {}
    BY <1>2 DEF WindowOf
<1>3. CASE ws # {}
  <2>1. WindowOf(h) = CHOOSE w \in ws : \A v \in ws : w <= v
      BY <1>3 DEF WindowOf
  <2>2. WindowOf(h) \in ws
      BY <1>1, <1>3, <2>1, LeastWindow
  <2>3. QED BY <2>2
<1>4. QED
    BY <1>2, <1>3

-----------------------------------------------------------------------------

LEMMA NewStreamIsStream ==
    ASSUME NEW w \in Windows \cup {NoWindow}, NEW t \in BOOLEAN,
           NEW m \in Seq({"offer", "answer"})
    PROVE  /\ NewStream(w, t, m) \in Stream
           /\ NewStream(w, t, m).win = w /\ NewStream(w, t, m).told = t
BY DEF NewStream, Stream

LEMMA NoStreamIsNone == NoStream \notin Stream
BY DEF NoStream, Stream, Windows, NoWindow

LEMMA InitCMInv == CMInit => CMInv
BY DEF CMInit, CMInv, WindsOK, StreamsOK, WindowsLive, WindowHeld, InMap, NoWindows

\* The signaling thread changes neither the windows nor which streams exist.
LEMMA StepSignaling ==
    ASSUME CMInv, NEW h \in Handles, SignalingThread(h)
    PROVE  CMInv'
<1>1. UNCHANGED <<mRemoteWinds, orphans>>
    BY DEF SignalingThread, OnSuccess, OnFailure, OnIceCandidate, OnIceGatheringChange
<1>2. /\ StreamsOK'
      /\ \A g \in Handles : InMap(g)' <=> InMap(g)
      /\ \A g \in Handles : InMap(g) => SameWindow(g)
  <2>1. CASE OnIceCandidate(h)
      BY <2>1 DEF OnIceCandidate, InMap, CMInv, StreamsOK, SameWindow
  <2>2. CASE ~OnIceCandidate(h)
    <3>1. streams[h] \in Stream /\ streams[h] # NoStream
        BY <2>2 DEF SignalingThread, OnSuccess, OnFailure, OnIceGatheringChange,
                    InMap, CMInv, StreamsOK
    <3>2. PICK s \in Stream : /\ s.win = streams[h].win /\ s.told = streams[h].told
                           /\ streams' = [streams EXCEPT ![h] = s]
      <4>1. CASE OnSuccess(h)
        <5>1. Tail(streams[h].making) \in Seq({"offer", "answer"})
            BY <3>1, <4>1 DEF OnSuccess, Stream
        <5>2. QED
            BY <3>1, <4>1, <5>1 DEF OnSuccess, Stream
      <4>2. CASE OnFailure(h)
        <5>1. Tail(streams[h].making) \in Seq({"offer", "answer"})
            BY <3>1, <4>2 DEF OnFailure, Stream
        <5>2. QED
            BY <3>1, <4>2, <5>1 DEF OnFailure, Stream
      <4>3. CASE OnIceGatheringChange(h)
          BY <3>1, <4>3 DEF OnIceGatheringChange, Stream
      <4>4. QED
          BY <2>2, <4>1, <4>2, <4>3 DEF SignalingThread
    <3>3. QED
        BY <3>1, <3>2, NoStreamIsNone DEF InMap, CMInv, StreamsOK, SameWindow
  <2>3. QED
      BY <2>1, <2>2
<1>3. QED
    BY <1>1, <1>2 DEF CMInv, WindsOK, WindowsLive, WindowHeld, SameWindow

LEMMA StepRemoteSdp ==
    ASSUME CMInv, NEW h \in Handles, NEW type, onRetmoeSDP(h, type)
    PROVE  CMInv'
<1> USE ConferenceAssumption DEF CMInv
<1>1. CASE InMap(h)
  <2>1. UNCHANGED <<mRemoteWinds, orphans>>
      BY <1>1 DEF onRetmoeSDP
  <2>2. Asked(type) \in Seq({"offer", "answer"})
      BY DEF Asked
  <2>3. streams[h] \in Stream
      BY <1>1 DEF StreamsOK, InMap
  <2>4. PICK s \in Stream : /\ s.win = streams[h].win /\ s.told = streams[h].told
                           /\ streams' = [streams EXCEPT ![h] = s]
    <3>1. streams[h].making \o Asked(type) \in Seq({"offer", "answer"})
        BY <2>2, <2>3 DEF Stream
    <3>2. QED
        BY <1>1, <2>3, <3>1 DEF onRetmoeSDP, Stream
  <2>5. /\ StreamsOK'
        /\ \A g \in Handles : InMap(g)' <=> InMap(g)
        /\ \A g \in Handles : InMap(g) => SameWindow(g)
      BY <2>3, <2>4, NoStreamIsNone DEF StreamsOK, InMap, SameWindow
  <2>6. QED
      BY <2>1, <2>5 DEF WindsOK, WindowsLive, WindowHeld, SameWindow
<1>2. CASE ~InMap(h)
  <2> DEFINE f == FirstFree
             t == f # NoWindow
  <2>1. /\ mRemoteWinds' = [w \in DOMAIN mRemoteWinds |->
                              IF w = f THEN h ELSE mRemoteWinds[w]]
        /\ orphans' = orphans \ {h}
      BY <1>2 DEF onRetmoeSDP
  <2>2. Asked(type) \in Seq({"offer", "answer"})
      BY DEF Asked
  <2>3. \/ f = NoWindow
        \/ f \in DOMAIN mRemoteWinds /\ mRemoteWinds[f] = NoHandle
      BY FirstFreeIsFree
  <2>4. f \in Windows \cup {NoWindow} /\ NoWindow \notin DOMAIN mRemoteWinds
      BY <2>3 DEF WindsOK, Windows, NoWindow
  <2>5. PICK id \in WindowIDs : streams' = [streams EXCEPT ![h] = NewStream(id, t, Asked(type))]
      BY <1>2 DEF onRetmoeSDP
  <2>6. id \in Windows \cup {NoWindow} /\ (t => id = f)
      BY <2>4 DEF WindowIDs, Unset
  <2> HIDE DEF f
  <2>7. t \in BOOLEAN
      OBVIOUS
  <2>8. /\ NewStream(id, t, Asked(type)) \in Stream
        /\ NewStream(id, t, Asked(type)).win = id /\ NewStream(id, t, Asked(type)).told = t
    <3> HIDE DEF t
    <3> QED
      BY <2>2, <2>6, <2>7, NewStreamIsStream
  <2>9. /\ StreamsOK' /\ InMap(h)' /\ streams'[h].told = t
        /\ streams'[h].told => streams'[h].win = f /\ f # NoWindow
      BY <2>5, <2>6, <2>8, NoStreamIsNone DEF StreamsOK, InMap
  <2>10. \A g \in Handles : g # h => streams'[g] = streams[g] /\ (InMap(g)' <=> InMap(g))
      BY <2>5 DEF StreamsOK, InMap
  <2>11. WindsOK'
      BY <2>1 DEF WindsOK
  <2>12. \A w \in DOMAIN mRemoteWinds : mRemoteWinds[w] # h
      BY <1>2 DEF WindowsLive
  <2>13. WindowsLive'
      BY <2>1, <2>3, <2>4, <2>9, <2>10, <2>12 DEF WindowsLive, WindsOK
  <2>14. WindowHeld'
      BY <2>1, <2>3, <2>4, <2>9, <2>10 DEF WindowHeld, WindsOK
  <2>15. QED
      BY <2>9, <2>11, <2>13, <2>14
<1>3. QED
    BY <1>1, <1>2

LEMMA StepRemove ==
    ASSUME CMInv, NEW h \in Handles \cup {NoHandle}, onRemoteStreamRemove(h)
    PROVE  CMInv'
<1> DEFINE r == WindowOf(h)
<1> USE ConferenceAssumption DEF CMInv
<1>1. /\ streams' = [g \in Handles |-> IF g = h THEN NoStream ELSE streams[g]]
      /\ orphans' = orphans \ {h}
      /\ mRemoteWinds' = [w \in DOMAIN mRemoteWinds |->
                            IF w = r THEN NoHandle ELSE mRemoteWinds[w]]
    BY DEF onRemoteStreamRemove, FreeWindow
<1>2. \/ r = NoWindow /\ \A w \in DOMAIN mRemoteWinds : mRemoteWinds[w] # h
      \/ r \in DOMAIN mRemoteWinds /\ mRemoteWinds[r] = h
    BY WindowOfShows
<1>3. NoWindow \notin DOMAIN mRemoteWinds
    BY DEF WindsOK, Windows, NoWindow
<1> HIDE DEF r
<1>4. StreamsOK'
    BY <1>1 DEF StreamsOK
<1>5. WindsOK'
    BY <1>1 DEF WindsOK
<1>6. WindowsLive'
    BY <1>1, <1>2, <1>3 DEF WindowsLive, WindsOK, InMap
<1>7. WindowHeld'
    BY <1>1, <1>2, <1>3 DEF WindowHeld, WindsOK, InMap
<1>8. QED
    BY <1>4, <1>5, <1>6, <1>7

LEMMA StepConnect ==
    ASSUME CMInv, NEW h \in Handles, ConnectToPeer_VideoAudio(h)
    PROVE  CMInv'
<1>1. <<"offer">> \in Seq({"offer", "answer"})
    OBVIOUS
<1>2. PICK id \in Unset : streams' = [streams EXCEPT ![h] = NewStream(id, FALSE, <<"offer">>)]
    BY DEF ConnectToPeer_VideoAudio
<1>3. /\ NewStream(id, FALSE, <<"offer">>) \in Stream
      /\ NewStream(id, FALSE, <<"offer">>).told = FALSE
    BY <1>1, NewStreamIsStream DEF Unset
<1>4. StreamsOK' /\ InMap(h)' /\ ~streams'[h].told
    BY <1>2, <1>3, NoStreamIsNone DEF StreamsOK, InMap, CMInv
<1>5. \A g \in Handles : g # h => streams'[g] = streams[g] /\ (InMap(g)' <=> InMap(g))
    BY <1>2 DEF StreamsOK, InMap, CMInv
<1>6. QED
    BY <1>4, <1>5
       DEF CMInv, WindsOK, WindowsLive, WindowHeld, ConnectToPeer_VideoAudio

LEMMA StepCMInv == CMInv /\ [CMNext]_cmVars => CMInv'
<1> SUFFICES ASSUME CMInv, [CMNext]_cmVars PROVE CMInv'
    OBVIOUS
<1> USE ConferenceAssumption
<1>1. CASE SetVideoWindows
    BY <1>1 DEF SetVideoWindows, CMInv, WindsOK, StreamsOK, WindowsLive, WindowHeld, InMap
<1>2. CASE CMLeaveVideoRoom
    BY <1>2 DEF CMLeaveVideoRoom, CMInv, WindsOK, StreamsOK, WindowsLive, WindowHeld, InMap
<1>3. CASE CMLogout
    BY <1>3 DEF CMLogout, CMInv, WindsOK, StreamsOK, WindowsLive, WindowHeld, InMap, NoWindows
<1>4. CASE TakeSignal
    BY <1>4 DEF TakeSignal, CMInv, WindsOK, StreamsOK, WindowsLive, WindowHeld, InMap
<1>5. CASE UNCHANGED cmVars
    BY <1>5 DEF cmVars, CMInv, WindsOK, StreamsOK, WindowsLive, WindowHeld, InMap
<1>6. QED
    BY <1>1, <1>2, <1>3, <1>4, <1>5, StepConnect, StepRemoteSdp, StepRemove, StepSignaling
       DEF CMNext

LEMMA AlwaysCMInv == CMSpec => []CMInv
BY InitCMInv, StepCMInv, PTL DEF CMSpec

\* A window is entered for a stream that is in the map, and no stream for two windows.
THEOREM WindowsStayLive == CMSpec => []WindowsLive
<1>1. CMInv => WindowsLive
    BY DEF CMInv
<1>2. QED
    BY <1>1, AlwaysCMInv, PTL

\* For any number of streams and windows, and whatever unset window ids hold: of two
\* streams with one window, one was never told a window or is older than the last
\* login.
THEOREM WindowsAreExclusive == CMSpec => []WindowExclusive
<1>1. CMInv => WindowExclusive
    BY DEF CMInv, WindowHeld, WindowExclusive
<1>2. QED
    BY <1>1, AlwaysCMInv, PTL

-----------------------------------------------------------------------------
(* Types.  The parts CMInv leaves out are those the windows do not depend  *)
(* on: the queue, and that there are either no windows or all of them.     *)

WindsAllOrNone == mRemoteWinds = NoWindows \/ DOMAIN mRemoteWinds = Windows

QueueOK == posted \in Seq(Signal) /\ Len(posted) <= MaxPosted

RestOK == WindsAllOrNone /\ QueueOK /\ orphans \in SUBSET Handles

LEMMA InitRestOK == CMInit => RestOK
<1>1. <<>> \in Seq(Signal) /\ Len(<<>>) = 0 /\ 0 <= MaxPosted
    BY ConferenceAssumption
<1>2. QED
    BY <1>1 DEF CMInit, RestOK, WindsAllOrNone, QueueOK

LEMMA PostFits ==
    ASSUME QueueOK, NEW h \in Handles, NEW kind \in {"offer", "answer", "candidate", "end"},
           Post(kind, h)
    PROVE  QueueOK'
<1> DEFINE p == [kind |-> kind, id |-> h]
<1>1. posted \in Seq(Signal) /\ p \in Signal /\ posted' = Append(posted, p)
    BY DEF QueueOK, Post, Signal
<1> HIDE DEF p
<1>2. posted' \in Seq(Signal) /\ Len(posted') = Len(posted) + 1 /\ Len(posted) \in Nat
    BY <1>1
<1>3. Len(posted) < MaxPosted
    BY DEF Post
<1>4. QED
    BY <1>2, <1>3, ConferenceAssumption DEF QueueOK

\* No window stays no window when the windows are changed one by one.
LEMMA SameWindows ==
    ASSUME WindsAllOrNone, DOMAIN mRemoteWinds' = DOMAIN mRemoteWinds,
           mRemoteWinds' = [w \in DOMAIN mRemoteWinds' |-> mRemoteWinds'[w]]
    PROVE  WindsAllOrNone'
BY DEF WindsAllOrNone, NoWindows

LEMMA StepRestOK == CMInv /\ RestOK /\ [CMNext]_cmVars => RestOK'
<1> SUFFICES ASSUME CMInv, RestOK, [CMNext]_cmVars PROVE RestOK'
    OBVIOUS
<1>0. WindsAllOrNone /\ QueueOK /\ orphans \in SUBSET Handles
    BY DEF RestOK
<1>1. CASE SetVideoWindows
    BY <1>0, <1>1 DEF SetVideoWindows, RestOK, WindsAllOrNone, QueueOK
<1>2. CASE CMLeaveVideoRoom
  <2>1. WindsAllOrNone'
      BY <1>0, <1>2, SameWindows DEF CMLeaveVideoRoom
  <2>2. QED
      BY <1>0, <1>2, <2>1 DEF CMLeaveVideoRoom, RestOK, QueueOK
<1>3. CASE CMLogout
  <2>1. <<>> \in Seq(Signal) /\ Len(<<>>) = 0 /\ 0 <= MaxPosted
      BY ConferenceAssumption
  <2>2. QED
      BY <1>3, <2>1 DEF CMLogout, RestOK, WindsAllOrNone, QueueOK
<1>4. ASSUME NEW h \in Handles, ConnectToPeer_VideoAudio(h) PROVE RestOK'
    BY <1>0, <1>4 DEF ConnectToPeer_VideoAudio, RestOK, WindsAllOrNone, QueueOK
<1>5. ASSUME NEW h \in Handles, NEW type, onRetmoeSDP(h, type) PROVE RestOK'
  <2>1. WindsAllOrNone'
    <3>1. CASE UNCHANGED mRemoteWinds
        BY <1>0, <3>1 DEF WindsAllOrNone
    <3>2. CASE mRemoteWinds' = [w \in DOMAIN mRemoteWinds |->
                                  IF w = FirstFree THEN h ELSE mRemoteWinds[w]]
        BY <1>0, <3>2, SameWindows
    <3>3. QED
        BY <1>5, <3>1, <3>2 DEF onRetmoeSDP
  <2>2. orphans' \in SUBSET Handles /\ QueueOK'
      BY <1>0, <1>5 DEF onRetmoeSDP, QueueOK
  <2>3. QED
      BY <2>1, <2>2 DEF RestOK
<1>6. ASSUME NEW h, onRemoteStreamRemove(h) PROVE RestOK'
  <2>1. WindsAllOrNone'
      BY <1>0, <1>6, SameWindows DEF onRemoteStreamRemove, FreeWindow
  <2>2. orphans' \in SUBSET Handles /\ QueueOK'
      BY <1>0, <1>6 DEF onRemoteStreamRemove, QueueOK
  <2>3. QED
      BY <2>1, <2>2 DEF RestOK
<1>7. ASSUME NEW h \in Handles, SignalingThread(h) PROVE RestOK'
  <2>1. UNCHANGED <<mRemoteWinds, orphans>>
      BY <1>7 DEF SignalingThread, OnSuccess, OnFailure, OnIceCandidate, OnIceGatheringChange
  <2>2. QueueOK'
    <3>1. CASE OnSuccess(h)
      <4>1. streams[h] \in Stream /\ streams[h].making # <<>>
          BY <3>1 DEF OnSuccess, InMap, CMInv, StreamsOK
      <4>2. streams[h].making \in Seq({"offer", "answer"})
          BY <4>1 DEF Stream
      <4>3. Head(streams[h].making) \in {"offer", "answer"}
          BY <4>1, <4>2
      <4>4. QED
          BY <1>0, <3>1, <4>3, PostFits DEF OnSuccess
    <3>2. CASE OnFailure(h)
        BY <1>0, <3>2 DEF OnFailure, QueueOK
    <3>3. CASE OnIceCandidate(h) \/ OnIceGatheringChange(h)
        BY <1>0, <3>3, PostFits DEF OnIceCandidate, OnIceGatheringChange
    <3>4. QED
        BY <1>7, <3>1, <3>2, <3>3 DEF SignalingThread
  <2>3. QED
      BY <1>0, <2>1, <2>2 DEF RestOK, WindsAllOrNone
<1>8. CASE TakeSignal
  <2>1. posted \in Seq(Signal) /\ posted # <<>> /\ posted' = Tail(posted) /\ Len(posted) <= MaxPosted
      BY <1>0, <1>8 DEF TakeSignal, QueueOK
  <2>2. QueueOK'
      BY <2>1, ConferenceAssumption DEF QueueOK
  <2>3. QED
      BY <1>0, <1>8, <2>2 DEF TakeSignal, RestOK, WindsAllOrNone
<1>9. CASE UNCHANGED cmVars
    BY <1>0, <1>9 DEF cmVars, RestOK, WindsAllOrNone, QueueOK
<1>10. QED
    BY <1>1, <1>2, <1>3, <1>4, <1>5, <1>6, <1>7, <1>8, <1>9 DEF CMNext

LEMMA AlwaysRestOK == CMSpec => []RestOK
BY InitRestOK, StepRestOK, AlwaysCMInv, PTL DEF CMSpec

\* Every state has the types of CMTypeOK: a window number given to a stream is one of
\* the main window's, and a queued signal carries a handle the server gave out.
THEOREM ConferenceTypeCorrect == CMSpec => []CMTypeOK
<1>1. CMInv /\ RestOK => CMTypeOK
    BY DEF CMInv, WindsOK, StreamsOK, RestOK, WindsAllOrNone, QueueOK, CMTypeOK
<1>2. QED
    BY <1>1, AlwaysCMInv, AlwaysRestOK, PTL
=============================================================================
