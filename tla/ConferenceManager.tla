-------------------------- MODULE ConferenceManager --------------------------
(***************************************************************************)
(* ConferenceManager's video side: the map of streams, the remote video    *)
(* windows, and the signals the streams' peer connections post.            *)
(*                                                                         *)
(* Two threads.  The main thread runs the manager's callbacks and the      *)
(* user's calls.  WebRTC's signaling thread runs OnSuccess, OnFailure,     *)
(* OnIceCandidate and OnIceGatheringChange of a stream; each emits a Qt    *)
(* signal carrying only the stream's handle, which is queued and handled   *)
(* by the main thread later, when that stream may be gone or replaced.     *)
(*                                                                         *)
(* The calls come from JanusVideoRoomManager with any handle, in any order *)
(* (VideoCall.tla composes the two).  Streams of text rooms live in a      *)
(* second map under other handles and do not touch any of this state.      *)
(***************************************************************************)
EXTENDS Integers, Sequences

CONSTANTS
    Handles,        \* plugin handles the server may give out
    NoHandle,       \* 0: a window that is free, a handle that is not set
    NumWindows,     \* remote video windows of the main window
    MaxMaking,      \* bound: unfinished CreateOffer/CreateAnswer of one stream
    MaxPosted       \* bound: signals queued for the main thread

ASSUME ConferenceAssumption ==
    /\ NoHandle \notin Handles
    /\ NumWindows \in Nat
    /\ MaxMaking \in Nat \ {0}
    /\ MaxPosted \in Nat \ {0}

Windows == 1..NumWindows
NoWindow == 0
NoStream == [win |-> -1]
NoWindows == [w \in {} |-> NoHandle]

VARIABLES
    mRemoteWinds,   \* per window: the handle shown there, or NoHandle
    streams,        \* mRemoteStreamInfos_VideoAudio, NoStream where no entry
    posted,         \* queued signals LocalSDP, LocalIceCandidate, IceGatheringComplete
    orphans         \* history: streams that were alive when the windows were reset

cmVars == <<mRemoteWinds, streams, posted, orphans>>

\* win: mWindowID, NoWindow when it names none of the remote windows.  told: history,
\* SetWindowID was called.  making: the offers and answers the peer connection has been
\* asked to create.  gather: ICE gathering.  failed: the last of them ended in OnFailure.
Stream == [win : Windows \cup {NoWindow},
           told : BOOLEAN,
           making : Seq({"offer", "answer"}),
           gather : {"idle", "on", "done"},
           failed : BOOLEAN]

Signal == [kind : {"offer", "answer", "candidate", "end"}, id : Handles]

\* The windows exist once the user has logged in; before that there are none.
CMTypeOK ==
    /\ \/ mRemoteWinds = NoWindows
       \/ mRemoteWinds \in [Windows -> Handles \cup {NoHandle}]
    /\ streams \in [Handles -> Stream \cup {NoStream}]
    /\ posted \in Seq(Signal) /\ Len(posted) <= MaxPosted
    /\ orphans \in SUBSET Handles

InMap(h) == streams[h] # NoStream

CMInit ==
    /\ mRemoteWinds = NoWindows
    /\ streams = [h \in Handles |-> NoStream]
    /\ posted = <<>>
    /\ orphans = {}

-----------------------------------------------------------------------------
(* Main thread: calls of the user.                                         *)

SetVideoWindows ==
    /\ mRemoteWinds' = [w \in Windows |-> NoHandle]
    /\ orphans' = {h \in Handles : InMap(h)}
    /\ UNCHANGED <<streams, posted>>

\* Plausible error: the windows keep the streams that are deleted here.
LeaveVideoRoom_keepWindows ==
    /\ streams' = [h \in Handles |-> NoStream]
    /\ orphans' = {}
    /\ UNCHANGED <<posted, mRemoteWinds>>

\* Signals already queued stay queued.
CMLeaveVideoRoom ==
    /\ mRemoteWinds' = [w \in DOMAIN mRemoteWinds |-> NoHandle]
    /\ streams' = [h \in Handles |-> NoStream]
    /\ orphans' = {}
    /\ UNCHANGED posted

\* ~ConferenceManager, by Logout, and what the process is when it starts again
\* after dying of an undefined operation (a null peer connection, the deletion
\* of an mRender that was never set): nothing is kept and nothing is persistent.
CMLogout ==
    /\ mRemoteWinds' = NoWindows
    /\ streams' = [h \in Handles |-> NoStream]
    /\ posted' = <<>>
    /\ orphans' = {}

-----------------------------------------------------------------------------
(* Main thread: callbacks of JanusVideoRoomManager.                        *)

\* The constructor leaves mWindowID as the memory was, and the destructor's -1 may be
\* gone with the dying object: a window of a deleted stream, or one from a freed
\* mRemoteWinds, may be found there.
Unset == Windows \cup {NoWindow}

NewStream(w, t, m) ==
    [win |-> w, told |-> t, making |-> m, gather |-> "idle", failed |-> FALSE]

FreeWindows == {w \in DOMAIN mRemoteWinds : mRemoteWinds[w] = NoHandle}

\* Plausible errors: the search takes a used window, or runs past the last one.
FirstFree_used ==
    IF DOMAIN mRemoteWinds = {} THEN NoWindow ELSE 1

FirstFree_beyond ==
    IF FreeWindows = {} THEN NumWindows + 1
    ELSE CHOOSE w \in FreeWindows : \A v \in FreeWindows : w <= v

\* The first free window, none when all are taken.
FirstFree ==
    IF FreeWindows = {} THEN NoWindow
    ELSE CHOOSE w \in FreeWindows : \A v \in FreeWindows : w <= v

\* What mWindowID is after the search: the window that SetWindowID was given, or unset.
WindowIDs == IF FirstFree = NoWindow THEN Unset ELSE {FirstFree}

\* Plausible error: shown like the streams of the others.
ConnectToPeer_VideoAudio_show(h) ==
    /\ \E w \in WindowIDs :
         streams' = [streams EXCEPT ![h] = NewStream(w, FirstFree # NoWindow, <<"offer">>)]
    /\ mRemoteWinds' = [w \in DOMAIN mRemoteWinds |->
                          IF w = FirstFree THEN h ELSE mRemoteWinds[w]]
    /\ orphans' = orphans \ {h}
    /\ UNCHANGED posted

\* ConnectToPeer_VideoAudio(h, false, true, false), from a "joined" event: a
\* stream that is given no window and starts with an offer.  A stream already filed
\* under h is dropped with its peer connection, and its window stays entered for h.
ConnectToPeer_VideoAudio(h) ==
    /\ \E w \in Unset : streams' = [streams EXCEPT ![h] = NewStream(w, FALSE, <<"offer">>)]
    /\ orphans' = orphans \ {h}
    /\ UNCHANGED <<mRemoteWinds, posted>>

\* Plausible errors: an answer is answered too, or an offer is not.
Asked_always(type) == IF type = "unparsable" THEN <<>> ELSE <<"answer">>
Asked_never(type) == <<>>

\* WebrtcStreamVideoAudio::SetPeerSDP: an offer is answered; a description that
\* does not parse changes nothing.
Asked(type) == IF type = "offer" THEN <<"answer">> ELSE <<>>

\* onRetmoeSDP(h, type, sdp, false).  An unknown handle gets a new stream, which
\* is told to draw in the first free window, if there is one.
onRetmoeSDP(h, type) ==
    /\ \/ /\ InMap(h)
          /\ Len(streams[h].making) < MaxMaking
          /\ streams' = [streams EXCEPT ![h].making = @ \o Asked(type),
                                        ![h].failed = FALSE]
          /\ UNCHANGED <<mRemoteWinds, orphans>>
       \/ /\ ~InMap(h)
          /\ \E w \in WindowIDs :
               streams' = [streams EXCEPT
                             ![h] = NewStream(w, FirstFree # NoWindow, Asked(type))]
          /\ mRemoteWinds' = [w \in DOMAIN mRemoteWinds |->
                                IF w = FirstFree THEN h ELSE mRemoteWinds[w]]
          /\ orphans' = orphans \ {h}
    /\ UNCHANGED posted

\* The first window showing h is freed.
WindowOf(h) ==
    LET ws == {w \in DOMAIN mRemoteWinds : mRemoteWinds[w] = h}
    IN  IF ws = {} THEN NoWindow ELSE CHOOSE w \in ws : \A v \in ws : w <= v

\* Plausible error: the window of a removed stream is not freed.
FreeWindow_never(h) == UNCHANGED mRemoteWinds

FreeWindow(h) ==
    mRemoteWinds' = [w \in DOMAIN mRemoteWinds |->
                       IF w = WindowOf(h) THEN NoHandle ELSE mRemoteWinds[w]]

\* onRemoteStreamRemove(h); h may be a handle that is not set yet, which is in
\* no map; freeing a free window changes nothing.
onRemoteStreamRemove(h) ==
    /\ streams' = [g \in Handles |-> IF g = h THEN NoStream ELSE streams[g]]
    /\ orphans' = orphans \ {h}
    /\ FreeWindow(h)
    /\ UNCHANGED posted

-----------------------------------------------------------------------------
(* Signaling thread: observers of a stream's peer connection.  Destroying  *)
(* the peer connection waits for the signaling thread and cancels the      *)
(* rest, so these run only for streams that exist.                         *)

Post(kind, h) ==
    /\ Len(posted) < MaxPosted
    /\ posted' = Append(posted, [kind |-> kind, id |-> h])

\* Plausible error: the description is set but LocalSDP is not emitted.
OnSuccess_silent(h) ==
    /\ InMap(h) /\ streams[h].making # <<>>
    /\ streams' = [streams EXCEPT ![h].making = Tail(@),
                                  ![h].gather = IF @ = "idle" THEN "on" ELSE @,
                                  ![h].failed = FALSE]
    /\ UNCHANGED <<mRemoteWinds, posted, orphans>>

\* SetLocalDescription, which starts the gathering, and LocalSDP.
OnSuccess(h) ==
    /\ InMap(h) /\ streams[h].making # <<>>
    /\ Post(Head(streams[h].making), h)
    /\ streams' = [streams EXCEPT ![h].making = Tail(@),
                                  ![h].gather = IF @ = "idle" THEN "on" ELSE @,
                                  ![h].failed = FALSE]
    /\ UNCHANGED <<mRemoteWinds, orphans>>

OnFailure(h) ==
    /\ InMap(h) /\ streams[h].making # <<>>
    /\ streams' = [streams EXCEPT ![h].making = Tail(@), ![h].failed = TRUE]
    /\ UNCHANGED <<mRemoteWinds, posted, orphans>>

OnIceCandidate(h) ==
    /\ InMap(h) /\ streams[h].gather = "on"
    /\ Post("candidate", h)
    /\ UNCHANGED <<mRemoteWinds, streams, orphans>>

OnIceGatheringChange(h) ==
    /\ InMap(h) /\ streams[h].gather = "on"
    /\ Post("end", h)
    /\ streams' = [streams EXCEPT ![h].gather = "done"]
    /\ UNCHANGED <<mRemoteWinds, orphans>>

\* Main thread: onLocalSDP, onLocalIceCandidate and onIceGatheringComplete take
\* the oldest signal.  It goes to JanusVideoRoomManager if the handle is in the
\* map, whichever stream is filed there now.
TakeSignal ==
    /\ posted # <<>>
    /\ posted' = Tail(posted)
    /\ UNCHANGED <<mRemoteWinds, streams, orphans>>

-----------------------------------------------------------------------------

SignalingThread(h) ==
    OnSuccess(h) \/ OnFailure(h) \/ OnIceCandidate(h) \/ OnIceGatheringChange(h)

CMNext ==
    \/ SetVideoWindows
    \/ CMLeaveVideoRoom
    \/ CMLogout
    \/ \E h \in Handles :
         \/ ConnectToPeer_VideoAudio(h)
         \/ \E type \in {"offer", "answer", "unparsable"} : onRetmoeSDP(h, type)
         \/ SignalingThread(h)
    \/ \E h \in Handles \cup {NoHandle} : onRemoteStreamRemove(h)
    \/ TakeSignal

CMSpec == CMInit /\ [][CMNext]_cmVars

-----------------------------------------------------------------------------

\* A window is entered for a stream that is in the map, and no stream for two: every
\* path that takes a handle out of the map (unpublish, leave, logout) frees the
\* window entered for it, so windows are not lost over a long meeting.  (A second
\* stream made under a handle that is in the map inherits the entry without drawing
\* there; WindowShowsItsStream in VideoCall shows that a call never does that.)
WindowsLive ==
    \A v, w \in DOMAIN mRemoteWinds :
        mRemoteWinds[w] # NoHandle =>
            /\ InMap(mRemoteWinds[w])
            /\ mRemoteWinds[v] = mRemoteWinds[w] => v = w

\* There are two ways only for two streams to have one window in mWindowID: one of
\* them was never told a window, so that it has what the memory held (every window was
\* taken when it was made, or it is our own, which does not draw); or it was alive
\* when a login cleared mRemoteWinds.  Windows that are given out are never given
\* twice, over unpublish, leave, and streams that come and go without one.
WindowExclusive ==
    \A g, h \in Handles :
        /\ InMap(g) /\ InMap(h) /\ g # h
        /\ streams[g].win = streams[h].win
        /\ streams[g].win # NoWindow
        => \E s \in {g, h} : ~streams[s].told \/ s \in orphans
=============================================================================
