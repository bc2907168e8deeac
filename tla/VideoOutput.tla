----------------------------- MODULE VideoOutput -----------------------------
(***************************************************************************)
(* One video widget: VideoRender with its frame buffer, the                *)
(* WebrtcVideoFrame sinks that draw in it, and the streams that own these. *)
(*                                                                         *)
(* Threads.  Each sink's OnFrame runs on a thread of WebRTC.  The main     *)
(* thread paints, makes and deletes streams, and hands descriptions to     *)
(* WebRTC; during the latter it waits while OnAddTrack and OnRemoveTrack   *)
(* run.  SetVideoSize writes two ints without the mutex that guards the    *)
(* buffer: a data race with paintGL, in which each int is seen old or new, *)
(* and the compiler may store them in either order.                        *)
(*                                                                         *)
(* A frame is known by its size and by the sink it came to.                *)
(* Camera frames (VcmCapture::OnFrame) are drawn by the same code: the     *)
(* local widget has one sink, of one size, which is never stopped.         *)
(***************************************************************************)
EXTENDS Integers, Sequences

CONSTANTS
    Streams,            \* streams that may be given this widget
    NoStream,
    MaxVideoW, MaxVideoH,   \* mMaxVideoW, mMaxVideoH: 1920 and 1280 in the code
    Sizes               \* sizes of frames, after rotation: whatever is published

\* 1920 is a multiple of 8: rows of all planes of a full frame are of 4 bytes.
\* Nothing is assumed of the sizes: the sink asks for frames of any size.
ASSUME SizeAssumption ==
    /\ NoStream \notin Streams
    /\ MaxVideoW \in Nat /\ MaxVideoW % 8 = 0 /\ MaxVideoH \in Nat
    /\ Sizes \subseteq [w : Nat \ {0}, h : Nat \ {0}]

Blank == [w |-> 0, h |-> 0]
Empty == [of |-> NoStream, size |-> Blank]
Torn == [of |-> NoStream, size |-> [w |-> -1, h |-> -1]]

VARIABLES
    entry,              \* mRemoteWinds: the stream this widget is entered for
    stream,             \* "none", "made", "viewing" (mVideoTrack set) or "stopped"
    main,               \* what the main thread waits for
    sink,               \* where each sink's OnFrame is, and with which frame
    mVideoW, mVideoH, viewFlag, mMutex,
    buffer,             \* pBufYuv420p: what was copied there last
    painter,            \* where paintGL is, and what it has uploaded
    picture,            \* the frame on the screen, Torn if sizes were mixed
    update,             \* update() was called
    shared,             \* history: the widget was given to a second stream
    oversized           \* history: a frame came that exceeds the box in some direction

renderVars == <<mVideoW, mVideoH, viewFlag, mMutex, buffer, update>>
streamVars == <<entry, stream, main, shared, oversized>>
voVars == <<streamVars, sink, renderVars, painter, picture>>

Frame == [of : Streams, size : Sizes]
Contents == Frame \cup {Empty, Torn}
Waiting(op, streams) == [op |-> op, streams |-> streams]
Free == Waiting("none", {})
NotPainting == [at |-> "idle", planes |-> <<>>]
Between == [at |-> "idle", frame |-> Empty]

Widths == {0} \cup {size.w : size \in Sizes}
Heights == {0} \cup {size.h : size \in Sizes}

\* A plane as uploaded: the size read for it and what the buffer held.
Plane == [w : Widths, h : Heights, from : Contents]

VOTypeOK ==
    /\ entry \in Streams \cup {NoStream}
    /\ stream \in [Streams -> {"none", "made", "viewing", "stopped"}]
    /\ main \in [op : {"none", "remove", "leave", "untrack"}, streams : SUBSET Streams]
    /\ sink \in [Streams -> [at : {"idle", "size", "width", "height", "lock", "copy", "show"},
                             frame : Frame \cup {Empty}]]
    /\ mVideoW \in Widths /\ mVideoH \in Heights
    /\ viewFlag \in BOOLEAN /\ update \in BOOLEAN
    /\ shared \in BOOLEAN /\ oversized \in BOOLEAN
    /\ mMutex \in {"free", "sink", "painter"}
    /\ buffer \in Contents
    /\ painter \in [at : {"idle", "lock", "Y", "U", "V"}, planes : Seq(Plane)]
    /\ picture \in Contents

VOInit ==
    /\ entry = NoStream
    /\ stream = [s \in Streams |-> "none"]
    /\ main = Free
    /\ sink = [s \in Streams |-> Between]
    /\ mVideoW = 0 /\ mVideoH = 0
    /\ viewFlag = FALSE /\ mMutex = "free"
    /\ buffer = Empty
    /\ painter = NotPainting /\ picture = Empty
    /\ update = FALSE /\ shared = FALSE /\ oversized = FALSE

Alive == {s \in Streams : stream[s] # "none"}
MainFree == main = Free /\ painter = NotPainting
-----------------------------------------------------------------------------
(* The main thread: streams come and go.                                   *)

\* ConnectToPeer_VideoAudio gives the widget to a stream.  When no widget is free
\* mWindowID stays what the memory held: at worst this one, of a deleted stream.
MakeStream(s) ==
    /\ MainFree /\ stream[s] = "none"
    /\ stream' = [stream EXCEPT ![s] = "made"]
    /\ \/ entry = NoStream /\ entry' = s /\ shared' = (shared \/ Alive # {})
       \/ entry # NoStream /\ UNCHANGED entry /\ shared' = TRUE
    /\ UNCHANGED <<main, oversized, sink, renderVars, painter, picture>>

\* A login: the widget is free again, whoever draws in it.
SetVideoWindows ==
    /\ MainFree
    /\ entry' = NoStream
    /\ UNCHANGED <<stream, main, shared, oversized, sink, renderVars, painter, picture>>

\* OnAddTrack with StartView.
OnAddTrack(s) ==
    /\ MainFree /\ stream[s] \in {"made", "stopped"}
    /\ stream' = [stream EXCEPT ![s] = "viewing"]
    /\ UNCHANGED <<entry, main, shared, oversized, sink, renderVars, painter, picture>>

Wait(op, streams) ==
    /\ MainFree
    /\ main' = Waiting(op, streams)
    /\ UNCHANGED <<stream, shared, oversized, sink, renderVars, painter, picture>>

OnRemoveTrack(s) == stream[s] = "viewing" /\ Wait("untrack", {s}) /\ UNCHANGED entry

onRemoteStreamRemove(s) == s \in Alive /\ Wait("remove", {s}) /\ UNCHANGED entry

\* All entries are cleared before the streams are stopped and deleted.
LeaveVideoRoom == Alive # {} /\ Wait("leave", Alive) /\ entry' = NoStream

\* Plausible error: the sink is taken off without waiting for its OnFrame.
StopView_noWait(s) ==
    /\ s \in main.streams
    /\ stream' = [stream EXCEPT ![s] = IF main.op = "untrack" THEN "stopped" ELSE "none"]
    /\ main' = IF main.streams = {s} THEN Free ELSE Waiting(main.op, main.streams \ {s})
    /\ entry' = IF main.op = "remove" /\ entry = s THEN NoStream ELSE entry
    /\ UNCHANGED <<shared, oversized, sink, renderVars, painter, picture>>

\* StopView, with the destructor if the stream goes.  RemoveSink returns when the
\* sink's OnFrame has.  Only then onRemoteStreamRemove clears the entry.
StopView(s) ==
    /\ s \in main.streams /\ sink[s] = Between
    /\ stream' = [stream EXCEPT ![s] = IF main.op = "untrack" THEN "stopped" ELSE "none"]
    /\ main' = IF main.streams = {s} THEN Free ELSE Waiting(main.op, main.streams \ {s})
    /\ entry' = IF main.op = "remove" /\ entry = s THEN NoStream ELSE entry
    /\ UNCHANGED <<shared, oversized, sink, renderVars, painter, picture>>

-----------------------------------------------------------------------------
(* A thread of WebRTC: WebrtcVideoFrame::OnFrame.                          *)

\* pBufYuv420p, what SetYUVData copies into it, and the block OnFrame copies from.
Bytes(w, h) == (w * h * 3) \div 2

\* Plausible error: room for the luma plane only.
Capacity_luma == MaxVideoW * MaxVideoH

Capacity == Bytes(MaxVideoW, MaxVideoH)

\* The sink goes on from one place in OnFrame to the next.
GoesOn(s, from, to) ==
    /\ sink[s].at = from
    /\ sink' = [sink EXCEPT ![s].at = to]
    /\ UNCHANGED <<streamVars, painter, picture>>

Fits(size) == size.w <= MaxVideoW /\ size.h <= MaxVideoH

\* A frame of any size: StartView adds the sink with the default VideoSinkWants,
\* and nobody looks at the size before the copy.
OnFrame(s, size) ==
    /\ stream[s] = "viewing" /\ sink[s] = Between
    /\ sink' = [sink EXCEPT ![s] = [at |-> "size", frame |-> [of |-> s, size |-> size]]]
    /\ oversized' = (oversized \/ ~Fits(size))
    /\ UNCHANGED <<entry, stream, main, shared, renderVars, painter, picture>>

\* SetVideoSize: two stores, in either order.
StoreWidth(s) ==
    /\ GoesOn(s, "size", "height") \/ GoesOn(s, "width", "lock")
    /\ mVideoW' = sink[s].frame.size.w
    /\ UNCHANGED <<mVideoH, viewFlag, mMutex, buffer, update>>

\* Plausible error: the width of the frame as it was before it was rotated.
StoreHeight_rotated(s) ==
    /\ GoesOn(s, "size", "width") \/ GoesOn(s, "height", "lock")
    /\ mVideoH' = sink[s].frame.size.w
    /\ UNCHANGED <<mVideoW, viewFlag, mMutex, buffer, update>>

StoreHeight(s) ==
    /\ GoesOn(s, "size", "width") \/ GoesOn(s, "height", "lock")
    /\ mVideoH' = sink[s].frame.size.h
    /\ UNCHANGED <<mVideoW, viewFlag, mMutex, buffer, update>>

\* Plausible error: SetYUVData does not take the mutex.
LockForCopy_unlocked(s) ==
    /\ GoesOn(s, "lock", "copy")
    /\ buffer' = Torn
    /\ UNCHANGED <<mMutex, mVideoW, mVideoH, viewFlag, update>>

\* SetYUVData: the copy begins, and ends.
LockForCopy(s) ==
    /\ GoesOn(s, "lock", "copy")
    /\ mMutex = "free" /\ mMutex' = "sink"
    /\ buffer' = Torn
    /\ UNCHANGED <<mVideoW, mVideoH, viewFlag, update>>

EndCopy(s) ==
    /\ GoesOn(s, "copy", "show")
    /\ mMutex' = "free"
    /\ buffer' = sink[s].frame
    /\ UNCHANGED <<mVideoW, mVideoH, viewFlag, update>>

\* Plausible error: an update is asked for when the widget is first shown only.
SetViewStated_once(s) ==
    /\ sink[s].at = "show"
    /\ sink' = [sink EXCEPT ![s] = Between]
    /\ viewFlag' = TRUE /\ update' = (update \/ ~viewFlag)
    /\ UNCHANGED <<streamVars, mVideoW, mVideoH, mMutex, buffer, painter, picture>>

SetViewStated(s) ==
    /\ sink[s].at = "show"
    /\ sink' = [sink EXCEPT ![s] = Between]
    /\ viewFlag' = TRUE /\ update' = TRUE
    /\ UNCHANGED <<streamVars, mVideoW, mVideoH, mMutex, buffer, painter, picture>>

-----------------------------------------------------------------------------
(* The main thread: VideoRender::paintGL.                                  *)

\* The window system asks for a repaint.
Exposed == update' = TRUE /\ UNCHANGED <<streamVars, sink, mVideoW, mVideoH, viewFlag, mMutex,
                                        buffer, painter, picture>>

BeginPaint ==
    /\ MainFree /\ update /\ update' = FALSE
    /\ painter' = IF viewFlag THEN [painter EXCEPT !.at = "lock"] ELSE painter
    /\ UNCHANGED <<streamVars, sink, mVideoW, mVideoH, viewFlag, mMutex, buffer, picture>>

LockForPaint ==
    /\ painter.at = "lock" /\ mMutex = "free"
    /\ mMutex' = "painter" /\ painter' = [painter EXCEPT !.at = "Y"]
    /\ UNCHANGED <<streamVars, sink, mVideoW, mVideoH, viewFlag, buffer, update, picture>>

\* glTexImage2D takes rows at multiples of four bytes, as nothing else is asked for.
Rows(w, h) == 4 * ((w + 3) \div 4) * h

\* Where glTexImage2D begins to read in pBufYuv420p, and how much it reads.
Offset(plane, w, h) ==
    CASE plane = "Y" -> 0
      [] plane = "U" -> w * h
      [] plane = "V" -> (w * h * 5) \div 4

Length(plane, w, h) == IF plane = "Y" THEN Rows(w, h) ELSE Rows(w \div 2, h \div 2)

Uploaded == Append(painter.planes, [w |-> mVideoW, h |-> mVideoH, from |-> buffer])

Upload(plane, next) ==
    /\ painter.at = plane
    /\ painter' = [at |-> next, planes |-> Uploaded]
    /\ UNCHANGED <<streamVars, sink, renderVars, picture>>

\* What the user sees: a frame, if all planes were of it and of its size.
Seen(planes) ==
    LET f == planes[1].from
    IN  IF \A k \in DOMAIN planes : planes[k] = [w |-> f.size.w, h |-> f.size.h, from |-> f]
        THEN f ELSE Torn

\* Plausible error: paintGL returns with the mutex locked.
EndPaint_locked ==
    /\ painter.at = "V"
    /\ painter' = NotPainting /\ picture' = Seen(Uploaded)
    /\ UNCHANGED <<streamVars, sink, renderVars>>

EndPaint ==
    /\ painter.at = "V"
    /\ painter' = NotPainting /\ picture' = Seen(Uploaded)
    /\ mMutex' = "free"
    /\ UNCHANGED <<streamVars, sink, mVideoW, mVideoH, viewFlag, buffer, update>>

-----------------------------------------------------------------------------

SinkStep(s) ==
    \/ StoreWidth(s) \/ StoreHeight(s)
    \/ LockForCopy(s) \/ EndCopy(s) \/ SetViewStated(s)

PaintStep == LockForPaint \/ Upload("Y", "U") \/ Upload("U", "V") \/ EndPaint

VONext ==
    \/ SetVideoWindows \/ LeaveVideoRoom
    \/ \E s \in Streams :
         \/ MakeStream(s) \/ OnAddTrack(s) \/ OnRemoveTrack(s)
         \/ onRemoteStreamRemove(s) \/ StopView(s)
         \/ \E size \in Sizes : OnFrame(s, size)
         \/ SinkStep(s)
    \/ Exposed \/ BeginPaint \/ PaintStep

VOSpec == VOInit /\ [][VONext]_voVars

\* The threads run, the event loop gets to a repaint it was asked for, and whoever
\* waits for a lock others take again and again gets it in the end: the mutex, and
\* the lock with which RemoveSink keeps OnFrame out.
VOFairness ==
    /\ \A s \in Streams :
         WF_voVars(SinkStep(s)) /\ SF_voVars(LockForCopy(s)) /\ SF_voVars(StopView(s))
    /\ SF_voVars(BeginPaint) /\ WF_voVars(PaintStep) /\ SF_voVars(LockForPaint)

FairVOSpec == VOSpec /\ VOFairness

-----------------------------------------------------------------------------

\* The copy under way and the upload under way, padded rows included, stay within
\* pBufYuv420p.
InBuffer ==
    /\ \A s \in Streams : sink[s].at = "copy" => Bytes(mVideoW, mVideoH) <= Capacity
    /\ painter.at \in {"Y", "U", "V"} =>
         Offset(painter.at, mVideoW, mVideoH) + Length(painter.at, mVideoW, mVideoH) <= Capacity

\* The frame buffer is not overrun before a frame has come that is wider or higher
\* than the box: mixing the width of one frame with the height of another, which
\* the unguarded SetVideoSize allows, does no harm among frames that fit.  (A larger
\* frame overruns it at once, and one that fits by its area only, as 1080x1920,
\* when its height is seen with the width of another; no size is checked.)
OverrunNeedsOversize == ~oversized => InBuffer

\* SetYUVData takes its length from the widget, not from the frame: it is that of
\* the frame, also when the widget passes from one stream to the next, unless the
\* widget was given to a second stream while the first still had it.
CopiesItsFrame ==
    \A s \in Streams :
        sink[s].at = "copy" /\ ~shared =>
            mVideoW = sink[s].frame.size.w /\ mVideoH = sink[s].frame.size.h

\* The planes of a picture come from one copy, a finished one, though frames arrive
\* while it is painted (their size may be newer: LastFrameShown).
PaintsOneFrame ==
    \A k \in DOMAIN painter.planes :
        painter.planes[k].from = buffer /\ buffer \in Frame

Quiet == \A s \in Streams : sink[s] = Between

\* The frame after which no other comes is shown, whole and in its size, even if
\* what was painted while it arrived mixed two sizes.
LastFrameShown ==
    (Quiet /\ buffer \in Frame /\ ~shared) ~> (~Quiet \/ shared \/ picture = buffer)

\* The main thread, waiting in RemoveSink for a sink that may wait for the mutex of
\* the painter, which is the main thread, goes on.
StopReturns == main # Free ~> main = Free
=============================================================================
