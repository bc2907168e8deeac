-------------------------- MODULE VideoOutputProof --------------------------
(* Proofs for VideoOutput: any number of streams, any frame sizes.           *)
EXTENDS VideoOutput, TLAPS

-----------------------------------------------------------------------------
(* Arithmetic of the planes.                                               *)

\* A rectangle in a box has no more points than the box.
LEMMA Area ==
    ASSUME NEW w \in Nat, NEW h \in Nat, NEW x \in Nat, NEW y \in Nat, w <= x, h <= y
    PROVE  w * h \in Nat /\ x * y \in Nat /\ w * h <= x * y
<1>1. w * h \in Nat /\ x * y \in Nat /\ w * y \in Nat
  OBVIOUS
<1>2. w * h <= w * y
  OBVIOUS
<1>3. w * y <= x * y
  OBVIOUS
<1>. QED  BY <1>1, <1>2, <1>3

\* Padding to four bytes does not lead beyond a multiple of four.
LEMMA Padded ==
    ASSUME NEW n \in Nat, NEW m \in Nat, m % 4 = 0, n <= m
    PROVE  4 * ((n + 3) \div 4) \in Nat /\ 4 * ((n + 3) \div 4) <= m
OBVIOUS

\* Half of a multiple of eight is a multiple of four.
LEMMA HalfOfEight ==
    ASSUME NEW n \in Nat, NEW m \in Nat, m % 8 = 0, n <= m
    PROVE  /\ m % 4 = 0
           /\ n \div 2 \in Nat /\ m \div 2 \in Nat /\ (m \div 2) % 4 = 0
           /\ n \div 2 <= m \div 2
           /\ 2 * (m \div 2) = m
OBVIOUS

\* Every plane, its rows padded, lies within the buffer, whichever width and height
\* in the box the painter sees.
LEMMA PlanesInBounds ==
    ASSUME NEW w \in 0..MaxVideoW, NEW h \in 0..MaxVideoH, NEW plane \in {"Y", "U", "V"}
    PROVE  Offset(plane, w, h) + Length(plane, w, h) <= Capacity
<1>. DEFINE box == MaxVideoW * MaxVideoH
            area == w * h
            w2 == w \div 2
            h2 == h \div 2
            W2 == MaxVideoW \div 2
            H2 == MaxVideoH \div 2
            r1 == 4 * ((w + 3) \div 4)
            r2 == 4 * ((w2 + 3) \div 4)
            luma == r1 * h
            chroma == r2 * h2
            quarter == W2 * H2
<1>0. /\ w \in Nat /\ h \in Nat /\ w <= MaxVideoW /\ h <= MaxVideoH
      /\ MaxVideoW \in Nat /\ MaxVideoH \in Nat /\ MaxVideoW % 8 = 0
  BY SizeAssumption
<1>1. area \in Nat /\ box \in Nat /\ area <= box
  BY <1>0, Area
<1>2. /\ MaxVideoW % 4 = 0
      /\ w2 \in Nat /\ W2 \in Nat /\ W2 % 4 = 0 /\ w2 <= W2 /\ 2 * W2 = MaxVideoW
  BY <1>0, HalfOfEight
<1>3. h2 \in Nat /\ H2 \in Nat /\ h2 <= H2 /\ 2 * H2 <= MaxVideoH
  BY <1>0
<1>4. r1 \in Nat /\ r1 <= MaxVideoW
  BY <1>0, <1>2, Padded
<1>5. r2 \in Nat /\ r2 <= W2
  BY <1>2, Padded
<1>6. luma \in Nat /\ luma <= box
  BY <1>0, <1>4, Area
<1>7. chroma \in Nat /\ quarter \in Nat /\ chroma <= quarter
  BY <1>2, <1>3, <1>5, Area
<1>8. 4 * quarter <= box
  <2>1. (2 * W2) * (2 * H2) <= box
    BY <1>0, <1>2, <1>3, Area
  <2>2. (2 * W2) * (2 * H2) = 4 * quarter
    BY <1>2, <1>3
  <2>. QED  BY <2>1, <2>2
<1>9. 4 * chroma <= box
  BY <1>1, <1>7, <1>8
<1>10. Capacity = (box * 3) \div 2
  BY DEF Capacity, Bytes
<1>11. CASE plane = "Y"
  <2>1. Offset(plane, w, h) = 0 /\ Length(plane, w, h) = luma
    BY <1>11 DEF Offset, Length, Rows
  <2>2. 0 + luma <= (box * 3) \div 2
    <3>. HIDE DEF luma, box
    <3>. QED  BY <1>1, <1>6
  <2>. QED  BY <2>1, <2>2, <1>10
<1>12. CASE plane = "U"
  <2>1. Offset(plane, w, h) = area /\ Length(plane, w, h) = chroma
    BY <1>12 DEF Offset, Length, Rows
  <2>2. area + chroma <= (box * 3) \div 2
    <3>. HIDE DEF area, chroma, box
    <3>. QED  BY <1>1, <1>7, <1>9
  <2>. QED  BY <2>1, <2>2, <1>10
<1>13. CASE plane = "V"
  <2>1. Offset(plane, w, h) = (area * 5) \div 4 /\ Length(plane, w, h) = chroma
    BY <1>13 DEF Offset, Length, Rows
  <2>2. (area * 5) \div 4 + chroma <= (box * 3) \div 2
    <3>. HIDE DEF area, chroma, box
    <3>. QED  BY <1>1, <1>7, <1>9
  <2>. QED  BY <2>1, <2>2, <1>10
<1>. QED  BY <1>11, <1>12, <1>13

\* The copy of a size in the box fits the buffer.
LEMMA CopyInBounds ==
    ASSUME NEW w \in 0..MaxVideoW, NEW h \in 0..MaxVideoH
    PROVE  Bytes(w, h) <= Capacity
<1>. DEFINE box == MaxVideoW * MaxVideoH
            area == w * h
<1>1. area \in Nat /\ box \in Nat /\ area <= box
  BY SizeAssumption, Area
<1>2. (area * 3) \div 2 <= (box * 3) \div 2
  <2>. HIDE DEF area, box
  <2>. QED  BY <1>1
<1>. QED  BY <1>2 DEF Bytes, Capacity

-----------------------------------------------------------------------------
(* Who holds the mutex, what is in the buffer meanwhile, and which size.   *)

\* A frame under way is one; idle sinks have none.
FramesUnderWay == \A s \in Streams : sink[s] # Between => sink[s].frame \in Frame

\* The mutex is held by the painter or by one sink, and says which.
MutexHeld ==
    /\ painter.at \in {"Y", "U", "V"} <=> mMutex = "painter"
    /\ \A s \in Streams : sink[s].at = "copy" => mMutex = "sink"
    /\ \A s, t \in Streams : sink[s].at = "copy" /\ sink[t].at = "copy" => s = t

\* The buffer is torn only during a copy, and empty only until the first one.
BufferWhole ==
    /\ buffer = Torn => mMutex = "sink"
    /\ \A s \in Streams : sink[s].at = "show" => buffer # Empty
    /\ viewFlag => buffer # Empty
    /\ painter.at # "idle" => viewFlag
    /\ painter.planes # <<>> => painter.at \in {"U", "V"}

\* A widget that was never shared has one stream, and only a viewing stream's sink
\* runs: the stores of SetVideoSize are all its own.
OwnSize ==
    /\ \A s \in Streams : sink[s] # Between => stream[s] = "viewing"
    /\ ~shared => \A s, t \in Alive : s = t
    /\ main.streams \subseteq Alive
    /\ \A s \in Streams : ~shared =>
         /\ sink[s].at \in {"height", "lock", "copy"} => mVideoW = sink[s].frame.size.w
         /\ sink[s].at \in {"width", "lock", "copy"} => mVideoH = sink[s].frame.size.h

-----------------------------------------------------------------------------

\* The size of a frame, or none, can be stored.
LEMMA FrameSize ==
    ASSUME NEW f \in Frame \cup {Empty}
    PROVE  f.size.w \in Widths /\ f.size.h \in Heights
BY DEF Frame, Empty, Blank, Widths, Heights

\* Frames, Empty and Torn are different things.
LEMMA ContentsDiffer == Empty # Torn /\ Empty \notin Frame /\ Torn \notin Frame
BY SizeAssumption DEF Frame, Empty, Blank, Torn

\* What the painter has uploaded, with the plane it is at, is a sequence of planes,
\* and what is seen of it is of the type of the buffer.
LEMMA UploadedType ==
    ASSUME VOTypeOK
    PROVE  /\ Uploaded \in Seq(Plane)
           /\ Seen(Uploaded) \in Contents
<1>1. [w |-> mVideoW, h |-> mVideoH, from |-> buffer] \in Plane /\ painter.planes \in Seq(Plane)
  BY DEF VOTypeOK, Plane
<1>2. Uploaded \in Seq(Plane) /\ Uploaded[1] \in Plane
  BY <1>1 DEF Uploaded
<1>3. Uploaded[1].from \in Contents /\ Torn \in Contents
  BY <1>2 DEF Plane, Contents
<1>. QED  BY <1>2, <1>3 DEF Seen

\* Each step keeps the types.
LEMMA TypeStep == VOTypeOK /\ [VONext]_voVars => VOTypeOK'
<1>. SUFFICES ASSUME VOTypeOK, [VONext]_voVars PROVE VOTypeOK'
  OBVIOUS
<1>. USE DEF VOTypeOK, streamVars, renderVars
<1>1. CASE SetVideoWindows
  BY <1>1 DEF SetVideoWindows
<1>2. CASE LeaveVideoRoom
  BY <1>2 DEF LeaveVideoRoom, Wait, Waiting, Alive
<1>3. ASSUME NEW s \in Streams, MakeStream(s) PROVE VOTypeOK'
  BY <1>3 DEF MakeStream
<1>4. ASSUME NEW s \in Streams, OnAddTrack(s) PROVE VOTypeOK'
  BY <1>4 DEF OnAddTrack
<1>5. ASSUME NEW s \in Streams, OnRemoveTrack(s) PROVE VOTypeOK'
  BY <1>5 DEF OnRemoveTrack, Wait, Waiting
<1>6. ASSUME NEW s \in Streams, onRemoteStreamRemove(s) PROVE VOTypeOK'
  BY <1>6 DEF onRemoteStreamRemove, Wait, Waiting
<1>7. ASSUME NEW s \in Streams, StopView(s) PROVE VOTypeOK'
  BY <1>7 DEF StopView, Free, Waiting
<1>8. ASSUME NEW s \in Streams, NEW size \in Sizes, OnFrame(s, size) PROVE VOTypeOK'
  BY <1>8 DEF OnFrame, Frame
<1>9. ASSUME NEW s \in Streams, StoreWidth(s) PROVE VOTypeOK'
  <2>1. sink[s].frame \in Frame \cup {Empty}
    OBVIOUS
  <2>2. sink[s].frame.size.w \in Widths /\ sink[s].frame.size.h \in Heights
    BY <2>1, FrameSize
  <2>3. sink' \in [Streams -> [at : {"idle", "size", "width", "height", "lock", "copy", "show"},
                              frame : Frame \cup {Empty}]]
    BY <1>9 DEF StoreWidth, GoesOn
  <2>4. UNCHANGED <<entry, stream, main, shared, oversized, painter, picture>>
    BY <1>9 DEF StoreWidth, GoesOn
  <2>. QED  BY <1>9, <2>2, <2>3, <2>4 DEF StoreWidth
<1>10. ASSUME NEW s \in Streams, StoreHeight(s) PROVE VOTypeOK'
  <2>1. sink[s].frame \in Frame \cup {Empty}
    OBVIOUS
  <2>2. sink[s].frame.size.w \in Widths /\ sink[s].frame.size.h \in Heights
    BY <2>1, FrameSize
  <2>3. sink' \in [Streams -> [at : {"idle", "size", "width", "height", "lock", "copy", "show"},
                              frame : Frame \cup {Empty}]]
    BY <1>10 DEF StoreHeight, GoesOn
  <2>4. UNCHANGED <<entry, stream, main, shared, oversized, painter, picture>>
    BY <1>10 DEF StoreHeight, GoesOn
  <2>. QED  BY <1>10, <2>2, <2>3, <2>4 DEF StoreHeight
<1>11. ASSUME NEW s \in Streams, LockForCopy(s) PROVE VOTypeOK'
  BY <1>11 DEF LockForCopy, GoesOn, Contents
<1>12. ASSUME NEW s \in Streams, EndCopy(s) PROVE VOTypeOK'
  BY <1>12 DEF EndCopy, GoesOn, Contents
<1>13. ASSUME NEW s \in Streams, SetViewStated(s) PROVE VOTypeOK'
  BY <1>13 DEF SetViewStated, Between
<1>14. CASE Exposed
  BY <1>14 DEF Exposed
<1>15. CASE BeginPaint
  BY <1>15 DEF BeginPaint
<1>16. CASE LockForPaint
  BY <1>16 DEF LockForPaint
<1>17. ASSUME NEW plane, NEW next \in {"U", "V"}, Upload(plane, next) PROVE VOTypeOK'
  BY <1>17, UploadedType DEF Upload
<1>18. CASE EndPaint
  <2>1. NotPainting \in [at : {"idle", "lock", "Y", "U", "V"}, planes : Seq(Plane)]
    BY DEF NotPainting
  <2>. QED  BY <1>18, <2>1, UploadedType DEF EndPaint
<1>19. CASE UNCHANGED voVars
  BY <1>19 DEF voVars
<1>. QED
  BY <1>1, <1>2, <1>3, <1>4, <1>5, <1>6, <1>7, <1>8, <1>9, <1>10, <1>11, <1>12, <1>13,
     <1>14, <1>15, <1>16, <1>17, <1>18, <1>19 DEF VONext, SinkStep, PaintStep

\* The widget starts with variables of their types.
LEMMA TypeInit == VOInit => VOTypeOK
<1>. SUFFICES ASSUME VOInit PROVE VOTypeOK
  OBVIOUS
<1>1. NotPainting \in [at : {"idle", "lock", "Y", "U", "V"}, planes : Seq(Plane)]
  BY DEF NotPainting
<1>2. Free \in [op : {"none", "remove", "leave", "untrack"}, streams : SUBSET Streams]
  BY DEF Free, Waiting
<1>3. Empty \in Contents
  BY DEF Contents
<1>4. 0 \in Widths /\ 0 \in Heights
  BY DEF Widths, Heights
<1>5. Between \in [at : {"idle", "size", "width", "height", "lock", "copy", "show"},
                   frame : Frame \cup {Empty}]
  BY DEF Between
<1>. QED  BY <1>1, <1>2, <1>3, <1>4, <1>5 DEF VOInit, VOTypeOK

\* Every reachable state of the widget, its sinks and its painter is well typed: in
\* particular the width stored is that of some frame, and so is the height.
THEOREM TypeCorrect == VOSpec => []VOTypeOK
<1>. QED  BY TypeInit, TypeStep, PTL DEF VOSpec

-----------------------------------------------------------------------------
(* Overruns.                                                               *)

InBox(w, h) == w \in 0..MaxVideoW /\ h \in 0..MaxVideoH

\* As long as all frames fit, so do the frames under way and the size stored, whichever
\* frames its two halves come from.
FitSoFar ==
    ~oversized =>
        /\ InBox(mVideoW, mVideoH)
        /\ \A s \in Streams : InBox(sink[s].frame.size.w, sink[s].frame.size.h)

LEMMA FitInit == VOInit => FitSoFar
BY SizeAssumption DEF VOInit, FitSoFar, InBox, Between, Empty, Blank

LEMMA FitStep == VOTypeOK /\ FitSoFar /\ [VONext]_voVars => FitSoFar'
<1>. SUFFICES ASSUME VOTypeOK, FitSoFar, [VONext]_voVars PROVE FitSoFar'
  OBVIOUS
<1>0. sink \in [Streams -> [at : {"idle", "size", "width", "height", "lock", "copy", "show"},
                           frame : Frame \cup {Empty}]]
  BY DEF VOTypeOK
<1>1. ASSUME NEW s \in Streams, NEW size \in Sizes, OnFrame(s, size) PROVE FitSoFar'
  <2>. SUFFICES ASSUME ~oversized' PROVE FitSoFar'
    BY DEF FitSoFar
  <2>1. ~oversized /\ Fits(size)
    BY <1>1, Zenon DEF OnFrame
  <2>2. size.w \in Nat /\ size.h \in Nat
    BY SizeAssumption
  <2>3. InBox(size.w, size.h)
    BY <2>1, <2>2, SizeAssumption DEF Fits, InBox
  <2>4. /\ sink'[s].frame.size = size
        /\ \A t \in Streams : t # s => sink'[t] = sink[t]
    BY <1>0, <1>1 DEF OnFrame
  <2>5. UNCHANGED <<mVideoW, mVideoH>>
    BY <1>1 DEF OnFrame, renderVars
  <2>. QED  BY <2>1, <2>3, <2>4, <2>5 DEF FitSoFar
<1>2. ASSUME NEW s \in Streams, SinkStep(s) PROVE FitSoFar'
  <2>1. UNCHANGED oversized
    BY <1>2 DEF SinkStep, StoreWidth, StoreHeight, LockForCopy, EndCopy, SetViewStated,
                GoesOn, streamVars
  <2>2. \A t \in Streams : sink'[t].frame = sink[t].frame \/ sink'[t].frame = Empty
    <3>1. CASE SetViewStated(s)
      BY <1>0, <3>1 DEF SetViewStated, Between
    <3>2. CASE ~SetViewStated(s)
      BY <1>0, <1>2, <3>2 DEF SinkStep, StoreWidth, StoreHeight, LockForCopy, EndCopy, GoesOn
    <3>. QED  BY <3>1, <3>2
  <2>3. InBox(Empty.size.w, Empty.size.h)
    BY SizeAssumption DEF Empty, Blank, InBox
  <2>4. /\ mVideoW' \in {mVideoW, sink[s].frame.size.w}
        /\ mVideoH' \in {mVideoH, sink[s].frame.size.h}
    BY <1>2 DEF SinkStep, StoreWidth, StoreHeight, LockForCopy, EndCopy, SetViewStated
  <2>. QED  BY <2>1, <2>2, <2>3, <2>4 DEF FitSoFar, InBox
<1>3. CASE UNCHANGED <<oversized, sink, mVideoW, mVideoH>>
  BY <1>3 DEF FitSoFar, InBox
<1>4. \/ \E s \in Streams : SinkStep(s) \/ \E size \in Sizes : OnFrame(s, size)
      \/ UNCHANGED <<oversized, sink, mVideoW, mVideoH>>
  BY DEF VONext, voVars, streamVars, renderVars, SetVideoWindows, LeaveVideoRoom, Wait, MakeStream,
         OnAddTrack, OnRemoveTrack, onRemoteStreamRemove, StopView, Exposed, BeginPaint,
         PaintStep, LockForPaint, Upload, EndPaint
<1>. QED  BY <1>1, <1>2, <1>3, <1>4

\* pBufYuv420p is overrun, by the copy into it or by an upload of paintGL, only after
\* a frame came that is wider or higher than the box: for any number of streams, shared
\* widgets included, no mixture of the sizes of frames that fit leads out of it.
THEOREM OverrunsNeedOversize == VOSpec => []OverrunNeedsOversize
<1>1. FitSoFar => OverrunNeedsOversize
  BY PlanesInBounds, CopyInBounds DEF FitSoFar, InBox, OverrunNeedsOversize, InBuffer
<1>. QED  BY <1>1, FitInit, FitStep, TypeCorrect, PTL DEF VOSpec

-----------------------------------------------------------------------------
\* Sinks are between frames, or on one.
LEMMA FramesStep == VOTypeOK /\ FramesUnderWay /\ [VONext]_voVars => FramesUnderWay'
<1>. SUFFICES ASSUME VOTypeOK, FramesUnderWay, [VONext]_voVars PROVE FramesUnderWay'
  OBVIOUS
<1>. USE DEF VOTypeOK, FramesUnderWay, Between, Frame, streamVars, renderVars
<1>1. CASE SetVideoWindows
  BY <1>1 DEF SetVideoWindows
<1>2. CASE LeaveVideoRoom
  BY <1>2 DEF LeaveVideoRoom, Wait
<1>3. ASSUME NEW s \in Streams, MakeStream(s) PROVE FramesUnderWay'
  BY <1>3 DEF MakeStream
<1>4. ASSUME NEW s \in Streams, OnAddTrack(s) PROVE FramesUnderWay'
  BY <1>4 DEF OnAddTrack
<1>5. ASSUME NEW s \in Streams, OnRemoveTrack(s) PROVE FramesUnderWay'
  BY <1>5 DEF OnRemoveTrack, Wait
<1>6. ASSUME NEW s \in Streams, onRemoteStreamRemove(s) PROVE FramesUnderWay'
  BY <1>6 DEF onRemoteStreamRemove, Wait
<1>7. ASSUME NEW s \in Streams, StopView(s) PROVE FramesUnderWay'
  BY <1>7 DEF StopView
<1>8. ASSUME NEW s \in Streams, NEW size \in Sizes, OnFrame(s, size) PROVE FramesUnderWay'
  BY <1>8 DEF OnFrame
<1>9. ASSUME NEW s \in Streams, StoreWidth(s) PROVE FramesUnderWay'
  BY <1>9 DEF StoreWidth, GoesOn
<1>10. ASSUME NEW s \in Streams, StoreHeight(s) PROVE FramesUnderWay'
  BY <1>10 DEF StoreHeight, GoesOn
<1>11. ASSUME NEW s \in Streams, LockForCopy(s) PROVE FramesUnderWay'
  BY <1>11 DEF LockForCopy, GoesOn
<1>12. ASSUME NEW s \in Streams, EndCopy(s) PROVE FramesUnderWay'
  BY <1>12 DEF EndCopy, GoesOn
<1>13. ASSUME NEW s \in Streams, SetViewStated(s) PROVE FramesUnderWay'
  BY <1>13 DEF SetViewStated
<1>14. CASE Exposed
  BY <1>14 DEF Exposed
<1>15. CASE BeginPaint
  BY <1>15 DEF BeginPaint
<1>16. CASE LockForPaint
  BY <1>16 DEF LockForPaint
<1>17. ASSUME NEW plane \in {"Y", "U"}, Upload(plane, IF plane = "Y" THEN "U" ELSE "V") PROVE FramesUnderWay'
  BY <1>17 DEF Upload
<1>18. CASE EndPaint
  BY <1>18 DEF EndPaint, NotPainting
<1>19. CASE UNCHANGED voVars
  BY <1>19 DEF voVars
<1>. QED
  BY <1>1, <1>2, <1>3, <1>4, <1>5, <1>6, <1>7, <1>8, <1>9, <1>10, <1>11, <1>12, <1>13,
     <1>14, <1>15, <1>16, <1>17, <1>18, <1>19 DEF VONext, SinkStep, PaintStep

\* The mutex passes between sinks and painter only through being free.
LEMMA MutexStep == VOTypeOK /\ MutexHeld /\ [VONext]_voVars => MutexHeld'
<1>. SUFFICES ASSUME VOTypeOK, MutexHeld, [VONext]_voVars PROVE MutexHeld'
  OBVIOUS
<1>. USE DEF VOTypeOK, MutexHeld, Between, streamVars, renderVars
<1>1. CASE SetVideoWindows
  BY <1>1 DEF SetVideoWindows
<1>2. CASE LeaveVideoRoom
  BY <1>2 DEF LeaveVideoRoom, Wait
<1>3. ASSUME NEW s \in Streams, MakeStream(s) PROVE MutexHeld'
  BY <1>3 DEF MakeStream
<1>4. ASSUME NEW s \in Streams, OnAddTrack(s) PROVE MutexHeld'
  BY <1>4 DEF OnAddTrack
<1>5. ASSUME NEW s \in Streams, OnRemoveTrack(s) PROVE MutexHeld'
  BY <1>5 DEF OnRemoveTrack, Wait
<1>6. ASSUME NEW s \in Streams, onRemoteStreamRemove(s) PROVE MutexHeld'
  BY <1>6 DEF onRemoteStreamRemove, Wait
<1>7. ASSUME NEW s \in Streams, StopView(s) PROVE MutexHeld'
  BY <1>7 DEF StopView
<1>8. ASSUME NEW s \in Streams, NEW size \in Sizes, OnFrame(s, size) PROVE MutexHeld'
  BY <1>8 DEF OnFrame
<1>9. ASSUME NEW s \in Streams, StoreWidth(s) PROVE MutexHeld'
  <2>0. PICK to \in {"width", "height", "lock"} : sink' = [sink EXCEPT ![s].at = to]
    BY <1>9, Zenon DEF StoreWidth, GoesOn
  <2>1. \A t \in Streams : sink'[t].at = "copy" => sink[t].at = "copy"
    BY <2>0
  <2>2. UNCHANGED <<mMutex, painter>>
    BY <1>9 DEF StoreWidth, GoesOn
  <2>. QED  BY <2>1, <2>2
<1>10. ASSUME NEW s \in Streams, StoreHeight(s) PROVE MutexHeld'
  <2>0. PICK to \in {"width", "height", "lock"} : sink' = [sink EXCEPT ![s].at = to]
    BY <1>10, Zenon DEF StoreHeight, GoesOn
  <2>1. \A t \in Streams : sink'[t].at = "copy" => sink[t].at = "copy"
    BY <2>0
  <2>2. UNCHANGED <<mMutex, painter>>
    BY <1>10 DEF StoreHeight, GoesOn
  <2>. QED  BY <2>1, <2>2
<1>11. ASSUME NEW s \in Streams, LockForCopy(s) PROVE MutexHeld'
  BY <1>11 DEF LockForCopy, GoesOn
<1>12. ASSUME NEW s \in Streams, EndCopy(s) PROVE MutexHeld'
  BY <1>12 DEF EndCopy, GoesOn
<1>13. ASSUME NEW s \in Streams, SetViewStated(s) PROVE MutexHeld'
  BY <1>13 DEF SetViewStated
<1>14. CASE Exposed
  BY <1>14 DEF Exposed
<1>15. CASE BeginPaint
  BY <1>15 DEF BeginPaint, MainFree, NotPainting
<1>16. CASE LockForPaint
  BY <1>16 DEF LockForPaint
<1>17. ASSUME NEW plane \in {"Y", "U"}, Upload(plane, IF plane = "Y" THEN "U" ELSE "V") PROVE MutexHeld'
  BY <1>17 DEF Upload
<1>18. CASE EndPaint
  BY <1>18 DEF EndPaint, NotPainting
<1>19. CASE UNCHANGED voVars
  BY <1>19 DEF voVars
<1>. QED
  BY <1>1, <1>2, <1>3, <1>4, <1>5, <1>6, <1>7, <1>8, <1>9, <1>10, <1>11, <1>12, <1>13,
     <1>14, <1>15, <1>16, <1>17, <1>18, <1>19 DEF VONext, SinkStep, PaintStep

\* The buffer is whole whenever the painter can hold the mutex.
LEMMA BufferStep == VOTypeOK /\ FramesUnderWay /\ MutexHeld /\ BufferWhole /\ [VONext]_voVars => BufferWhole'
<1>. SUFFICES ASSUME VOTypeOK, FramesUnderWay, MutexHeld, BufferWhole, [VONext]_voVars PROVE BufferWhole'
  OBVIOUS
<1>. USE DEF VOTypeOK, FramesUnderWay, MutexHeld, BufferWhole, Between, streamVars, renderVars
<1>1. CASE SetVideoWindows
  BY <1>1 DEF SetVideoWindows
<1>2. CASE LeaveVideoRoom
  BY <1>2 DEF LeaveVideoRoom, Wait
<1>3. ASSUME NEW s \in Streams, MakeStream(s) PROVE BufferWhole'
  BY <1>3 DEF MakeStream
<1>4. ASSUME NEW s \in Streams, OnAddTrack(s) PROVE BufferWhole'
  BY <1>4 DEF OnAddTrack
<1>5. ASSUME NEW s \in Streams, OnRemoveTrack(s) PROVE BufferWhole'
  BY <1>5 DEF OnRemoveTrack, Wait
<1>6. ASSUME NEW s \in Streams, onRemoteStreamRemove(s) PROVE BufferWhole'
  BY <1>6 DEF onRemoteStreamRemove, Wait
<1>7. ASSUME NEW s \in Streams, StopView(s) PROVE BufferWhole'
  BY <1>7 DEF StopView
<1>8. ASSUME NEW s \in Streams, NEW size \in Sizes, OnFrame(s, size) PROVE BufferWhole'
  BY <1>8 DEF OnFrame
<1>9. ASSUME NEW s \in Streams, StoreWidth(s) PROVE BufferWhole'
  BY <1>9 DEF StoreWidth, GoesOn
<1>10. ASSUME NEW s \in Streams, StoreHeight(s) PROVE BufferWhole'
  BY <1>10 DEF StoreHeight, GoesOn
<1>11. ASSUME NEW s \in Streams, LockForCopy(s) PROVE BufferWhole'
  BY <1>11, ContentsDiffer DEF LockForCopy, GoesOn
<1>12. ASSUME NEW s \in Streams, EndCopy(s) PROVE BufferWhole'
  <2>1. buffer' # Torn /\ buffer' # Empty
    BY <1>12, ContentsDiffer DEF EndCopy, GoesOn
  <2>. QED  BY <1>12, <2>1 DEF EndCopy, GoesOn
<1>13. ASSUME NEW s \in Streams, SetViewStated(s) PROVE BufferWhole'
  BY <1>13 DEF SetViewStated
<1>14. CASE Exposed
  BY <1>14 DEF Exposed
<1>15. CASE BeginPaint
  BY <1>15 DEF BeginPaint, MainFree, NotPainting
<1>16. CASE LockForPaint
  BY <1>16 DEF LockForPaint
<1>17. ASSUME NEW plane \in {"Y", "U"}, Upload(plane, IF plane = "Y" THEN "U" ELSE "V") PROVE BufferWhole'
  BY <1>17 DEF Upload
<1>18. CASE EndPaint
  BY <1>18 DEF EndPaint, NotPainting
<1>19. CASE UNCHANGED voVars
  BY <1>19 DEF voVars
<1>. QED
  BY <1>1, <1>2, <1>3, <1>4, <1>5, <1>6, <1>7, <1>8, <1>9, <1>10, <1>11, <1>12, <1>13,
     <1>14, <1>15, <1>16, <1>17, <1>18, <1>19 DEF VONext, SinkStep, PaintStep

\* What has been uploaded is still in the buffer.
LEMMA PaintStepKeeps == VOTypeOK /\ FramesUnderWay /\ MutexHeld /\ BufferWhole /\ PaintsOneFrame /\ [VONext]_voVars => PaintsOneFrame'
<1>. SUFFICES ASSUME VOTypeOK, FramesUnderWay, MutexHeld, BufferWhole, PaintsOneFrame, [VONext]_voVars PROVE PaintsOneFrame'
  OBVIOUS
<1>. USE DEF VOTypeOK, FramesUnderWay, MutexHeld, BufferWhole, PaintsOneFrame, Between, streamVars, renderVars
<1>1. CASE SetVideoWindows
  BY <1>1 DEF SetVideoWindows
<1>2. CASE LeaveVideoRoom
  BY <1>2 DEF LeaveVideoRoom, Wait
<1>3. ASSUME NEW s \in Streams, MakeStream(s) PROVE PaintsOneFrame'
  BY <1>3 DEF MakeStream
<1>4. ASSUME NEW s \in Streams, OnAddTrack(s) PROVE PaintsOneFrame'
  BY <1>4 DEF OnAddTrack
<1>5. ASSUME NEW s \in Streams, OnRemoveTrack(s) PROVE PaintsOneFrame'
  BY <1>5 DEF OnRemoveTrack, Wait
<1>6. ASSUME NEW s \in Streams, onRemoteStreamRemove(s) PROVE PaintsOneFrame'
  BY <1>6 DEF onRemoteStreamRemove, Wait
<1>7. ASSUME NEW s \in Streams, StopView(s) PROVE PaintsOneFrame'
  BY <1>7 DEF StopView
<1>8. ASSUME NEW s \in Streams, NEW size \in Sizes, OnFrame(s, size) PROVE PaintsOneFrame'
  BY <1>8 DEF OnFrame
<1>9. ASSUME NEW s \in Streams, StoreWidth(s) PROVE PaintsOneFrame'
  BY <1>9 DEF StoreWidth, GoesOn
<1>10. ASSUME NEW s \in Streams, StoreHeight(s) PROVE PaintsOneFrame'
  BY <1>10 DEF StoreHeight, GoesOn
<1>11. ASSUME NEW s \in Streams, LockForCopy(s) PROVE PaintsOneFrame'
  BY <1>11 DEF LockForCopy, GoesOn
<1>12. ASSUME NEW s \in Streams, EndCopy(s) PROVE PaintsOneFrame'
  BY <1>12 DEF EndCopy, GoesOn
<1>13. ASSUME NEW s \in Streams, SetViewStated(s) PROVE PaintsOneFrame'
  BY <1>13 DEF SetViewStated
<1>14. CASE Exposed
  BY <1>14 DEF Exposed
<1>15. CASE BeginPaint
  BY <1>15 DEF BeginPaint
<1>16. CASE LockForPaint
  BY <1>16 DEF LockForPaint
<1>17. ASSUME NEW plane \in {"Y", "U"}, Upload(plane, IF plane = "Y" THEN "U" ELSE "V") PROVE PaintsOneFrame'
  <2>1. buffer \in Frame
    BY <1>17 DEF Upload, Contents
  <2>2. painter.planes \in Seq(Plane) /\ painter'.planes = Uploaded /\ UNCHANGED buffer
    BY <1>17 DEF Upload
  <2>3. ASSUME NEW k \in DOMAIN Uploaded
        PROVE  Uploaded[k].from = buffer
    <3>1. \/ k \in DOMAIN painter.planes /\ Uploaded[k] = painter.planes[k]
          \/ Uploaded[k] = [w |-> mVideoW, h |-> mVideoH, from |-> buffer]
      BY <2>2, <2>3 DEF Uploaded
    <3>. QED  BY <3>1
  <2>. QED  BY <2>1, <2>2, <2>3
<1>18. CASE EndPaint
  BY <1>18 DEF EndPaint, NotPainting
<1>19. CASE UNCHANGED voVars
  BY <1>19 DEF voVars
<1>. QED
  BY <1>1, <1>2, <1>3, <1>4, <1>5, <1>6, <1>7, <1>8, <1>9, <1>10, <1>11, <1>12, <1>13,
     <1>14, <1>15, <1>16, <1>17, <1>18, <1>19 DEF VONext, SinkStep, PaintStep

\* Only the one stream's sink writes the size.
LEMMA SizeStep == VOTypeOK /\ OwnSize /\ [VONext]_voVars => OwnSize'
<1>. SUFFICES ASSUME VOTypeOK, OwnSize, [VONext]_voVars PROVE OwnSize'
  OBVIOUS
<1>. USE DEF VOTypeOK, OwnSize, Between, Alive, streamVars, renderVars
<1>1. CASE SetVideoWindows
  BY <1>1 DEF SetVideoWindows
<1>2. CASE LeaveVideoRoom
  BY <1>2 DEF LeaveVideoRoom, Wait, Waiting
<1>3. ASSUME NEW s \in Streams, MakeStream(s) PROVE OwnSize'
  BY <1>3 DEF MakeStream
<1>4. ASSUME NEW s \in Streams, OnAddTrack(s) PROVE OwnSize'
  BY <1>4 DEF OnAddTrack
<1>5. ASSUME NEW s \in Streams, OnRemoveTrack(s) PROVE OwnSize'
  BY <1>5 DEF OnRemoveTrack, Wait, Waiting
<1>6. ASSUME NEW s \in Streams, onRemoteStreamRemove(s) PROVE OwnSize'
  BY <1>6 DEF onRemoteStreamRemove, Wait, Waiting
<1>7. ASSUME NEW s \in Streams, StopView(s) PROVE OwnSize'
  <2>1. \A t \in Streams : t # s => stream'[t] = stream[t]
    BY <1>7 DEF StopView
  <2>2. Alive' \subseteq Alive
    <3>1. s \in Alive
      BY <1>7 DEF StopView
    <3>. QED  BY <2>1, <3>1
  <2>3. \A t \in Streams : sink[t] # Between => t # s
    BY <1>7 DEF StopView
  <2>4. UNCHANGED <<sink, shared, mVideoW, mVideoH>>
    BY <1>7 DEF StopView
  <2>5. (main.streams \subseteq Alive)'
    <3>1. main'.streams = main.streams \ {s}
      BY <1>7 DEF StopView, Free, Waiting
    <3>. QED  BY <2>1, <3>1
  <2>. QED  BY <2>1, <2>2, <2>3, <2>4, <2>5
<1>8. ASSUME NEW s \in Streams, NEW size \in Sizes, OnFrame(s, size) PROVE OwnSize'
  BY <1>8 DEF OnFrame
<1>9. ASSUME NEW s \in Streams, StoreWidth(s) PROVE OwnSize'
  BY <1>9 DEF StoreWidth, GoesOn
<1>10. ASSUME NEW s \in Streams, StoreHeight(s) PROVE OwnSize'
  BY <1>10 DEF StoreHeight, GoesOn
<1>11. ASSUME NEW s \in Streams, LockForCopy(s) PROVE OwnSize'
  BY <1>11 DEF LockForCopy, GoesOn
<1>12. ASSUME NEW s \in Streams, EndCopy(s) PROVE OwnSize'
  BY <1>12 DEF EndCopy, GoesOn
<1>13. ASSUME NEW s \in Streams, SetViewStated(s) PROVE OwnSize'
  BY <1>13 DEF SetViewStated
<1>14. CASE Exposed
  BY <1>14 DEF Exposed
<1>15. CASE BeginPaint
  BY <1>15 DEF BeginPaint
<1>16. CASE LockForPaint
  BY <1>16 DEF LockForPaint
<1>17. ASSUME NEW plane \in {"Y", "U"}, Upload(plane, IF plane = "Y" THEN "U" ELSE "V") PROVE OwnSize'
  BY <1>17 DEF Upload
<1>18. CASE EndPaint
  BY <1>18 DEF EndPaint, NotPainting
<1>19. CASE UNCHANGED voVars
  BY <1>19 DEF voVars
<1>. QED
  BY <1>1, <1>2, <1>3, <1>4, <1>5, <1>6, <1>7, <1>8, <1>9, <1>10, <1>11, <1>12, <1>13,
     <1>14, <1>15, <1>16, <1>17, <1>18, <1>19 DEF VONext, SinkStep, PaintStep

-----------------------------------------------------------------------------
(* The invariants together.                                                *)

VOInv == VOTypeOK /\ FramesUnderWay /\ MutexHeld /\ BufferWhole /\ OwnSize /\ PaintsOneFrame

\* Nothing has arrived yet and nobody holds the mutex.
LEMMA InvInit == VOInit => VOInv
<1>. SUFFICES ASSUME VOInit PROVE VOInv
  OBVIOUS
<1>1. VOTypeOK
  BY TypeInit
<1>2. FramesUnderWay
  BY DEF VOInit, FramesUnderWay
<1>3. MutexHeld
  BY DEF VOInit, MutexHeld, NotPainting, Between
<1>4. BufferWhole
  BY ContentsDiffer DEF VOInit, BufferWhole, NotPainting, Between
<1>5. OwnSize
  BY DEF VOInit, OwnSize, Between, Alive, Free, Waiting
<1>6. PaintsOneFrame
  BY DEF VOInit, PaintsOneFrame, NotPainting
<1>. QED  BY <1>1, <1>2, <1>3, <1>4, <1>5, <1>6 DEF VOInv

\* The invariants are inductive together.
LEMMA InvStep == VOInv /\ [VONext]_voVars => VOInv'
BY TypeStep, FramesStep, MutexStep, BufferStep, SizeStep, PaintStepKeeps DEF VOInv

\* So they always hold.
LEMMA InvHolds == VOSpec => []VOInv
<1>. QED  BY InvInit, InvStep, PTL DEF VOSpec

\* SetYUVData copies as many bytes as its frame has, however the widget passes from
\* stream to stream, as long as it was not given to two at once.
THEOREM FrameIsCopiedWhole == VOSpec => []CopiesItsFrame
<1>1. VOInv => CopiesItsFrame
  BY DEF VOInv, OwnSize, CopiesItsFrame
<1>. QED  BY <1>1, InvHolds, PTL

\* The three planes paintGL uploads are of one finished copy.
THEOREM PictureIsOneFrame == VOSpec => []PaintsOneFrame
<1>1. VOInv => PaintsOneFrame
  BY DEF VOInv
<1>. QED  BY <1>1, InvHolds, PTL
=============================================================================
