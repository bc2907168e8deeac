# UbuntuWebrtcDemo: a TLA+ verification project

UbuntuWebrtcDemo is a Qt client for the Janus gateway: it logs in over a
WebSocket, publishes the camera in a video room, shows the other publishers in
a fixed set of windows, creates and destroys rooms, and chats over a data
channel. The code of the demo is the `.cpp`/`.h` files at the top of `src/`
(about 4500 lines); `src/webrtc`, `src/libyuv` and `src/jsoncpp` are vendored.

## Inventory

| component | state it keeps | operations |
|---|---|---|
| `JanusWebSocket` | the socket, `pPingTimer`, `pPingTimeOutTimer` | `Open`, `Close`, `ResetTimer`, slots for messages, errors and the two timers |
| `JanusVideoRoomManager` | `mSessionId`, callbacks by transaction, `mVideoRoomPeerList`, `mTextRoomPeerList`, two admin peers | login, join, leave, create, destroy; one handler per Janus message and event |
| `JanusPeerConnection` | session, plugin handle, feed, room | attach, join, create, destroy, send descriptions and candidates |
| `ConferenceManager` | streams by handle (video, data), `mRemoteWinds`, text room id | callbacks of the room manager, slots for the streams' signals |
| `WebrtcStreamBase`, `-VideoAudio`, `-DataChannels` | the WebRTC peer connection, the video track and its view, the data channel | offer, answer, candidates, tracks, messages |
| `WebRTCInterface`, `MainWindow` | none to speak of | one function and one button per user operation |
| `VideoRender`, `WebrtcVideoFrame` | the frame buffer shared by two threads | set size, set data, paint |
| `VcmCapture`, `VideoCapture`, `CapturerTrackSource` | capture module or camera thread, frame buffer | init, frame, destroy |
| `ConnecttionFactory`, `JsonTools`, `Common` | a singleton; none | pure helpers |

How they interact. Everything but the media runs on the Qt main thread:
buttons call down through `WebRTCInterface` into the two managers; messages
of the server come up through `JanusWebSocket` into `JanusVideoRoomManager`,
which calls `ConferenceManager` back (`OnConnectToPeer`, `OnRemoteSdp`,
`OnRemoteStreamRemove`). WebRTC's signaling thread calls the observers of a
stream; these emit Qt signals that are queued and handled by
`ConferenceManager` on the main thread, which calls `JanusVideoRoomManager` to
send. Requests to the server are two or three round trips long; what is to
be done with an answer is kept in a map of callbacks bound to raw pointers.

What is hard: answers, events, user actions and queued signals arrive in any
order; objects are deleted while callbacks and signals for them are on their
way; sessions are lost and made again while the client keeps its old state;
two timers decide whether a connection is alive. `PROJECT.json` lists these
hazards line by line, with the properties that would catch each.

What makes each part correct: the connection ends when the server is silent,
and only then; lists and callbacks never refer to deleted peers; a handle
belongs to one peer and is used for one purpose; the server gets descriptions,
candidates and the end of candidates in order, and gets every description it
waits for; windows are not lost, nor given to two streams; an administrative
operation concerns and reports the room that was typed; every announced feed is
subscribed to and given up again; what is said in a text room follows one join
and goes to the room that was joined; the frame buffer is read and written
within its bounds, whole frames at a time. Where the code falls short of this
(unset window ids, a second login, frames larger than the buffer) the properties
say exactly how far it goes; see "Findings".

## Modules

```
JanusWebSocket ── PromptServer    JanusVideoRoomManager   ConferenceManager     RoomAdmin
                                     │        └─────┬─────────────┘ (INSTANCE)  DataChannel
                                  Subscription   VideoCall                      VideoOutput
                                     │ (implements)
                                  Roster
```

The proofs are in modules of their own, `XProof` for `X`; the connection's two
modules share `JanusWebSocketProof`. `SubscriptionProof` and `VideoCallProof`
extend `JanusVideoRoomManagerProof`, and `VideoCallProof` instantiates
`ConferenceManagerProof`, so that what is proved of a component is used, not
proved again, where it is composed.

Each `MC…` module gives the constants of one of these small values for TLC.
An operator named `X_something`, marked "Plausible error", is a variant of `X`
that a bug in the code would amount to; each is put in place of `X` to
see that a property notices. No specification uses them.

### JanusWebSocket

One action per slot and public operation. A `QTimer` is a record of the time
left (-1 when stopped) and the interval it was last started with. Time
advances by `Tick`, never past a due timer; all that happens at one instant
happens in any order. `mSessionId` is 0, of this connection, or stale;
`keepalives` counts what the server may still acknowledge. `silence` (ticks
since the last ack) and `inherited` (the time-out timer ran already when the
connection came up) are history variables. One tick stands for five seconds
(25 s : 60 s is 5 : 12). Qt's coarse timers may be 5 % off, which is less than
a tick and is ignored.

`PromptServer` adds a server that answers within `Delay` ticks until it hangs, if
it does; a hung one may answer at any time or never, as in `JanusWebSocket` alone.

### JanusVideoRoomManager (with JanusPeerConnection)

A peer is the memory block it lives in: `new` takes a free block, `delete`
frees it, callbacks stay bound to the block. An answer to a peer that was
deleted therefore runs on whatever is in the block: a new peer, which takes
the handle as its own, or free memory (the join goes nowhere, or the process
dies). `mVideoRoomHandleID` is not initialised by the constructor, and
whether the destructor's zero survives depends on the build (a store to a
dying object may be dropped), so a peer in a recycled block may carry the old
handle until its own attach is answered. The constant `StoresDropped` says
which build is modelled.

The n-th attach request gets handle n if it succeeds. The server (external) is
`srv`: what it knows of each handle. Its events are actions enabled by that
knowledge. `error` answers are ignored by the code, so an error is an answer
that never comes. Dying of undefined behaviour is `VMLogout`: everything is
back to the start and nothing is persistent.

### ConferenceManager (with WebrtcStreamBase and WebrtcStreamVideoAudio)

`streams` is the map of video streams, `mRemoteWinds` the windows, `posted`
the queue of Qt signals. The four observer callbacks of a stream run on the
signaling thread at any time while the stream exists; `TakeSignal` is the main
thread handling the oldest signal. A stream's `win` is its `mWindowID`. The
constructor does not initialise it and `SetWindowID` is called only when a window
is free, so a stream that is told none (every window taken, or our own stream,
which gets no track and does not draw) has any window there, or none: what the
memory held (`Unset`). `told` is history: `SetWindowID` was called. `orphans` is
history: streams alive when `SetVideoWindows` cleared the windows.

### VideoCall

The two managers in one process: each action is a whole handler, with the
calls it makes into the other manager (`EventUnpublished` is
`onVideoRoomEventUnpublish` with `onRemoteStreamRemove`, `TakeSignal` is
`onLocalSDP` or `onLocalIceCandidate` with `SendSDP` or `SendCandidate`).
`wire` is history: what the server has got on each handle.

### RoomAdmin

The two admin peers, shared by all creations and destructions of a kind. An
operation is attached, asked and answered, in two round trips; other
operations, drops and logins come in between. A room field nobody has set
holds an arbitrary number (`JunkRoom` or a room).

### Roster and Subscription

`Roster` is what the room manager promises about subscriptions, without lists,
peers, handles or answers: per feed, the number of subscriptions (`roster`) and
of announcements not taken back (`told`). An announcement adds one of each,
"unpublished" takes one of each, leaving takes all subscriptions, a lost session
all announcements. `Subscription` is `JanusVideoRoomManager` with one history
variable (`stale`: subscriptions there were when the session was lost) and the
refinement mapping: `roster` counts the listed peers by feed, `told` the live
handles that were told of the feed.

### DataChannel (with WebrtcStreamDataChannels)

The n-th request to join a text room makes the n-th peer, handle and stream, so
one number names them. Two threads: `main` is idle or between setting the room
and making the peer, `signaling` is idle or between reading the room and sending
the join (`OnStateChange`). The name is a string that is read without a lock: a
read while it is assigned may see the old one, the new one or neither
(`TornName`). A call of the main thread into WebRTC waits for the signaling
thread (WebRTC's proxies are synchronous), so `SendMessage` and the making and
deleting of streams need it free. Using the null stream is the process dying.
`requests` and `got` are history: what was typed and what the server received.

### VideoOutput (with WebrtcVideoFrame and the view of WebrtcStreamVideoAudio)

One widget, the sinks that draw in it, and the streams that own them. Each
store of `SetVideoSize`, the beginning and end of the copy, and each upload of
`paintGL` is a step; the two stores come in either order, as nothing orders them.
The mutex is held from `LockForCopy` to `EndCopy` and from `LockForPaint` to
`EndPaint`. `RemoveSink` returns when no `OnFrame` of the sink runs
(`api/video/video_source_interface.h:54`). A frame is its size and the stream it
came to; `buffer` is `Torn` during a copy; `picture` is `Torn` if the planes were
uploaded with another size than the frame's. `shared` is history: the widget was
given to a second stream while one had it, by a second login or, when no window
is free, by a stale `mWindowID`. Frames are of any size, as nothing in the code
checks one; `oversized` is history: a frame exceeded `MaxVideoW` or `MaxVideoH`.
`Rows` pads to four bytes, OpenGL's default alignment. That a frame is copied or
shown whole speaks of lengths and order only: `OnFrame` copies planes without
regard to their strides (`WebrtcVideoFrame.cpp:40`), and rows whose width is no
multiple of four are unpacked with padding that is not in the buffer, so such
pictures are skewed in a way the model does not show.

## Runs

| run | states | shows |
|---|---|---|
| `connection` | 4.2 k | a dead connection is closed within PingInterval + PingTimeout (`SilenceBounded`, `SilenceEnds`); one that found the time-out timer quiet is never closed early (`TimeoutMeansSilence`), and not at all while the server is prompt, although the first keepalive may carry a wrong session id (`HealthyStaysUp`); an ack never starts a timer with interval 0 (`AckFindsArmedTimer`) |
| `relogin_timeout` | violation | see the findings |
| `video_rooms` | 187 k | `ListSound`, `HandlesDistinct`, `RolesAgree`, and `CallbackFindsItsPeer`: only leaving the room takes a peer away from under an answer; the room manager implements `Roster` (`ImplementsRoster`); live subscribers nobody will withdraw stem from lost sessions, one for one (`GhostsFromLostSessions`) |
| `windows` | 95 k | no window stays entered for a stream that is gone (`WindowsLive`); of two streams with one window, one was never told a window or outlived a login (`WindowExclusive`) |
| `video_call` | 1.6 M | order and kind of what is sent (`WireOrder`, `RequestFits`), windows against streams (`WindowShowsItsStream`, `OwnStreamHasNoWindow`); a description the server waits for is being made or on its way (`NegotiationUnderWay`) |
| `negotiation` | 183 k | our description always gets out, or someone gave up (`NegotiationEnds`); `WireOrder` and `RequestFits` with a longer queue, and with new peers that find the handles of deleted ones in their memory, as does `RolesAgree`: it matters only until their own attach is answered |
| `answer_finds_offer` | violation | see the findings |
| `room_admin` | 290 k | an operation that is not overtaken asks for and reports its own room |
| `outcome_reported` | violation | see the findings |
| `text_rooms` | 321 k | the join comes first and once (`JoinFirst`), with the room and name typed for it (`JoinAsAsked`); what is said goes to the room that was joined (`SaidInJoinedRoom`); offers are answered (`TextNegotiationEnds`), open channels send their join (`OpenedIsJoined`) |
| `video_output` | 2.7 M | with frames of any size, and the size written outside the mutex: overruns of the buffer need a frame that exceeded the box (`OverrunNeedsOversize`); `CopiesItsFrame`, `PaintsOneFrame` |
| `last_frame` | 3 k | the last frame is shown whole and in its size (`LastFrameShown`); the main thread does not wait for ever in `RemoveSink` (`StopReturns`) |

Bounds. `connection`: the code's intervals in ticks of 5 s and the longest delay
the assumption allows. `video_rooms`: four blocks and attaches, two feeds: publisher and two
subscribers at once; a peer in recycled memory while the answer to the old one is
on its way; the publisher and subscriber of a lost session beside those of the
next. `windows`: three streams for two windows, so that one goes without; one
signal queued suffices, and only while there is one stream (`OneTalks`), as the
queue does not touch the windows. `video_call`:
three attaches and blocks, one feed (which can come, go and come again), one
window, the build that keeps the destructor's stores. `negotiation`: the other
build, two attaches and blocks (publisher and subscriber, or a room joined again
in the memory of the first peer), three queued signals (description, candidate,
end). `room_admin`: two operations, as one overtaking another is the only
interaction; two rooms. `text_rooms`: two requests, as one overtaking another is
the interaction, two rooms and names, two messages on a channel (the join and
one more, of either kind). `video_output`: two streams and two sizes, one wide,
one high and odd, in a box of 8x4: each is larger than the other in one
direction, so that mixed sizes can exceed both; and a third size that exceeds the
box in its height, though not in its area. `last_frame`: one stream, as
several only delay each other. Symmetry is used where no liveness is checked:
blocks, feeds, handles, streams and rooms. The counters of attaches and operations are
bounds only; `MaxPosted` delays WebRTC's thread; `MaxMaking` holds a further
description for a stream back until the last one has been dealt with.

Fairness. `connection`: time passes (before it would have to stop, a prompt
server answers or hangs) and the slot of a due timer runs (the event loop). `negotiation`: the main thread handles queued signals (weak), and
WebRTC ends every CreateOffer and CreateAnswer in `OnSuccess` or `OnFailure`.
That is strong only because the bound on the queue can disable the posting of
a signal again and again; in the code posting never blocks. `text_rooms`:
the same for the text rooms, and either thread goes on with what it began.
`last_frame`: the threads run and the event loop gets to a repaint it was asked
for; whoever waits for a lock that others take again and again (the mutex, or
the one with which `RemoveSink` keeps `OnFrame` out) gets it in the end, which is
strong fairness; frames come at tens per second and locks are held for
milliseconds. Nothing is assumed of the user, the network or the server.

`CHECK_DEADLOCK` is on everywhere.

## Proofs

Checked by TLAPS for all values of the constants that satisfy the modules' named
assumptions. Every safety property of a passing run has its theorem; the
bounds (attaches, operations, joins, queue) are arbitrary numbers there. Beyond
the bounds being numbers the assumptions are those of the code's own constants
(the intervals, the delay of the server, the width of the frame box) and, for the rooms, that
the feeds one event announces can be counted (`Feeds` is finite).

* `JanusWebSocketProof`: `TypeCorrect`, `SilenceIsBounded`, `AckIsSafe`,
  `TimeoutIsDeserved`, from `PingAssumption` (0 < PingInterval < PingTimeout).
  `SilenceBounded` is not inductive: what bounds the silence is the time left
  on the timers. The invariant `IInv` adds `SilenceBudget` (silence so far plus
  the time left on the time-out timer lies between PingTimeout, unless
  inherited, and PingInterval + PingTimeout; before it is armed, silence plus
  the time left on the ping timer is at most PingInterval), `TimersSet`,
  `PingRuns` and `NothingOutlives`. `PromptServerIsKept`, from `DelayAssumption`
  (Delay < PingInterval, PingInterval + Delay < PingTimeout): `AckWins` says
  that on the time-out timer there is always enough left for the ack under
  way, or for the next keepalive and its ack, as long as the server is prompt;
  `SessionComes` that by then the session exists.
* `JanusVideoRoomManagerProof`: `RoomTypeCorrect`, `ListStaysSound`,
  `HandlesStayDistinct`, `RolesStayAgreed` and the action property
  `AnswersFindTheirPeers`, for either build. `HandlesDistinct` and `RolesAgree` are
  not inductive, because memory is recycled under callbacks. `VMInv` rests on an attach number
  being used up once: it waits in one callback or was written into one block
  (`AnsweredOnce`, `BlocksDistinct`, which speaks of free memory too), and none
  beyond the counter is in use (`Counted`). `RolesSound` is `RolesAgree` with the
  handle known to be one; `JoiningUntold` says no feed is announced before
  "joined". The steps that make peers go through one lemma (`Made`,
  `NewPeersMade`): what `new` does to memory, list and callbacks at once.
* `SubscriptionProof`: `ManagerImplementsRoster`, step by step from `VMInv`: the
  subscribers of a feed are counted by their positions on the list, of which
  joining and announcing add some at the end (`NewSubscribers`), "unpublished" takes
  the first and shifts the rest, and leaving takes all. With the refinement,
  `GhostsOnlyFromLostSessions` follows from an invariant of `Roster` alone
  (`Covered`: no more subscriptions to a feed than announcements and stale
  subscriptions together).
* `ConferenceManagerProof`: `WindowsStayLive` and `WindowsAreExclusive` for any
  set of handles and number of windows, whatever unset window ids hold. The
  invariant adds `WindowHeld`: a stream told a window since the last login is the
  one entered for it, so two that were told the same one are the same. That
  the first free window is a free window rests on the well-foundedness of the
  naturals (`LeastWindow`). `ConferenceTypeCorrect` adds the queue and that there
  are either no windows or all of them (`RestOK`).
* `VideoCallProof`: `WireStaysInOrder`, `RequestsAlwaysFit`,
  `WindowsShowTheirStreams`, `OwnStreamStaysHidden`, `NegotiationStaysUnderWay`. First each step of the call is
  shown to be a step of either manager or to leave it alone (`CallIsVM`,
  `CallIsCM`), so that `VMInv` and `CMInv` hold (and, as theorems,
  `CallImplementsRoom`, `CallImplementsConference` and with them every result about the
  managers alone, `CallRolesAgree` for one). What they keep together is `CallInv`:
  nothing happens on a handle before its join was answered (`TouchedLate`), so that
  whoever becomes its owner finds no stream, no queued signal and nothing sent;
  from then on queue, gathering and wire are in order (`QueueInOrder`) until the
  owner goes, for nobody comes to own a handle twice (`Effects`); streams of publishers
  make offers and those of subscribers answers (`KindsFit`); and a publisher that
  has joined has its stream, which was told no window (`OwnConnected`).
  `NegotiationUnderWay` is inductive with `PhasesFit` (publishers join, subscribers
  are offered): the server begins to wait only with a step that asks a stream for
  the description (`WaitBegins`, `PhaseChanges`), and no step loses what is on its
  way without ending the wait (`WaitGoesOn`). The proof goes handle
  by handle: `StepCases` says what a step may do to one handle's stream, signals
  and wire.
* `RoomAdminProof`: `AdminTypeCorrect`, `RequestsKeepTheirRoom`,
  `FailuresKeepTheirRoom`. Both are read from a peer that later operations
  overwrite, so `AdminInv` says of it what each unfinished operation needs: it exists
  and, until the operation is overtaken, holds its room (`PeerHolds`).
* `DataChannelProof`: `TextTypeCorrect`, `JoinComesFirst`, `JoinIsAsAsked`,
  `SaidWhereJoined`. `DCInv`: the callback of a stream is set exactly as long as
  nothing arrived over its channel, and while the channel is open with it set, the
  signaling thread is amid sending the join (`Callback`, `Joining`), which keeps the
  main thread's `SendMessage` waiting; the manager holds what was typed last
  (`LastAsked`).
* `VideoOutputProof`: `TypeCorrect`, `OverrunsNeedOversize`, `FrameIsCopiedWhole`
  and `PictureIsOneFrame`, for any streams and any frame sizes, from `SizeAssumption`
  (the width of the box is a multiple of 8, as 1920 is; sizes are positive). For
  the first, `FitSoFar`: as long as no frame exceeded the box, whatever size is
  stored, in the hands of a sink or uploaded fits it in both directions; then
  whichever width and height the painter sees together, every plane with its
  padded rows ends within the buffer (`PlanesInBounds`, `CopyInBounds`). The other two need `MutexHeld` (one holder, who is
  known), `BufferWhole` (torn only during a copy, empty only before the first, so
  that a painter finds neither) and `OwnSize` (on a widget that was never shared
  only the one stream's sink stores sizes, so what it stored is still there when
  it copies).

The inductive invariants were checked by TLC on the runs' instances before they
were proved.

Only model-checked: liveness (`SilenceEnds`, `NegotiationEnds`,
`TextNegotiationEnds`, `OpenedIsJoined`, `LastFrameShown`, `StopReturns`), which
TLAPS does not reach.

## Findings

* **Re-login and the time-out** (`relogin_timeout`). `JanusWebSocket::Open`
  restarts only `pPingTimer`. If a connection drops and the user logs in again
  before the next ping slot (which would stop the time-out), or logs in on top
  of a live connection, the time-out timer of the old connection goes on and
  closes the new one, before it has been silent for 60 s, unless an ack of the
  new one comes first. `JanusWebSocket.h:59` says the slot is called when the
  connection has timed out. `TimeoutMeansSilence` and `HealthyStaysUp` show
  that this is the only way.
* **Outcome of room operations** (`outcome_reported`). `CreateTextRoom` registers
  the video room handler: the room number sent is an unset field and the outcome
  is not reported; `onAttachTextRoomCreate` is never used. The same property
  fails for `JanusPeerConnection::onDestoryVideoRoom`, which calls the callback
  for created rooms.
* **Late answer** (`answer_finds_offer`). Leave the room while the answer to our
  offer is on its way: a new stream is made for it, which has no offer and
  rejects it, and `SetPeerSDP` reads the description WebRTC has freed.

Three more defects are plain in the states of the models, where what follows them
is undefined and the process may die; no run is spent on them:

* `~ConferenceManager` deletes every stream of the map and then
  `LocalStream_DataChannels`, which is in the map: logging out after a text
  room's offer came deletes one stream twice (`local # 0` in `DataChannel`).
* `OnDataChannel` registers the stream on the channel the server opens; only its
  own channel is unregistered before it is deleted (`remote` in `DataChannel`),
  against `data_channel_interface.h:125`.
* Leaving deletes reference-counted streams while WebRTC holds references to
  them, as observers of an offer or answer being made (`making` in
  `ConferenceManager`), against `scoped_refptr.h:111`.

Behaviour the models exhibit that no document contradicts, and that the
properties therefore step around:

* an operation on a room asked for before the attach of the previous one of its
  kind was answered overwrites the room of that one: both go out with the
  later room (`AsksForItsRoom`, `FailureNamesItsRoom` exclude it);
* leaving a room while an attach is unanswered leaves a callback on deleted
  memory (`CallbackFindsItsPeer` shows nothing else does);
* until its attach is answered, a peer in recycled memory may be taken for the
  owner of the old handle; what is sent then is `stray` in `VideoCall`;
* leaving is not told to the server, so a late description for an old
  subscriber makes a new stream that takes a window until the next leave;
* after a reconnect an "unpublished" removes the stale subscriber of the lost
  session, which comes first on the list, and the live one stays, with its
  window, until the room is left (`GhostsFromLostSessions`);
* a widget shared by two streams may be copied to with the size of the other
  stream's frame (`CopiesItsFrame` excludes it);
* no size is checked: `StartView` asks for frames of any number of pixels
  (`VideoSinkWants`), and one that does not fit 1920x1280 is copied beyond the end
  of the buffer; one of 1080x1920, which fits by its area, is uploaded beyond it if
  its height is seen with a width of 1920 of the frame before or after. Both are
  behaviours of `VideoOutput`; `OverrunNeedsOversize` shows that nothing else
  overruns, and no document says what is published;
* a stream made when all windows are taken draws where the memory it lives in
  says, which may be a window in use (`Unset`; `WindowExclusive` shows that this
  and a second login are the only ways);
* a second request to join a text room before the first channel opens joins
  twice in the later room, perhaps with a torn name; candidates of data
  channels are never sent;
* a second login while streams are alive hands their windows out again
  (`orphans`);
* the admin peers keep the session they were made with, so after a reconnect
  their requests are not answered until the next logout.

## Not modelled

* The camera: one thread of one fixed size that is never stopped nor destroyed.
  It is started at the first login, just before its window id is set; frames of
  that moment go nowhere, or to whatever widget has the unset id. From then on
  what `VcmCapture::OnFrame` draws is drawn as `VideoOutput` has it.
* The number in `mVideoRoomID`: one video room is modelled. A feed announced late
  by a room that was left is asked for in the new room, which the server refuses
  and the client ignores.
* `LeaveTextRoom`, which nothing calls; parts under `#if 0`.
* JSON text, shaders, colour conversion, the widgets, `ConnecttionFactory` and the
  unused `mainwindow` stub: pure conversions, one-time set-up or layout.
* The vendored libraries (`src/webrtc`, `src/libyuv`, `src/jsoncpp`), by far the
  most of the lines under `src/`: headers of WebRTC, Abseil and others, and
  binaries. The program's use of them is modelled where it matters (observers,
  proxies, sinks, channels, ownership of descriptions) from their interfaces.

The program's own state changes are all modelled but for these.

## Plan

Done, in this order: the connection and its proofs; the conference manager and
its proofs; the room manager; their composition; room administration; text
rooms; the abstract roster and its refinement; the video output and its proofs.
Then the proofs of the room manager, of its refinement of the roster, of room
administration, of the text rooms, and of the call on top of the two managers.

Then what the liveness of negotiation rests on, as an invariant with its proof
(`NegotiationUnderWay`), and unset window ids and frames of any size.

Left: the same invariant for the text rooms, and the parts listed under "Not
modelled" if the code comes to use them.
