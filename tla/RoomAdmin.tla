----------------------------- MODULE RoomAdmin -----------------------------
(***************************************************************************)
(* Creating and destroying rooms: JanusVideoRoomManager's two admin peers  *)
(* (pCreateVideoRoomPeer, pCreateTextRoomPeer), each made once and used    *)
(* for every operation of its kind, and the JanusPeerConnection code that  *)
(* attaches a handle, sends the request and reports the outcome.           *)
(*                                                                         *)
(* An operation takes two round trips.  The room it is about is kept in    *)
(* one field of the shared peer, set when the user asks and read when the  *)
(* attach is answered and again when a failure is reported.                *)
(*                                                                         *)
(* The server is external: it keeps the rooms of its two plugins and may   *)
(* refuse anything.                                                        *)
(***************************************************************************)
EXTENDS Integers, Sequences

CONSTANTS
    Rooms,      \* room numbers
    JunkRoom,   \* a room number nobody typed, read from an unset field
    NoRoom,     \* no number
    MaxOps      \* bound: operations of one run

ASSUME AdminAssumption ==
    JunkRoom \notin Rooms /\ NoRoom \notin Rooms \cup {JunkRoom} /\ MaxOps \in Nat

Kinds == {"video", "text"}
Verbs == {"create", "destroy"}
AnyRoom == Rooms \cup {JunkRoom}

VARIABLES
    session,    \* "none" or "live"
    admin,      \* the admin peer of each kind, NoPeer until first used
    ops,        \* the operations, in the order the user asked for them
    existing    \* the server's rooms, per plugin

adminVars == <<session, admin, ops, existing>>

\* live: the session the peer was made with is the current one.
AdminPeer == [mVideoRoomId : AnyRoom, mTextRoomId : AnyRoom, live : BOOLEAN]
NoPeer == [live |-> FALSE]

\* stage: waiting for the attach, for the outcome, finished, or never to be
\* answered.  sent: the room in the request.  overtaken: the stages in which a
\* later operation was asked of the same peer.
Report == [what : {"created", "createFailed", "destroyed", "destroyFailed"},
           kind : Kinds, room : AnyRoom]
NoReport == [what |-> "nothing"]
Op == [verb : Verbs, kind : Kinds, room : Rooms,
       stage : {"attaching", "asked", "created", "destroyed", "refused", "lost"},
       sent : AnyRoom \cup {NoRoom}, overtaken : SUBSET {"attaching", "asked"},
       report : Report \cup {NoReport}]

AdminTypeOK ==
    /\ session \in {"none", "live"}
    /\ admin \in [Kinds -> AdminPeer \cup {NoPeer}]
    /\ ops \in Seq(Op) /\ Len(ops) <= MaxOps
    /\ existing \in [Kinds -> SUBSET AnyRoom]

AdminInit ==
    /\ session = "none"
    /\ admin = [k \in Kinds |-> NoPeer]
    /\ ops = <<>>
    /\ existing \in [Kinds -> SUBSET Rooms]

-----------------------------------------------------------------------------

Pending(op) == op.stage \in {"attaching", "asked"}

\* Answers that belong to a lost session do not come.
Lose == ops' = [i \in DOMAIN ops |->
                  IF Pending(ops[i]) THEN [ops[i] EXCEPT !.stage = "lost"] ELSE ops[i]]

Outdate(p) == IF p = NoPeer THEN p ELSE [p EXCEPT !.live = FALSE]

Login ==
    /\ session' = "live"
    /\ admin' = [k \in Kinds |-> Outdate(admin[k])]
    /\ Lose
    /\ UNCHANGED existing

Disconnected ==
    /\ session' = "none"
    /\ admin' = [k \in Kinds |-> Outdate(admin[k])]
    /\ Lose
    /\ UNCHANGED existing

\* ~JanusVideoRoomManager deletes the admin peers.
Logout ==
    /\ session' = "none"
    /\ admin' = [k \in Kinds |-> NoPeer]
    /\ Lose
    /\ UNCHANGED existing

\* Plausible error: a new peer is given no room at all.
PeerFor_noRoom(kind, junk) ==
    IF admin[kind] # NoPeer THEN admin[kind]
    ELSE [mVideoRoomId |-> NoRoom, mTextRoomId |-> NoRoom, live |-> session = "live"]

\* The peer of this kind, made now if there is none.  A field no operation has set
\* holds whatever was in that memory.
PeerFor(kind, junk) ==
    IF admin[kind] # NoPeer THEN admin[kind]
    ELSE [mVideoRoomId |-> junk, mTextRoomId |-> junk, live |-> session = "live"]

\* Plausible error: the room is remembered only when the peer is made.
SetRoom_once(p, kind, room) ==
    IF admin[kind] # NoPeer THEN p
    ELSE IF kind = "video" THEN [p EXCEPT !.mVideoRoomId = room]
    ELSE [p EXCEPT !.mTextRoomId = room]

SetRoom(p, kind, room) ==
    IF kind = "video" THEN [p EXCEPT !.mVideoRoomId = room]
    ELSE [p EXCEPT !.mTextRoomId = room]

Overtake(op, kind) ==
    IF op.kind = kind /\ Pending(op)
    THEN [op EXCEPT !.overtaken = @ \cup {op.stage}] ELSE op

\* Attach a handle of the plugin and remember the room.
Request(verb, kind, room) ==
    /\ Len(ops) < MaxOps
    /\ \E junk \in AnyRoom :
         LET p == SetRoom(PeerFor(kind, junk), kind, room)
         IN  /\ admin' = [admin EXCEPT ![kind] = p]
             /\ ops' = Append([i \in DOMAIN ops |-> Overtake(ops[i], kind)],
                              [verb |-> verb, kind |-> kind, room |-> room,
                               stage |-> IF p.live THEN "attaching" ELSE "lost",
                               sent |-> NoRoom, overtaken |-> {}, report |-> NoReport])
    /\ UNCHANGED <<session, existing>>

CreateVideoRoom(room) == Request("create", "video", room)
CreateTextRoom(room) == Request("create", "text", room)
DestoryVideoRoom(room) == Request("destroy", "video", room)
DestoryTextRoom(room) == Request("destroy", "text", room)

-----------------------------------------------------------------------------

\* The handlers an operation goes through: JanusPeerConnection::CreateTextRoom
\* registers onAttachVideoRoomCreate, so a text room is created by the code for
\* video rooms.
Handlers(op) == IF op.verb = "create" THEN "video" ELSE op.kind

RoomField(op) ==
    IF Handlers(op) = "video" THEN admin[op.kind].mVideoRoomId
    ELSE admin[op.kind].mTextRoomId

\* onAttachVideoRoomCreate, onAttachVideoRoomDestory, onAttachTextRoomDestory: the
\* request goes out with the room the peer holds now.
onAttach(i) ==
    /\ ops[i].stage = "attaching"
    /\ ops' = [ops EXCEPT ![i].stage = "asked", ![i].sent = RoomField(ops[i])]
    /\ UNCHANGED <<session, admin, existing>>

\* The handlers of one plugin look for its key in the answer ("videoroom" or
\* "textroom"); an answer of the other plugin has neither outcome for them.
Reported(op, what, room) ==
    IF Handlers(op) = op.kind THEN [what |-> what, kind |-> op.kind, room |-> room]
    ELSE NoReport

\* What is reported when a room was destroyed: onDestoryVideoRoom calls
\* onCreateVideoRoomSuccessedCallback.
DestroyedReport(kind) == IF kind = "video" THEN "created" ELSE "destroyed"

onCreated(i) ==
    /\ ops[i].stage = "asked" /\ ops[i].verb = "create"
    /\ ops[i].sent \notin existing[ops[i].kind]
    /\ existing' = [existing EXCEPT ![ops[i].kind] = @ \cup {ops[i].sent}]
    /\ ops' = [ops EXCEPT ![i].stage = "created",
                          ![i].report = Reported(ops[i], "created", ops[i].sent)]
    /\ UNCHANGED <<session, admin>>

onDestroyed(i) ==
    /\ ops[i].stage = "asked" /\ ops[i].verb = "destroy"
    /\ ops[i].sent \in existing[ops[i].kind]
    /\ existing' = [existing EXCEPT ![ops[i].kind] = @ \ {ops[i].sent}]
    /\ ops' = [ops EXCEPT ![i].stage = "destroyed",
                          ![i].report = Reported(ops[i], DestroyedReport(ops[i].kind), ops[i].sent)]
    /\ UNCHANGED <<session, admin>>

\* Plausible error: a failure is reported for the text room the peer holds.
FailedRoom_text(op) == admin[op.kind].mTextRoomId

\* A failure is reported for the room the peer holds now.
FailedRoom(op) == RoomField(op)

onRefused(i) ==
    /\ ops[i].stage = "asked"
    /\ ops' = [ops EXCEPT ![i].stage = "refused",
                          ![i].report = Reported(ops[i],
                              IF ops[i].verb = "create" THEN "createFailed" ELSE "destroyFailed",
                              FailedRoom(ops[i]))]
    /\ UNCHANGED <<session, admin, existing>>

AdminNext ==
    \/ Login
    \/ Disconnected
    \/ Logout
    \/ \E room \in Rooms : \/ CreateVideoRoom(room) \/ CreateTextRoom(room)
                           \/ DestoryVideoRoom(room) \/ DestoryTextRoom(room)
    \/ \E i \in DOMAIN ops : \/ onAttach(i)
                             \/ onCreated(i) \/ onDestroyed(i) \/ onRefused(i)

AdminSpec == AdminInit /\ [][AdminNext]_adminVars

-----------------------------------------------------------------------------

\* The server is asked about the room the user typed, unless another operation of
\* the same kind was asked for before the attach was answered.  (Then both go out
\* with the later room: the README tells what that does.)  Text room creation
\* is left out: it never looks at the room typed.
AsksForItsRoom ==
    \A i \in DOMAIN ops :
        LET op == ops[i]
        IN  op.sent # NoRoom /\ Handlers(op) = op.kind /\ "attaching" \notin op.overtaken
              => op.sent = op.room

\* A failure is reported for the room it is about, unless overtaken before.
FailureNamesItsRoom ==
    \A i \in DOMAIN ops :
        LET op == ops[i]
        IN  op.report.what \in {"createFailed", "destroyFailed"} /\ op.overtaken = {}
              => op.report.room = op.room

\* What the server answered to an operation is what the user is told of it: a room
\* that vanished is reported as destroyed (JanusPeerConnection.cpp:490), a creation
\* as a success or a failure (JanusPeerConnection.cpp:373).  Refuted.
OutcomeReported ==
    \A i \in DOMAIN ops :
        /\ ops[i].stage = "destroyed" => ops[i].report.what = "destroyed"
        /\ ops[i].verb = "create" /\ ops[i].stage \in {"created", "refused"}
             => ops[i].report # NoReport
=============================================================================
