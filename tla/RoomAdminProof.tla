--------------------------- MODULE RoomAdminProof ---------------------------
(***************************************************************************)
(* Proofs about RoomAdmin, for any rooms and any number of operations.     *)
(*                                                                         *)
(* What an operation sends and reports is read from the shared peer, so    *)
(* the invariant says of the peer what each unfinished operation needs of  *)
(* it: it exists, and if no later operation has overtaken this one, it     *)
(* still holds this one's room.                                            *)
(***************************************************************************)
EXTENDS RoomAdmin, SequenceTheorems, TLAPS

\* The parts of the properties that concern one operation.
Asks(op) ==
    op.sent # NoRoom /\ Handlers(op) = op.kind /\ "attaching" \notin op.overtaken
      => op.sent = op.room

Fails(op) ==
    op.report.what \in {"createFailed", "destroyFailed"} /\ op.overtaken = {}
      => op.report.room = op.room

\* The peer holds the room of an unfinished operation until it is overtaken.
PeerHolds(op) ==
    Pending(op) =>
        /\ admin[op.kind] # NoPeer
        /\ op.overtaken = {} /\ Handlers(op) = op.kind => RoomField(op) = op.room

\* Nothing overtakes an operation in a stage it has not reached, and what was asked
\* was asked with some room.
StageOrder(op) ==
    /\ op.stage = "attaching" => "asked" \notin op.overtaken
    /\ op.stage = "asked" => op.sent # NoRoom

OpSound(op) == PeerHolds(op) /\ StageOrder(op) /\ Asks(op) /\ Fails(op)

AdminInv == AdminTypeOK /\ \A i \in DOMAIN ops : OpSound(ops[i])

-----------------------------------------------------------------------------

LEMMA NoPeerIsNone == NoPeer \notin AdminPeer
BY DEF NoPeer, AdminPeer

LEMMA OpsAreOps ==
    ASSUME AdminTypeOK
    PROVE  /\ Len(ops) \in Nat /\ DOMAIN ops = 1..Len(ops)
           /\ \A i \in DOMAIN ops : ops[i] \in Op
BY DEF AdminTypeOK

\* A sequence that has one operation for each of ops.
LEMMA SameLength ==
    ASSUME AdminTypeOK, NEW s, DOMAIN s = DOMAIN ops, \A i \in DOMAIN ops : s[i] \in Op,
           s = [i \in DOMAIN s |-> s[i]]
    PROVE  s \in Seq(Op) /\ Len(s) = Len(ops)
<1>1. s \in [1..Len(ops) -> Op] /\ Len(ops) \in Nat
    BY OpsAreOps
<1>2. QED
    BY <1>1, OpsAreOps

LEMMA InitAdminInv == AdminInit => AdminInv
<1> SUFFICES ASSUME AdminInit PROVE AdminInv
    OBVIOUS
<1>1. AdminTypeOK
    BY AdminAssumption DEF AdminInit, AdminTypeOK, AnyRoom
<1>2. DOMAIN ops = {}
    BY DEF AdminInit
<1>3. QED
    BY <1>1, <1>2 DEF AdminInv

\* One operation goes on, the peers stay as they are.
LEMMA OneGoesOn ==
    ASSUME AdminInv, NEW i \in DOMAIN ops, NEW o \in Op, OpSound(o),
           ops' = [ops EXCEPT ![i] = o], UNCHANGED <<session, admin>>,
           existing' \in [Kinds -> SUBSET AnyRoom]
    PROVE  AdminInv'
<1>1. AdminTypeOK
    BY DEF AdminInv
<1>2. DOMAIN ops' = DOMAIN ops /\ ops'[i] = o /\ \A j \in DOMAIN ops : j # i => ops'[j] = ops[j]
    BY <1>1, OpsAreOps
<1>3. ops' \in Seq(Op) /\ Len(ops') = Len(ops)
    BY <1>1, <1>2, OpsAreOps, SameLength
<1>4. AdminTypeOK'
    BY <1>1, <1>3 DEF AdminTypeOK
<1>5. \A j \in DOMAIN ops : OpSound(ops'[j])
    BY <1>2 DEF AdminInv
<1>6. (\A j \in DOMAIN ops : OpSound(ops[j]))'
    BY <1>2, <1>5 DEF OpSound, PeerHolds, StageOrder, Asks, Fails, RoomField
<1>7. QED
    BY <1>4, <1>6 DEF AdminInv

\* The room an unfinished operation would send or report is some room.
LEMMA RoomFieldIsRoom ==
    ASSUME AdminInv, NEW i \in DOMAIN ops, Pending(ops[i])
    PROVE  RoomField(ops[i]) \in AnyRoom
<1>1. ops[i] \in Op /\ admin[ops[i].kind] # NoPeer
    BY OpsAreOps DEF AdminInv, OpSound, PeerHolds
<1>2. admin[ops[i].kind] \in AdminPeer
    BY <1>1 DEF AdminInv, AdminTypeOK, Op
<1>3. QED
    BY <1>2 DEF RoomField, AdminPeer

LEMMA StepAttach ==
    ASSUME AdminInv, NEW i \in DOMAIN ops, onAttach(i)
    PROVE  AdminInv'
<1> DEFINE op == ops[i]
           o == [op EXCEPT !.stage = "asked", !.sent = RoomField(op)]
<1>1. op \in Op /\ op.stage = "attaching" /\ OpSound(op) /\ Pending(op)
    BY OpsAreOps DEF AdminInv, onAttach, Pending
<1>2. RoomField(op) \in AnyRoom
    BY <1>1, RoomFieldIsRoom
<1>3. ops' = [ops EXCEPT ![i] = o]
    BY OpsAreOps DEF onAttach, AdminInv
<1>4. /\ o \in Op /\ o.stage = "asked" /\ o.sent = RoomField(op) /\ o.verb = op.verb
      /\ o.kind = op.kind /\ o.room = op.room /\ o.overtaken = op.overtaken
      /\ o.report = op.report
    BY <1>1, <1>2 DEF Op
<1>5. OpSound(o)
  <2> HIDE DEF o, op
  <2>1. Handlers(o) = Handlers(op) /\ RoomField(o) = RoomField(op)
      BY <1>4 DEF Handlers, RoomField
  <2>2. PeerHolds(o) /\ StageOrder(o) /\ Fails(o)
      BY <1>1, <1>2, <1>4, <2>1, AdminAssumption
         DEF OpSound, PeerHolds, StageOrder, Fails, Pending, AnyRoom
  <2>3. ASSUME "attaching" \notin op.overtaken PROVE op.overtaken = {}
      BY <1>1, <2>3 DEF OpSound, StageOrder, Op
  <2>4. Asks(o)
      BY <1>1, <1>4, <2>1, <2>3 DEF Asks, OpSound, PeerHolds
  <2>5. QED
      BY <2>2, <2>4 DEF OpSound
<1>6. UNCHANGED <<session, admin, existing>> /\ existing \in [Kinds -> SUBSET AnyRoom]
    BY DEF onAttach, AdminInv, AdminTypeOK
<1> HIDE DEF o
<1>7. QED
    BY <1>3, <1>4, <1>5, <1>6, OneGoesOn

\* An operation ends with a report, which names its room if it is of a failure that
\* nothing has overtaken.
LEMMA Ends ==
    ASSUME AdminInv, NEW i \in DOMAIN ops, ops[i].stage = "asked",
           NEW stage \in {"created", "destroyed", "refused"},
           NEW report \in Report \cup {NoReport},
           ops' = [ops EXCEPT ![i].stage = stage, ![i].report = report],
           \/ report.what \notin {"createFailed", "destroyFailed"}
           \/ Handlers(ops[i]) = ops[i].kind /\ report.room = RoomField(ops[i]),
           UNCHANGED <<session, admin>>, existing' \in [Kinds -> SUBSET AnyRoom]
    PROVE  AdminInv'
<1> DEFINE op == ops[i]
           o == [op EXCEPT !.stage = stage, !.report = report]
<1>1. op \in Op /\ OpSound(op) /\ Pending(op)
    BY OpsAreOps DEF AdminInv, Pending
<1>2. ops' = [ops EXCEPT ![i] = o]
    BY OpsAreOps DEF AdminInv
<1>3. /\ o \in Op /\ o.stage = stage /\ o.sent = op.sent /\ o.verb = op.verb
      /\ o.kind = op.kind /\ o.room = op.room /\ o.overtaken = op.overtaken
      /\ o.report = report
    BY <1>1 DEF Op
<1>4. OpSound(o)
  <2> HIDE DEF o
  <2>1. Handlers(o) = Handlers(op)
      BY <1>3 DEF Handlers
  <2>2. PeerHolds(o) /\ StageOrder(o)
      BY <1>3 DEF PeerHolds, StageOrder, Pending
  <2>3. Asks(o)
      BY <1>1, <1>3, <2>1 DEF Asks, OpSound
  <2>4. Fails(o)
      BY <1>1, <1>3 DEF Fails, OpSound, PeerHolds
  <2>5. QED
      BY <2>2, <2>3, <2>4 DEF OpSound
<1> HIDE DEF o
<1>5. QED
    BY <1>2, <1>3, <1>4, OneGoesOn

LEMMA ReportIsReport ==
    ASSUME NEW op \in Op, NEW what \in {"created", "createFailed", "destroyed", "destroyFailed"},
           NEW room \in AnyRoom
    PROVE  /\ Reported(op, what, room) \in Report \cup {NoReport}
           /\ \/ Reported(op, what, room) = NoReport
              \/ /\ Handlers(op) = op.kind
                 /\ Reported(op, what, room).what = what /\ Reported(op, what, room).room = room
<1>1. op.kind \in Kinds
    BY DEF Op
<1>2. QED
    BY <1>1 DEF Reported, Report, Kinds

LEMMA StepOutcome ==
    ASSUME AdminInv, NEW i \in DOMAIN ops, onCreated(i) \/ onDestroyed(i) \/ onRefused(i)
    PROVE  AdminInv'
<1> DEFINE op == ops[i]
<1>1. op \in Op /\ op.stage = "asked" /\ OpSound(op) /\ Pending(op)
    BY OpsAreOps DEF AdminInv, onCreated, onDestroyed, onRefused, Pending
<1>2. op.sent \in AnyRoom /\ op.kind \in Kinds
    BY <1>1 DEF Op, OpSound, StageOrder
<1>3. existing \in [Kinds -> SUBSET AnyRoom]
    BY DEF AdminInv, AdminTypeOK
<1>4. CASE onCreated(i)
  <2> DEFINE r == Reported(op, "created", op.sent)
  <2>1. r \in Report \cup {NoReport} /\ r.what \notin {"createFailed", "destroyFailed"}
    <3>1. r \in Report \cup {NoReport} /\ (r = NoReport \/ r.what = "created")
        BY <1>1, <1>2, ReportIsReport
    <3>2. QED
        BY <3>1 DEF NoReport
  <2>2. /\ ops' = [ops EXCEPT ![i].stage = "created", ![i].report = r]
        /\ UNCHANGED <<session, admin>> /\ existing' \in [Kinds -> SUBSET AnyRoom]
      BY <1>2, <1>3, <1>4 DEF onCreated
  <2> HIDE DEF r
  <2>3. QED
      BY <1>1, <2>1, <2>2, Ends
<1>5. CASE onDestroyed(i)
  <2> DEFINE w == DestroyedReport(op.kind)
             r == Reported(op, w, op.sent)
  <2>1. w \in {"created", "destroyed"}
      BY DEF DestroyedReport
  <2>2. r \in Report \cup {NoReport} /\ r.what \notin {"createFailed", "destroyFailed"}
    <3>1. r \in Report \cup {NoReport} /\ (r = NoReport \/ r.what = w)
      <4> HIDE DEF w
      <4>1. QED
          BY <1>1, <1>2, <2>1, ReportIsReport
    <3>2. QED
        BY <2>1, <3>1 DEF NoReport
  <2>3. /\ ops' = [ops EXCEPT ![i].stage = "destroyed", ![i].report = r]
        /\ UNCHANGED <<session, admin>> /\ existing' \in [Kinds -> SUBSET AnyRoom]
      BY <1>2, <1>3, <1>5 DEF onDestroyed
  <2> HIDE DEF r
  <2>4. QED
      BY <1>1, <2>2, <2>3, Ends
<1>6. CASE onRefused(i)
  <2> DEFINE w == IF op.verb = "create" THEN "createFailed" ELSE "destroyFailed"
             r == Reported(op, w, FailedRoom(op))
  <2>1. w \in {"createFailed", "destroyFailed"} /\ FailedRoom(op) \in AnyRoom
        /\ FailedRoom(op) = RoomField(op)
      BY <1>1, RoomFieldIsRoom DEF FailedRoom
  <2>2. /\ ops' = [ops EXCEPT ![i].stage = "refused", ![i].report = r]
        /\ UNCHANGED <<session, admin>> /\ existing' \in [Kinds -> SUBSET AnyRoom]
      BY <1>3, <1>6 DEF onRefused
  <2>3. /\ r \in Report \cup {NoReport}
        /\ \/ r = NoReport
           \/ Handlers(op) = op.kind /\ r.room = RoomField(op)
    <3> HIDE DEF w
    <3>1. QED
        BY <1>1, <2>1, ReportIsReport
  <2> HIDE DEF r
  <2>4. \/ r.what \notin {"createFailed", "destroyFailed"}
        \/ Handlers(op) = op.kind /\ r.room = RoomField(op)
      BY <2>3 DEF NoReport
  <2>5. QED
      BY <1>1, <2>2, <2>3, <2>4, Ends
<1>7. QED
    BY <1>4, <1>5, <1>6

\* The session goes: no operation is waiting any more, so nothing is asked of the
\* peers, whatever becomes of them.
LEMMA StepLose ==
    ASSUME AdminInv, Lose, session' \in {"none", "live"},
           admin' \in [Kinds -> AdminPeer \cup {NoPeer}], UNCHANGED existing
    PROVE  AdminInv'
<1>1. AdminTypeOK
    BY DEF AdminInv
<1>2. DOMAIN ops' = DOMAIN ops /\ ops' = [i \in DOMAIN ops' |-> ops'[i]]
    BY DEF Lose
<1>3. ASSUME NEW i \in DOMAIN ops
      PROVE  ops'[i] \in Op /\ ~Pending(ops'[i]) /\ Asks(ops'[i]) /\ Fails(ops'[i])
  <2> DEFINE op == ops[i]
             o == ops'[i]
  <2>1. op \in Op /\ Asks(op) /\ Fails(op)
      BY <1>1, OpsAreOps DEF AdminInv, OpSound
  <2>2. CASE Pending(op)
    <3>1. o = [op EXCEPT !.stage = "lost"]
        BY <2>2 DEF Lose
    <3>2. /\ o \in Op /\ o.stage = "lost" /\ o.sent = op.sent /\ o.verb = op.verb
          /\ o.kind = op.kind /\ o.room = op.room /\ o.overtaken = op.overtaken
          /\ o.report = op.report
        BY <2>1, <3>1 DEF Op
    <3> HIDE DEF o, op
    <3>3. QED
        BY <2>1, <3>2 DEF Asks, Fails, Pending, Handlers, o
  <2>3. CASE ~Pending(op)
    <3>1. o = op
        BY <2>3 DEF Lose
    <3>2. QED
        BY <2>1, <2>3, <3>1
  <2>4. QED
      BY <2>2, <2>3
<1>4. ops' \in Seq(Op) /\ Len(ops') = Len(ops)
    BY <1>1, <1>2, <1>3, SameLength
<1>5. AdminTypeOK'
    BY <1>1, <1>4 DEF AdminTypeOK
<1>6. (\A i \in DOMAIN ops : OpSound(ops[i]))'
    BY <1>2, <1>3 DEF OpSound, PeerHolds, StageOrder, Asks, Fails, Pending
<1>7. QED
    BY <1>5, <1>6 DEF AdminInv

LEMMA OutdatedIsPeer ==
    ASSUME AdminTypeOK, NEW k \in Kinds
    PROVE  Outdate(admin[k]) \in AdminPeer \cup {NoPeer}
<1>1. admin[k] \in AdminPeer \cup {NoPeer}
    BY DEF AdminTypeOK
<1>2. QED
    BY <1>1 DEF Outdate, AdminPeer

\* The peer an operation is asked of holds its room in the field its kind reads.
LEMMA RoomIsSet ==
    ASSUME AdminTypeOK, NEW kind \in Kinds, NEW room \in Rooms, NEW junk \in AnyRoom,
           NEW p, p = SetRoom(PeerFor(kind, junk), kind, room)
    PROVE  /\ p \in AdminPeer
           /\ kind = "video" => p.mVideoRoomId = room
           /\ kind = "text" => p.mTextRoomId = room
<1>1. admin[kind] \in AdminPeer \cup {NoPeer} /\ room \in AnyRoom
    BY DEF AdminTypeOK, AnyRoom
<1>2. PeerFor(kind, junk) \in AdminPeer
    BY <1>1 DEF PeerFor, AdminPeer
<1>3. QED
    BY <1>1, <1>2 DEF SetRoom, AdminPeer, Kinds

\* Operations that were waiting for the same kind of answer are overtaken.
LEMMA OvertakenStaysSound ==
    ASSUME AdminInv, NEW i \in DOMAIN ops, NEW kind \in Kinds, NEW p \in AdminPeer,
           admin' = [admin EXCEPT ![kind] = p],
           NEW o, o = Overtake(ops[i], kind)
    PROVE  /\ o \in Op /\ StageOrder(o) /\ Asks(o) /\ Fails(o)
           /\ Pending(o) => /\ admin'[o.kind] # NoPeer
                            /\ o.overtaken = {} => /\ admin'[o.kind] = admin[o.kind]
                                                   /\ PeerHolds(o)
<1> DEFINE op == ops[i]
<1>1. op \in Op /\ OpSound(op)
    BY OpsAreOps DEF AdminInv
<1>2. admin \in [Kinds -> AdminPeer \cup {NoPeer}] /\ op.kind \in Kinds
    BY <1>1 DEF AdminInv, AdminTypeOK, Op
<1>3. CASE op.kind = kind /\ Pending(op)
  <2>1. op.stage \in {"attaching", "asked"} /\ op.overtaken \in SUBSET {"attaching", "asked"}
      BY <1>1, <1>3 DEF Op, Pending
  <2>2. o = [op EXCEPT !.overtaken = op.overtaken \cup {op.stage}]
      BY <1>3 DEF Overtake
  <2>3. /\ o \in Op /\ o.stage = op.stage /\ o.sent = op.sent /\ o.verb = op.verb
        /\ o.kind = op.kind /\ o.room = op.room /\ o.report = op.report
        /\ o.overtaken = op.overtaken \cup {op.stage}
      BY <1>1, <2>1, <2>2 DEF Op
  <2> HIDE DEF op
  <2>4. o.overtaken # {} /\ admin'[o.kind] # NoPeer
      BY <1>2, <1>3, <2>3, NoPeerIsNone
  <2>5. StageOrder(o) /\ Asks(o) /\ Fails(o)
      BY <1>1, <2>1, <2>3, <2>4 DEF OpSound, StageOrder, Asks, Fails, Handlers
  <2>6. QED
      BY <2>3, <2>4, <2>5
<1>4. CASE ~(op.kind = kind /\ Pending(op))
  <2>1. o = op
      BY <1>4 DEF Overtake
  <2>2. Pending(op) => admin'[op.kind] = admin[op.kind] /\ admin[op.kind] # NoPeer
      BY <1>1, <1>2, <1>4 DEF OpSound, PeerHolds
  <2>3. QED
      BY <1>1, <2>1, <2>2 DEF OpSound
<1>5. QED
    BY <1>3, <1>4

LEMMA StepRequest ==
    ASSUME AdminInv, NEW verb \in Verbs, NEW kind \in Kinds, NEW room \in Rooms,
           Request(verb, kind, room)
    PROVE  AdminInv'
<1>1. AdminTypeOK /\ room \in AnyRoom
    BY DEF AdminInv, AnyRoom
<1>2. PICK junk \in AnyRoom :
        LET p == SetRoom(PeerFor(kind, junk), kind, room)
        IN  /\ admin' = [admin EXCEPT ![kind] = p]
            /\ ops' = Append([i \in DOMAIN ops |-> Overtake(ops[i], kind)],
                             [verb |-> verb, kind |-> kind, room |-> room,
                              stage |-> IF p.live THEN "attaching" ELSE "lost",
                              sent |-> NoRoom, overtaken |-> {}, report |-> NoReport])
    BY DEF Request
<1> DEFINE p == SetRoom(PeerFor(kind, junk), kind, room)
           t == [i \in DOMAIN ops |-> Overtake(ops[i], kind)]
           o == [verb |-> verb, kind |-> kind, room |-> room,
                 stage |-> IF p.live THEN "attaching" ELSE "lost",
                 sent |-> NoRoom, overtaken |-> {}, report |-> NoReport]
           n == Len(ops)
<1>3. admin' = [admin EXCEPT ![kind] = p] /\ ops' = Append(t, o)
    BY <1>2
<1>4. /\ p \in AdminPeer
      /\ kind = "video" => p.mVideoRoomId = room
      /\ kind = "text" => p.mTextRoomId = room
    BY <1>1, RoomIsSet
<1> HIDE DEF p
<1>5. /\ o \in Op /\ o.verb = verb /\ o.kind = kind /\ o.room = room
      /\ o.stage \in {"attaching", "lost"} /\ o.sent = NoRoom /\ o.overtaken = {}
      /\ o.report = NoReport
    BY DEF Op
<1> HIDE DEF o
<1>6. \A i \in DOMAIN ops : t[i] = Overtake(ops[i], kind) /\ t[i] \in Op
    BY <1>3, <1>4, OvertakenStaysSound
<1>7. DOMAIN t = DOMAIN ops /\ t = [i \in DOMAIN t |-> t[i]]
    OBVIOUS
<1>8. t \in Seq(Op) /\ Len(t) = n /\ n \in Nat /\ DOMAIN t = 1..n
  <2> HIDE DEF t
  <2>1. QED
      BY <1>1, <1>6, <1>7, SameLength, OpsAreOps
<1> HIDE DEF t
<1>9. /\ ops' \in Seq(Op) /\ Len(ops') = n + 1 /\ DOMAIN ops' = 1..(n + 1)
      /\ ops'[n + 1] = o /\ \A i \in 1..n : ops'[i] = t[i]
    BY <1>3, <1>5, <1>8
<1>10. AdminTypeOK'
  <2>1. n < MaxOps /\ UNCHANGED <<session, existing>>
      BY DEF Request
  <2>2. admin' \in [Kinds -> AdminPeer \cup {NoPeer}]
      BY <1>1, <1>3, <1>4 DEF AdminTypeOK
  <2>3. n + 1 <= MaxOps
      BY <1>8, <2>1, AdminAssumption
  <2>4. QED
      BY <1>1, <1>9, <2>1, <2>2, <2>3 DEF AdminTypeOK
<1>11. admin'[kind] = p /\ admin'[kind] # NoPeer
    BY <1>1, <1>3, <1>4, NoPeerIsNone DEF AdminTypeOK
<1>12. ASSUME NEW i \in 1..n PROVE OpSound(ops[i])'
  <2> DEFINE u == ops'[i]
  <2>1. u = Overtake(ops[i], kind) /\ i \in DOMAIN ops
      BY <1>6, <1>7, <1>8, <1>9
  <2>2. /\ StageOrder(u) /\ Asks(u) /\ Fails(u)
        /\ Pending(u) => /\ admin'[u.kind] # NoPeer
                         /\ u.overtaken = {} => /\ admin'[u.kind] = admin[u.kind]
                                                /\ PeerHolds(u)
      BY <1>3, <1>4, <2>1, OvertakenStaysSound
  <2>3. QED
      BY <2>2 DEF OpSound, PeerHolds, StageOrder, Asks, Fails, RoomField
<1>13. ASSUME NEW i, i = n + 1 PROVE OpSound(ops[i])'
  <2>1. o.report.what = "nothing"
      BY <1>5 DEF NoReport
  <2>2. ops'[i] = o
      BY <1>9, <1>13
  <2>3. Handlers(o) = o.kind =>
          (IF Handlers(o) = "video" THEN admin'[o.kind].mVideoRoomId
           ELSE admin'[o.kind].mTextRoomId) = room
      BY <1>4, <1>5, <1>11 DEF Handlers, Kinds
  <2>4. QED
      BY <1>5, <1>11, <2>1, <2>2, <2>3
         DEF OpSound, PeerHolds, StageOrder, Asks, Fails, RoomField
<1>14. (\A i \in DOMAIN ops : OpSound(ops[i]))'
  <2> SUFFICES ASSUME NEW i \in DOMAIN ops' PROVE OpSound(ops[i])'
      OBVIOUS
  <2>1. i \in 1..n \/ i = n + 1
      BY <1>8, <1>9
  <2>2. QED
      BY <1>12, <1>13, <2>1
<1>15. QED
    BY <1>10, <1>14 DEF AdminInv

LEMMA StepAdminInv == AdminInv /\ [AdminNext]_adminVars => AdminInv'
<1> SUFFICES ASSUME AdminInv, [AdminNext]_adminVars PROVE AdminInv'
    OBVIOUS
<1>1. AdminTypeOK
    BY DEF AdminInv
<1>2. CASE Login \/ Disconnected
  <2>1. admin' \in [Kinds -> AdminPeer \cup {NoPeer}]
      BY <1>1, <1>2, OutdatedIsPeer DEF Login, Disconnected
  <2>2. QED
      BY <1>2, <2>1, StepLose DEF Login, Disconnected
<1>3. CASE Logout
    BY <1>3, StepLose DEF Logout
<1>4. CASE \E room \in Rooms : \/ CreateVideoRoom(room) \/ CreateTextRoom(room)
                               \/ DestoryVideoRoom(room) \/ DestoryTextRoom(room)
    BY <1>4, StepRequest DEF CreateVideoRoom, CreateTextRoom, DestoryVideoRoom,
                             DestoryTextRoom, Verbs, Kinds
<1>5. CASE \E i \in DOMAIN ops : \/ onAttach(i)
                                 \/ onCreated(i) \/ onDestroyed(i) \/ onRefused(i)
    BY <1>5, StepAttach, StepOutcome
<1>6. CASE UNCHANGED adminVars
    BY <1>6 DEF adminVars, AdminInv, AdminTypeOK, OpSound, PeerHolds, StageOrder, Asks,
                Fails, RoomField
<1>7. QED
    BY <1>2, <1>3, <1>4, <1>5, <1>6 DEF AdminNext

LEMMA AlwaysAdminInv == AdminSpec => []AdminInv
BY InitAdminInv, StepAdminInv, PTL DEF AdminSpec

\* Every state has the types of AdminTypeOK: no request leaves without a room, no
\* answer is handled by an admin peer that is gone.
THEOREM AdminTypeCorrect == AdminSpec => []AdminTypeOK
<1>1. AdminInv => AdminTypeOK
    BY DEF AdminInv
<1>2. QED
    BY <1>1, AlwaysAdminInv, PTL

\* The server is asked about the room the user typed, unless another operation of
\* the same kind was asked for before the attach was answered.
THEOREM RequestsKeepTheirRoom == AdminSpec => []AsksForItsRoom
<1>1. AdminInv => AsksForItsRoom
    BY DEF AdminInv, OpSound, Asks, AsksForItsRoom
<1>2. QED
    BY <1>1, AlwaysAdminInv, PTL

\* A failure is reported for the room it is about, unless overtaken before.
THEOREM FailuresKeepTheirRoom == AdminSpec => []FailureNamesItsRoom
<1>1. AdminInv => FailureNamesItsRoom
    BY DEF AdminInv, OpSound, Fails, FailureNamesItsRoom
<1>2. QED
    BY <1>1, AlwaysAdminInv, PTL
=============================================================================
