-------------------------- MODULE DataChannelProof --------------------------
(***************************************************************************)
(* Proofs about DataChannel, for any rooms and names, any number of        *)
(* requests and messages, and any interleaving of the two threads.         *)
(*                                                                         *)
(* The argument: a stream's callback is set exactly as long as nothing has *)
(* arrived over its channel, and while the channel is open with the        *)
(* callback set the signaling thread is amid sending the join, which keeps *)
(* the main thread's calls into WebRTC waiting.                            *)
(***************************************************************************)
EXTENDS DataChannel, SequenceTheorems, TLAPS

\* What the manager holds is what was typed last.
LastAsked ==
    /\ main # Idle => requests # <<>> /\ main.name = requests[Len(requests)].name
    /\ requests # <<>> =>
         /\ mTextRoomID = requests[Len(requests)].room
         /\ main = Idle => mTextRoomDisplayName = requests[Len(requests)].name

\* The n-th peer, handle and stream come after the n-th request, and after the main
\* thread is through with it.
Numbered ==
    \A n \in Ids :
        /\ srv[n] # "none" \/ InMap(n) => peers[n] # "none"
        /\ peers[n] # "none" => n <= Len(requests) /\ (n = Len(requests) => main = Idle)

\* The signaling thread is amid OnStateChange of an open channel, with a room that
\* was asked for.
Joining ==
    signaling # Idle =>
        LET n == signaling.id
        IN  /\ InMap(n) /\ streams[n].channel = "open" /\ streams[n].join
            /\ n <= signaling.at /\ signaling.at <= Len(requests)
            /\ signaling.room = requests[signaling.at].room

\* The callback of stream n is set as long as nothing arrived, and a channel that is
\* open with the callback set is being joined.
Callback(n) ==
    /\ ~InMap(n) => got[n] = <<>>
    /\ InMap(n) =>
         /\ streams[n].join <=> got[n] = <<>>
         /\ streams[n].channel = "open" /\ streams[n].join
              => signaling # Idle /\ signaling.id = n

\* What the k-th message m over channel n may be, when the first was j.
Sound(m, n, k, j) ==
    /\ m.what = "join" <=> k = 1
    /\ m.what = "join" =>
         /\ n <= m.at /\ m.at <= Len(requests) /\ m.room = requests[m.at].room
         /\ m.upto = n => m.name = requests[n].name
    /\ m.room = j.room \/ m.at > j.at

Heard(n) == \A k \in DOMAIN got[n] : Sound(got[n][k], n, k, got[n][1])

DCInv ==
    /\ DCTypeOK /\ LastAsked /\ Numbered /\ Joining
    /\ \A n \in Ids : Callback(n) /\ Heard(n)

-----------------------------------------------------------------------------

LEMMA NoStreamIsNone == NoStream \notin Stream
BY DEF NoStream, Stream

LEMMA StreamTypes ==
    ASSUME DCTypeOK, NEW n \in Ids, InMap(n)
    PROVE  streams[n] \in Stream
BY DEF DCTypeOK, InMap

LEMMA SignalingTypes ==
    ASSUME DCTypeOK, signaling # Idle
    PROVE  signaling.id \in Ids /\ signaling.room \in Rooms /\ signaling.at \in Ids
BY DEF DCTypeOK

LEMMA RequestTypes ==
    ASSUME DCTypeOK
    PROVE  /\ Len(requests) \in Nat /\ Len(requests) <= MaxJoins
           /\ DOMAIN requests = 1..Len(requests)
           /\ \A i \in 1..Len(requests) : requests[i] \in Request
           /\ requests # <<>> <=> Len(requests) > 0
<1>1. requests \in Seq(Request) /\ Len(requests) <= MaxJoins
    BY DEF DCTypeOK
<1>2. QED
    BY <1>1

\* The beginning, and the state after the manager is gone.
Blank ==
    /\ session = "none"
    /\ mTextRoomID = NoRoom /\ mTextRoomDisplayName = TornName
    /\ main = Idle /\ signaling = Idle
    /\ peers = [n \in Ids |-> "none"]
    /\ streams = [n \in Ids |-> NoStream]
    /\ local = 0
    /\ posted = <<>>
    /\ srv = [n \in Ids |-> "none"]
    /\ requests = <<>>
    /\ got = [n \in Ids |-> <<>>]

LEMMA BlankIsSound == Blank => DCInv
<1> SUFFICES ASSUME Blank PROVE DCInv
    OBVIOUS
<1>1. DCTypeOK
  <2>1. <<>> \in Seq(Message) /\ <<>> \in Seq(Request)
        /\ <<>> \in Seq([kind : {"answer", "candidate"}, id : Ids])
      OBVIOUS
  <2>2. Len(<<>>) = 0 /\ 0 <= MaxPosted /\ 0 <= MaxJoins
      BY TextAssumption
  <2>3. got \in [Ids -> Seq(Message)]
      BY <2>1 DEF Blank
  <2>4. QED
      BY <2>1, <2>2, <2>3 DEF Blank, DCTypeOK
<1>2. LastAsked /\ Numbered /\ Joining
    BY DEF Blank, LastAsked, Numbered, Joining, InMap
<1>3. \A n \in Ids : Callback(n)
    BY DEF Blank, Callback, InMap
<1>4. \A n \in Ids : DOMAIN got[n] = {}
    BY DEF Blank
<1>5. QED
    BY <1>1, <1>2, <1>3, <1>4 DEF DCInv, Heard

LEMMA InitDCInv == DCInit => DCInv
BY BlankIsSound DEF DCInit, Blank

LEMMA StepGone ==
    ASSUME Gone
    PROVE  DCInv'
<1>1. Blank'
    BY DEF Gone, Blank
<1>2. QED
    BY <1>1, BlankIsSound, PTL

\* The messages of the server and the queued signals leave streams and channels alone.
LEMMA OutsideStreams ==
    ASSUME DCInv,
           UNCHANGED <<mTextRoomID, mTextRoomDisplayName, main, signaling, streams, local, history>>,
           session' \in {"none", "live"},
           peers' \in [Ids -> {"none", "attaching", "answered", "dead"}],
           srv' \in [Ids -> {"none", "setup", "offered", "acked"}],
           posted' \in Seq([kind : {"answer", "candidate"}, id : Ids]),
           Len(posted') <= MaxPosted,
           \A n \in Ids : /\ peers'[n] # "none" <=> peers[n] # "none"
                          /\ srv'[n] # "none" => peers[n] # "none"
    PROVE  DCInv'
<1>1. DCTypeOK'
    BY DEF DCInv, DCTypeOK, history
<1>2. LastAsked' /\ Joining'
    BY DEF DCInv, LastAsked, Joining, InMap, history
<1>3. Numbered'
    BY DEF DCInv, Numbered, InMap, history
<1>4. (\A n \in Ids : Callback(n) /\ Heard(n))'
    BY DEF DCInv, Callback, Heard, Sound, InMap, history
<1>5. QED
    BY <1>1, <1>2, <1>3, <1>4 DEF DCInv

LEMMA StepSession ==
    ASSUME DCInv, Login \/ Dropped
    PROVE  DCInv'
<1>1. /\ peers' = [n \in Ids |-> IF peers[n] = "none" THEN "none" ELSE "dead"]
      /\ srv' = [n \in Ids |-> "none"]
      /\ UNCHANGED <<cmVars, signaling, history>>
      /\ session' \in {"none", "live"}
    BY DEF Login, Dropped, SessionGone
<1>2. posted \in Seq([kind : {"answer", "candidate"}, id : Ids]) /\ Len(posted) <= MaxPosted
    BY DEF DCInv, DCTypeOK
<1>3. QED
    BY <1>1, <1>2, OutsideStreams DEF cmVars

LEMMA StepAttached ==
    ASSUME DCInv, NEW n \in Ids, onAttachTextRoomJoin(n)
    PROVE  DCInv'
<1>1. /\ peers[n] = "attaching" /\ peers' = [peers EXCEPT ![n] = "answered"]
      /\ srv' = [srv EXCEPT ![n] = "setup"]
      /\ UNCHANGED <<session, cmVars, signaling, history>>
    BY DEF onAttachTextRoomJoin
<1>2. DCTypeOK /\ Numbered
    BY DEF DCInv
<1>3. /\ peers' \in [Ids -> {"none", "attaching", "answered", "dead"}]
      /\ srv' \in [Ids -> {"none", "setup", "offered", "acked"}]
      /\ \A m \in Ids : /\ peers'[m] # "none" <=> peers[m] # "none"
                        /\ srv'[m] # "none" => peers[m] # "none"
    BY <1>1, <1>2 DEF DCTypeOK, Numbered
<1>4. QED
    BY <1>1, <1>2, <1>3, OutsideStreams DEF cmVars, DCTypeOK

LEMMA StepTakeSignal ==
    ASSUME DCInv, TakeSignal
    PROVE  DCInv'
<1> DEFINE Posted == [kind : {"answer", "candidate"}, id : Ids]
<1>1. DCTypeOK /\ Numbered
    BY DEF DCInv
<1>2. posted \in Seq(Posted) /\ posted # <<>> /\ posted' = Tail(posted) /\ Len(posted) <= MaxPosted
    BY <1>1 DEF TakeSignal, DCTypeOK
<1>3. posted' \in Seq(Posted) /\ Len(posted') <= MaxPosted /\ Head(posted) \in Posted
  <2> HIDE DEF Posted
  <2>1. QED
      BY <1>2, TextAssumption
<1>4. srv' = srv \/ \E n \in Ids : srv[n] = "offered" /\ srv' = [srv EXCEPT ![n] = "acked"]
  <2>1. Head(posted).id \in Ids
      BY <1>3
  <2>2. QED
      BY <2>1 DEF TakeSignal, SendSDPText
<1>5. /\ srv' \in [Ids -> {"none", "setup", "offered", "acked"}]
      /\ \A m \in Ids : srv'[m] # "none" => peers[m] # "none"
    BY <1>1, <1>4 DEF DCTypeOK, Numbered
<1>6. UNCHANGED <<session, peers, mTextRoomID, mTextRoomDisplayName, main, streams, local,
                  signaling, history>>
    BY DEF TakeSignal
<1>7. QED
    BY <1>1, <1>3, <1>5, <1>6, OutsideStreams DEF DCTypeOK

-----------------------------------------------------------------------------
(* The signaling thread.                                                   *)

\* A stream that exists was asked for, and the manager holds what was asked last.
LEMMA StreamWasAsked ==
    ASSUME DCInv, NEW n \in Ids, InMap(n)
    PROVE  /\ n <= Len(requests) /\ Len(requests) \in Ids
           /\ mTextRoomID = requests[Len(requests)].room /\ mTextRoomID \in Rooms
           /\ n = Len(requests) => main = Idle
           /\ main = Idle => mTextRoomDisplayName = requests[Len(requests)].name
           /\ main # Idle => main.name = requests[Len(requests)].name
<1>1. n <= Len(requests) /\ (n = Len(requests) => main = Idle)
    BY DEF DCInv, Numbered
<1>2. Len(requests) \in Ids /\ requests # <<>> /\ requests[Len(requests)] \in Request
  <2> DEFINE r == Len(requests)
  <2>1. /\ r \in Nat /\ r <= MaxJoins /\ \A i \in 1..r : requests[i] \in Request
        /\ requests # <<>> <=> r > 0
      BY RequestTypes DEF DCInv
  <2> HIDE DEF r
  <2>2. r \in 1..r /\ r > 0 /\ r \in Ids
      BY <1>1, <2>1, TextAssumption DEF Ids, r
  <2>3. QED
      BY <2>1, <2>2 DEF r
<1>3. requests[Len(requests)].room \in Rooms
    BY <1>2 DEF Request
<1>4. /\ mTextRoomID = requests[Len(requests)].room
      /\ main = Idle => mTextRoomDisplayName = requests[Len(requests)].name
      /\ main # Idle => main.name = requests[Len(requests)].name
    BY <1>2, Zenon DEF DCInv, LastAsked
<1>5. mTextRoomID \in Rooms
    BY <1>3, <1>4
<1>6. QED
    BY <1>1, <1>2, <1>4, <1>5, Zenon

\* One stream goes on with its callback as it is: unless the channel is open and the
\* callback set, the signaling thread is free afterwards.
LEMMA StreamGoesOn ==
    ASSUME DCInv, SignalingFree, NEW n \in Ids, InMap(n), NEW s \in Stream,
           streams' = [streams EXCEPT ![n] = s], s.join = streams[n].join,
           signaling' = IF s.channel = "open" /\ s.join
                        THEN [busy |-> TRUE, id |-> n, room |-> JoinRoom, at |-> Len(requests)]
                        ELSE Idle,
           posted' \in Seq([kind : {"answer", "candidate"}, id : Ids]),
           Len(posted') <= MaxPosted,
           UNCHANGED <<vmVars, mTextRoomID, mTextRoomDisplayName, main, local, history>>
    PROVE  DCInv'
<1> DEFINE r == Len(requests)
<1>1. DCTypeOK
    BY DEF DCInv
<1>2. /\ n <= r /\ r \in Ids /\ mTextRoomID = requests[r].room /\ mTextRoomID \in Rooms
    BY StreamWasAsked
<1>3. /\ streams'[n] = s /\ InMap(n)' /\ s # NoStream
      /\ \A m \in Ids : m # n => streams'[m] = streams[m]
      /\ \A m \in Ids : InMap(m)' <=> InMap(m)
    BY <1>1, NoStreamIsNone DEF DCTypeOK, InMap
<1>4. /\ signaling' \in {Idle} \cup [busy : {TRUE}, id : Ids, room : Rooms, at : Ids]
      /\ signaling' # Idle => /\ s.channel = "open" /\ s.join
                              /\ signaling'.id = n /\ signaling'.at = r
                              /\ signaling'.room = mTextRoomID
      /\ s.channel = "open" /\ s.join => signaling' # Idle
  <2> HIDE DEF r
  <2>1. [busy |-> TRUE, id |-> n, room |-> JoinRoom, at |-> r] # Idle
      BY DEF Idle
  <2>2. QED
      BY <1>2, <2>1 DEF JoinRoom, r
<1>5. DCTypeOK'
  <2>1. streams' \in [Ids -> Stream \cup {NoStream}]
      BY <1>1, <1>3 DEF DCTypeOK
  <2>2. local' \in {0} \cup {m \in Ids : streams'[m] # NoStream}
      BY <1>1, <1>3 DEF DCTypeOK, InMap
  <2>3. QED
      BY <1>1, <1>4, <2>1, <2>2 DEF DCTypeOK, vmVars, history
<1>6. LastAsked'
    BY DEF DCInv, LastAsked, history
<1>7. Numbered'
    BY <1>3 DEF DCInv, Numbered, vmVars, history
<1>8. Joining'
  <2>1. requests' = requests
      BY DEF history
  <2> HIDE DEF r
  <2>2. r <= r
      BY <1>2 DEF Ids
  <2>3. QED
      BY <1>2, <1>3, <1>4, <2>1, <2>2 DEF Joining, r
<1>9. (\A m \in Ids : Callback(m))'
  <2> SUFFICES ASSUME NEW m \in Ids PROVE Callback(m)'
      OBVIOUS
  <2>1. Callback(m) /\ got' = got /\ signaling = Idle
      BY DEF DCInv, SignalingFree, history
  <2>2. CASE m = n
      BY <1>3, <1>4, <2>1, <2>2 DEF Callback
  <2>3. CASE m # n
      BY <1>3, <2>1, <2>3 DEF Callback
  <2>4. QED
      BY <2>2, <2>3
<1>10. (\A m \in Ids : Heard(m))'
    BY DEF DCInv, Heard, Sound, history
<1>11. QED
    BY <1>5, <1>6, <1>7, <1>8, <1>9, <1>10 DEF DCInv

LEMMA Posts ==
    ASSUME DCTypeOK, NEW n \in Ids, NEW kind \in {"answer", "candidate"}, Post(kind, n)
    PROVE  /\ posted' \in Seq([kind : {"answer", "candidate"}, id : Ids])
           /\ Len(posted') <= MaxPosted
<1> DEFINE Posted == [kind : {"answer", "candidate"}, id : Ids]
           p == [kind |-> kind, id |-> n]
<1>1. posted \in Seq(Posted) /\ p \in Posted
    BY DEF DCTypeOK
<1>2. posted' = Append(posted, p) /\ Len(posted) < MaxPosted
    BY DEF Post
<1> HIDE DEF Posted, p
<1>3. posted' \in Seq(Posted) /\ Len(posted') = Len(posted) + 1 /\ Len(posted) \in Nat
    BY <1>1, <1>2
<1>4. QED
    BY <1>2, <1>3, TextAssumption DEF Posted

LEMMA StepObserver ==
    ASSUME DCInv, NEW n \in Ids,
           \/ OnSuccess(n) \/ OnFailure(n) \/ OnIceCandidate(n) \/ OnDataChannel(n)
           \/ RemoteChannelChanges(n)
           \/ \E channel \in {"open", "closed"} : ChannelChanges(n, channel)
    PROVE  DCInv'
<1> DEFINE s == streams[n]
<1>1. DCTypeOK /\ SignalingFree /\ InMap(n)
    BY DEF DCInv, OnSuccess, OnFailure, OnIceCandidate, OnDataChannel, RemoteChannelChanges,
           ChannelChanges
<1>2. s \in Stream
    BY <1>1, StreamTypes
<1>3. ~(s.channel = "open" /\ s.join) /\ signaling = Idle
    BY <1>1 DEF DCInv, Callback, SignalingFree
<1>4. /\ posted \in Seq([kind : {"answer", "candidate"}, id : Ids]) /\ Len(posted) <= MaxPosted
    BY <1>1 DEF DCTypeOK
<1>5. streams = [streams EXCEPT ![n] = s]
    BY <1>1 DEF DCTypeOK
<1>6. CASE OnSuccess(n) \/ OnFailure(n)
  <2>1. PICK failed \in BOOLEAN :
          streams' = [streams EXCEPT ![n].making = FALSE, ![n].failed = failed]
      BY <1>6 DEF OnSuccess, OnFailure, Settle
  <2> DEFINE u == [s EXCEPT !.making = FALSE, !.failed = failed]
  <2>2. u \in Stream /\ u.join = s.join /\ u.channel = s.channel
      BY <1>2 DEF Stream
  <2>3. streams' = [streams EXCEPT ![n] = u]
      BY <1>1, <2>1 DEF DCTypeOK
  <2>4. /\ posted' \in Seq([kind : {"answer", "candidate"}, id : Ids])
        /\ Len(posted') <= MaxPosted
      BY <1>1, <1>4, <1>6, Posts DEF OnSuccess, OnFailure
  <2>5. UNCHANGED <<vmVars, mTextRoomID, mTextRoomDisplayName, main, local, signaling, history>>
      BY <1>6 DEF OnSuccess, OnFailure
  <2> HIDE DEF u
  <2>6. QED
      BY <1>1, <1>3, <2>2, <2>3, <2>4, <2>5, StreamGoesOn
<1>7. CASE OnIceCandidate(n)
  <2>1. /\ posted' \in Seq([kind : {"answer", "candidate"}, id : Ids])
        /\ Len(posted') <= MaxPosted
      BY <1>1, <1>7, Posts DEF OnIceCandidate
  <2>2. /\ UNCHANGED <<vmVars, mTextRoomID, mTextRoomDisplayName, main, local, signaling, history>>
        /\ streams' = [streams EXCEPT ![n] = s]
      BY <1>5, <1>7 DEF OnIceCandidate
  <2>3. QED
      BY <1>1, <1>2, <1>3, <2>1, <2>2, StreamGoesOn
<1>8. CASE OnDataChannel(n)
  <2> DEFINE u == [s EXCEPT !.remote = TRUE]
  <2>1. u \in Stream /\ u.join = s.join /\ u.channel = s.channel
      BY <1>2 DEF Stream
  <2>2. /\ streams' = [streams EXCEPT ![n] = u] /\ posted' = posted
        /\ UNCHANGED <<vmVars, mTextRoomID, mTextRoomDisplayName, main, local, signaling, history>>
      BY <1>1, <1>8 DEF OnDataChannel, DCTypeOK
  <2> HIDE DEF u
  <2>3. QED
      BY <1>1, <1>3, <1>4, <2>1, <2>2, StreamGoesOn
<1>9. CASE RemoteChannelChanges(n)
  <2>1. /\ signaling' = Idle /\ posted' = posted /\ streams' = [streams EXCEPT ![n] = s]
        /\ UNCHANGED <<vmVars, mTextRoomID, mTextRoomDisplayName, main, local, history>>
      BY <1>3, <1>5, <1>9 DEF RemoteChannelChanges, OnStateChange, cmVars
  <2>2. QED
      BY <1>1, <1>2, <1>3, <1>4, <2>1, StreamGoesOn
<1>10. ASSUME NEW channel \in {"open", "closed"}, ChannelChanges(n, channel) PROVE DCInv'
  <2> DEFINE u == [s EXCEPT !.channel = channel]
  <2>1. u \in Stream /\ u.join = s.join /\ u.channel = channel
      BY <1>2 DEF Stream
  <2>2. /\ streams' = [streams EXCEPT ![n] = u] /\ posted' = posted
        /\ UNCHANGED <<vmVars, mTextRoomID, mTextRoomDisplayName, main, local, history>>
        /\ signaling' = IF channel = "open" /\ s.join
                        THEN [busy |-> TRUE, id |-> n, room |-> JoinRoom, at |-> Len(requests)]
                        ELSE Idle
      BY <1>1, <1>10 DEF ChannelChanges, OnStateChange, DCTypeOK
  <2> HIDE DEF u
  <2>3. QED
      BY <1>1, <1>4, <2>1, <2>2, StreamGoesOn
<1>11. QED
    BY <1>6, <1>7, <1>8, <1>9, <1>10

-----------------------------------------------------------------------------
(* The user, and the two threads' parts of a join.                         *)

LEMMA MessageTypes ==
    ASSUME DCTypeOK, NEW n \in Ids
    PROVE  /\ got[n] \in Seq(Message) /\ Len(got[n]) \in Nat /\ DOMAIN got[n] = 1..Len(got[n])
           /\ \A k \in DOMAIN got[n] : got[n][k] \in Message /\ got[n][k].at \in Ids
<1>1. got[n] \in Seq(Message)
    BY DEF DCTypeOK
<1>2. \A m \in Message : m.at \in Ids
    BY DEF Message
<1>3. /\ Len(got[n]) \in Nat /\ DOMAIN got[n] = 1..Len(got[n])
      /\ \A k \in DOMAIN got[n] : got[n][k] \in Message
    BY <1>1
<1>4. QED
    BY <1>1, <1>2, <1>3

\* A request is added; what was asked before stays.
LEMMA StepJoinAsked ==
    ASSUME DCInv, NEW room \in Rooms, NEW name \in Names, JoinDataChannelRoom(room, name)
    PROVE  DCInv'
<1> DEFINE r == Len(requests)
           q == [room |-> room, name |-> name]
<1>1. DCTypeOK /\ r \in Nat /\ r < MaxJoins /\ main = Idle
    BY RequestTypes DEF DCInv, JoinDataChannelRoom, MainFree
<1>2. /\ requests' \in Seq(Request) /\ Len(requests') = r + 1 /\ requests'[r + 1] = q
      /\ \A i \in 1..r : requests'[i] = requests[i]
      /\ requests' # <<>>
  <2>1. q \in Request /\ requests \in Seq(Request) /\ requests' = Append(requests, q)
      BY <1>1 DEF Request, DCTypeOK, JoinDataChannelRoom
  <2> HIDE DEF q
  <2>2. QED
      BY <2>1
<1>3. /\ mTextRoomID' = room /\ main' = [busy |-> TRUE, name |-> name] /\ main' # Idle
      /\ UNCHANGED <<mTextRoomDisplayName, streams, local, posted, vmVars, signaling, got>>
    BY DEF JoinDataChannelRoom, Idle
<1>4. r + 1 <= MaxJoins
    BY <1>1, TextAssumption
<1>5. DCTypeOK'
  <2>1. main' \in {Idle} \cup [busy : {TRUE}, name : Names] /\ Len(requests') <= MaxJoins
      BY <1>2, <1>3, <1>4
  <2>2. QED
      BY <1>1, <1>2, <1>3, <2>1 DEF DCTypeOK, vmVars
<1>6. q.room = room /\ q.name = name /\ main'.name = name
    BY <1>3
<1> HIDE DEF r, q
<1>7. LastAsked'
    BY <1>2, <1>3, <1>6 DEF LastAsked
<1>8. Numbered'
  <2> SUFFICES ASSUME NEW n \in Ids
               PROVE  /\ srv'[n] # "none" \/ InMap(n)' => peers'[n] # "none"
                      /\ peers'[n] # "none" =>
                           n <= Len(requests') /\ (n = Len(requests') => main' = Idle)
      BY DEF Numbered
  <2>1. /\ srv[n] # "none" \/ InMap(n) => peers[n] # "none"
        /\ peers[n] # "none" => n <= r
      BY DEF DCInv, Numbered, r
  <2>2. n <= r => n <= r + 1 /\ n # r + 1
      BY <1>1 DEF Ids
  <2>3. QED
      BY <1>2, <1>3, <2>1, <2>2 DEF InMap, vmVars
<1>9. Joining'
  <2> SUFFICES ASSUME signaling' # Idle PROVE Joining'
      BY DEF Joining
  <2>1. signaling.at \in Ids /\ signaling.id \in Ids
      BY <1>1, <1>3, SignalingTypes
  <2>2. /\ InMap(signaling.id) /\ streams[signaling.id].channel = "open"
        /\ streams[signaling.id].join
        /\ signaling.id <= signaling.at /\ signaling.at <= r
        /\ signaling.room = requests[signaling.at].room
      BY <1>3 DEF DCInv, Joining, r
  <2>3. signaling.at \in 1..r /\ signaling.at <= r + 1
      BY <1>1, <2>1, <2>2 DEF Ids
  <2>4. QED
      BY <1>2, <1>3, <2>2, <2>3 DEF Joining, InMap
<1>10. (\A n \in Ids : Callback(n))'
    BY <1>3 DEF DCInv, Callback, InMap
<1>11. (\A n \in Ids : Heard(n))'
  <2> SUFFICES ASSUME NEW n \in Ids, NEW k \in DOMAIN got[n]
               PROVE  Sound(got[n][k], n, k, got[n][1])'
      BY <1>3 DEF Heard
  <2> DEFINE m == got[n][k]
  <2>1. m.at \in Ids
      BY <1>1, MessageTypes
  <2>2. Sound(m, n, k, got[n][1])
      BY DEF DCInv, Heard
  <2>3. m.what = "join" => n \in 1..r /\ m.at \in 1..r /\ m.at <= r + 1
      BY <1>1, <2>1, <2>2 DEF Sound, Ids, r
  <2>4. QED
      BY <1>2, <1>3, <2>2, <2>3 DEF Sound
<1>12. QED
    BY <1>5, <1>7, <1>8, <1>9, <1>10, <1>11 DEF DCInv

LEMMA StepJoinMade ==
    ASSUME DCInv, JoinTextRoom
    PROVE  DCInv'
<1> DEFINE r == Len(requests)
<1>1. /\ main # Idle /\ mTextRoomDisplayName' = main.name /\ main' = Idle
      /\ peers' = [peers EXCEPT ![r] = IF session = "live" THEN "attaching" ELSE "dead"]
      /\ UNCHANGED <<mTextRoomID, streams, local, posted, session, srv, signaling, requests, got>>
    BY DEF JoinTextRoom, MainFree, history
<1>2. DCTypeOK /\ LastAsked /\ Numbered
    BY DEF DCInv
<1>3. requests # <<>> /\ main.name = requests[r].name /\ main.name \in Names
    BY <1>1, <1>2 DEF LastAsked, DCTypeOK
<1>4. /\ r \in Ids
    BY <1>2, <1>3, RequestTypes, TextAssumption DEF Ids
<1>5. /\ peers' \in [Ids -> {"none", "attaching", "answered", "dead"}]
      /\ peers'[r] # "none" /\ \A n \in Ids : n # r => peers'[n] = peers[n]
    BY <1>1, <1>2, <1>4 DEF DCTypeOK
<1>6. DCTypeOK'
    BY <1>1, <1>2, <1>3, <1>5 DEF DCTypeOK
<1>7. LastAsked'
    BY <1>1, <1>2, <1>3 DEF LastAsked
<1>8. Numbered'
  <2>1. r <= r
      BY <1>4 DEF Ids
  <2>2. QED
      BY <1>1, <1>2, <1>4, <1>5, <2>1 DEF Numbered, InMap
<1>9. Joining' /\ (\A n \in Ids : Callback(n) /\ Heard(n))'
    BY <1>1 DEF DCInv, Joining, Callback, Heard, Sound, InMap
<1>10. QED
    BY <1>6, <1>7, <1>8, <1>9 DEF DCInv

LEMMA StepOffered ==
    ASSUME DCInv, NEW n \in Ids, NEW type \in {"offer", "unparsable"},
           onTextRoomEventEvent(n, type)
    PROVE  DCInv'
<1>1. PICK channel \in {"null", "connecting"} :
        streams' = [streams EXCEPT ![n] = NewStream(channel, type)]
    BY DEF onTextRoomEventEvent
<1> DEFINE s == NewStream(channel, type)
<1>2. s \in Stream /\ s.join = TRUE /\ s.channel # "open" /\ s # NoStream
  <2>1. (type = "offer") \in BOOLEAN /\ (type # "offer") \in BOOLEAN
      OBVIOUS
  <2>2. /\ s.join = TRUE /\ s.channel = channel
        /\ s \in Stream
      BY <2>1 DEF NewStream, Stream
  <2> HIDE DEF s
  <2>3. QED
      BY <2>2, NoStreamIsNone
<1>3. /\ signaling = Idle /\ srv[n] = "setup" /\ ~InMap(n)
      /\ srv' = [srv EXCEPT ![n] = "offered"] /\ local' = n
      /\ UNCHANGED <<session, peers, mTextRoomID, mTextRoomDisplayName, main, posted, signaling,
                     requests, got>>
    BY DEF onTextRoomEventEvent, SignalingFree, history
<1>4. DCTypeOK /\ Numbered
    BY DEF DCInv
<1> HIDE DEF s
<1>5. /\ streams' = [streams EXCEPT ![n] = s] /\ streams'[n] = s
      /\ \A m \in Ids : m # n => streams'[m] = streams[m]
    BY <1>1, <1>4 DEF DCTypeOK, s
<1>6. DCTypeOK'
    BY <1>2, <1>3, <1>4, <1>5 DEF DCTypeOK
<1>7. LastAsked' /\ Joining'
    BY <1>3 DEF DCInv, LastAsked, Joining
<1>8. Numbered'
  <2>1. peers[n] # "none"
      BY <1>3, <1>4 DEF Numbered
  <2>2. \A m \in Ids : m # n => srv'[m] = srv[m] /\ (InMap(m)' <=> InMap(m))
      BY <1>3, <1>4, <1>5 DEF DCTypeOK, InMap
  <2>3. QED
      BY <1>3, <1>4, <2>1, <2>2 DEF Numbered
<1>9. (\A m \in Ids : Callback(m))'
  <2> SUFFICES ASSUME NEW m \in Ids PROVE Callback(m)'
      OBVIOUS
  <2>1. Callback(m)
      BY DEF DCInv
  <2>2. CASE m = n
      BY <1>2, <1>3, <1>5, <2>1, <2>2 DEF Callback, InMap
  <2>3. CASE m # n
      BY <1>3, <1>5, <2>1, <2>3 DEF Callback, InMap
  <2>4. QED
      BY <2>2, <2>3
<1>10. (\A m \in Ids : Heard(m))'
    BY <1>3 DEF DCInv, Heard, Sound
<1>11. QED
    BY <1>6, <1>7, <1>8, <1>9, <1>10 DEF DCInv

LEMMA StepNothing ==
    ASSUME DCInv, UNCHANGED dcVars
    PROVE  DCInv'
<1>1. DCTypeOK /\ UNCHANGED <<mTextRoomID, mTextRoomDisplayName, main, signaling, streams, local,
                              history, session, peers, srv, posted>>
    BY DEF DCInv, dcVars, vmVars, cmVars, history
<1>2. /\ session' \in {"none", "live"}
      /\ peers' \in [Ids -> {"none", "attaching", "answered", "dead"}]
      /\ srv' \in [Ids -> {"none", "setup", "offered", "acked"}]
      /\ posted' \in Seq([kind : {"answer", "candidate"}, id : Ids])
      /\ Len(posted') <= MaxPosted
    BY <1>1 DEF DCTypeOK
<1>3. \A n \in Ids : /\ peers'[n] # "none" <=> peers[n] # "none"
                     /\ srv'[n] # "none" => peers[n] # "none"
    BY <1>1 DEF DCInv, Numbered
<1>4. QED
    BY <1>1, <1>2, <1>3, OutsideStreams

\* One message more over channel n.
LEMMA OneMoreHeard ==
    ASSUME DCInv, NEW n \in Ids, NEW msg \in Message, UNCHANGED requests,
           got' = [got EXCEPT ![n] = Append(got[n], msg)],
           NEW j, j = (IF got[n] = <<>> THEN msg ELSE got[n][1]),
           Sound(msg, n, Len(got[n]) + 1, j)
    PROVE  /\ got' \in [Ids -> Seq(Message)] /\ got'[n] # <<>>
           /\ \A m \in Ids : m # n => got'[m] = got[m]
           /\ (\A m \in Ids : Heard(m))'
<1> DEFINE l == Len(got[n])
<1>1. DCTypeOK /\ got \in [Ids -> Seq(Message)]
    BY DEF DCInv, DCTypeOK
<1>2. l \in Nat /\ DOMAIN got[n] = 1..l /\ got[n] \in Seq(Message)
    BY <1>1, MessageTypes
<1>3. got'[n] = Append(got[n], msg) /\ \A m \in Ids : m # n => got'[m] = got[m]
    BY <1>1
<1>4. /\ got'[n] \in Seq(Message) /\ Len(got'[n]) = l + 1 /\ got'[n] # <<>>
      /\ DOMAIN got'[n] = 1..(l + 1)
      /\ \A k \in 1..l : got'[n][k] = got[n][k]
      /\ got'[n][l + 1] = msg
    BY <1>2, <1>3
<1>5. got' \in [Ids -> Seq(Message)]
    BY <1>1, <1>4
<1>6. got'[n][1] = j
  <2>1. got[n] = <<>> <=> l = 0
      BY <1>2
  <2> HIDE DEF l
  <2>2. CASE l = 0
      BY <1>4, <2>1, <2>2
  <2>3. CASE l # 0
    <3>1. 1 \in 1..l
        BY <1>2, <2>3
    <3>2. QED
        BY <1>4, <2>1, <2>3, <3>1
  <2>4. QED
      BY <2>2, <2>3
<1> HIDE DEF l
<1>7. ASSUME NEW m \in Ids, NEW k \in DOMAIN got'[m]
      PROVE  Sound(got'[m][k], m, k, got'[m][1])
  <2>1. CASE m # n
    <3>1. Heard(m) /\ got'[m] = got[m]
        BY <1>3, <2>1 DEF DCInv
    <3>2. QED
        BY <1>7, <3>1 DEF Heard
  <2>2. CASE m = n /\ k \in 1..l
    <3>1. 1 \in 1..l /\ Heard(n)
        BY <1>2, <2>2 DEF DCInv
    <3>2. Sound(got[n][k], n, k, got[n][1])
        BY <1>2, <2>2, <3>1 DEF Heard
    <3>3. QED
        BY <1>4, <2>2, <3>1, <3>2
  <2>3. CASE m = n /\ k = l + 1
      BY <1>4, <1>6, <2>3 DEF l
  <2>4. QED
    <3>1. m = n => k \in 1..l \/ k = l + 1
        BY <1>2, <1>4
    <3>2. QED
        BY <2>1, <2>2, <2>3, <3>1
<1>8. (\A m \in Ids : Heard(m))'
    BY <1>7 DEF Heard, Sound
<1>9. QED
    BY <1>3, <1>4, <1>5, <1>8

LEMMA StepSendMessage ==
    ASSUME DCInv, SendMessage
    PROVE  DCInv'
<1> DEFINE n == local
           r == Len(requests)
           msg == [what |-> "message", room |-> MessageRoom, at |-> r]
<1>1. CASE local = 0 /\ Gone
    BY <1>1, StepGone
<1>2. CASE local # 0 /\ ~Gone
  <2>1. /\ n \in Ids /\ InMap(n) /\ signaling = Idle
      BY <1>2 DEF DCInv, DCTypeOK, InMap, SendMessage, SignalingFree
  <2>2. Deliver(n, msg) /\ UNCHANGED <<vmVars, cmVars, signaling, requests>>
      BY <1>2 DEF SendMessage
  <2>3. n <= r /\ r \in Ids /\ mTextRoomID = requests[r].room /\ mTextRoomID \in Rooms
      BY <2>1, StreamWasAsked
  <2>4. msg \in Message /\ msg.what = "message" /\ msg.room = mTextRoomID /\ msg.at = r
      BY <2>3 DEF Message, MessageRoom
  <2> HIDE DEF msg, r, n
  <2>5. CASE streams[n].channel # "open"
    <3>1. UNCHANGED dcVars
        BY <2>2, <2>5 DEF Deliver, dcVars, vmVars, cmVars, history
    <3>2. QED
        BY <3>1, StepNothing
  <2>6. CASE streams[n].channel = "open"
    <3> DEFINE j == got[n][1]
    <3>1. got' = [got EXCEPT ![n] = Append(got[n], msg)]
        BY <2>2, <2>6 DEF Deliver
    <3>2. got[n] # <<>> /\ ~streams[n].join
      <4>1. Callback(n)
          BY <2>1 DEF DCInv
      <4>2. QED
          BY <2>1, <2>6, <4>1 DEF Callback
    <3>3. /\ Len(got[n]) \in Nat /\ Len(got[n]) # 0 /\ 1 \in DOMAIN got[n]
          /\ j \in Message /\ j.at \in Ids
      <4>1. DCTypeOK
          BY DEF DCInv
      <4>2. got[n] \in Seq(Message) /\ Len(got[n]) \in Nat /\ DOMAIN got[n] = 1..Len(got[n])
          BY <2>1, <4>1, MessageTypes
      <4>3. Len(got[n]) # 0
          BY <3>2, <4>2
      <4>4. 1 \in DOMAIN got[n]
          BY <4>2, <4>3
      <4>5. QED
          BY <2>1, <4>1, <4>2, <4>3, <4>4, MessageTypes
    <3>4. Sound(j, n, 1, j)
        BY <2>1, <3>3 DEF DCInv, Heard
    <3>5. j.at <= r /\ j.room = requests[j.at].room
        BY <3>4 DEF Sound, r
    <3>6. msg.room = j.room \/ msg.at > j.at
      <4>1. CASE j.at = r
          BY <2>3, <2>4, <3>5, <4>1
      <4>2. CASE j.at # r
        <5>1. r > j.at
            BY <2>3, <3>3, <3>5, <4>2 DEF Ids
        <5>2. QED
            BY <2>4, <5>1
      <4>3. QED
          BY <4>1, <4>2
    <3>7. Sound(msg, n, Len(got[n]) + 1, j)
      <4>1. Len(got[n]) + 1 # 1
          BY <3>3
      <4>2. QED
          BY <2>4, <3>6, <4>1 DEF Sound
    <3>8. j = IF got[n] = <<>> THEN msg ELSE got[n][1]
        BY <3>2
    <3>9. UNCHANGED requests
        BY <2>2
    <3> HIDE DEF j
    <3>10. /\ got' \in [Ids -> Seq(Message)] /\ got'[n] # <<>>
           /\ \A m \in Ids : m # n => got'[m] = got[m]
           /\ (\A m \in Ids : Heard(m))'
        BY <2>1, <2>4, <3>1, <3>7, <3>8, <3>9, OneMoreHeard
    <3>11. DCTypeOK' /\ LastAsked' /\ Numbered' /\ Joining'
        BY <2>2, <3>10 DEF DCInv, DCTypeOK, LastAsked, Numbered, Joining, InMap, vmVars, cmVars
    <3>12. (\A m \in Ids : Callback(m))'
      <4> SUFFICES ASSUME NEW m \in Ids PROVE Callback(m)'
          OBVIOUS
      <4>1. Callback(m) /\ streams' = streams /\ signaling' = signaling
          BY <2>2 DEF DCInv, cmVars
      <4>2. QED
          BY <2>1, <3>2, <3>10, <4>1 DEF Callback, InMap
    <3>13. QED
        BY <3>10, <3>11, <3>12 DEF DCInv
  <2>7. QED
      BY <2>5, <2>6
<1>3. QED
    BY <1>1, <1>2, StepGone DEF SendMessage

\* The join goes out over a channel nothing has gone over, and the callback is cleared.
LEMMA StepSendJoin ==
    ASSUME DCInv, SendJoin
    PROVE  DCInv'
<1> DEFINE n == signaling.id
           r == Len(requests)
<1>1. DCTypeOK /\ signaling # Idle /\ signaling' = Idle
    BY DEF DCInv, SendJoin, SignalingFree
<1>2. n \in Ids /\ signaling.room \in Rooms /\ signaling.at \in Ids
    BY <1>1, SignalingTypes
<1>3. /\ InMap(n) /\ streams[n].channel = "open" /\ streams[n].join
      /\ n <= signaling.at /\ signaling.at <= r
      /\ signaling.room = requests[signaling.at].room
    BY <1>1 DEF DCInv, Joining
<1>4. PICK name \in SeenNames :
        Deliver(n, [what |-> "join", room |-> signaling.room, name |-> name,
                    at |-> signaling.at, upto |-> r])
    BY DEF SendJoin
<1> DEFINE msg == [what |-> "join", room |-> signaling.room, name |-> name,
                   at |-> signaling.at, upto |-> r]
<1>5. /\ r \in Ids /\ (n = r => main = Idle)
      /\ main = Idle => mTextRoomDisplayName = requests[r].name
      /\ main # Idle => main.name = requests[r].name
    BY <1>2, <1>3, StreamWasAsked
<1>6. name \in Names \cup {TornName} /\ (r = n => name = requests[n].name)
  <2>1. /\ mTextRoomDisplayName \in Names \cup {TornName}
        /\ main # Idle => main.name \in Names
      BY <1>1 DEF DCTypeOK
  <2>2. CASE main = Idle
    <3>1. name = mTextRoomDisplayName
        BY <2>2 DEF SeenNames, MainFree
    <3>2. QED
        BY <1>5, <2>1, <2>2, <3>1
  <2>3. CASE main # Idle
    <3>1. name \in {mTextRoomDisplayName, main.name, TornName}
        BY <2>3 DEF SeenNames, MainFree
    <3>2. QED
        BY <1>5, <2>1, <2>3, <3>1
  <2>4. QED
      BY <2>2, <2>3
<1>7. /\ msg \in Message /\ msg.what = "join" /\ msg.room = signaling.room /\ msg.name = name
      /\ msg.at = signaling.at /\ msg.upto = r
    BY <1>2, <1>5, <1>6 DEF Message
<1>8. got' = [got EXCEPT ![n] = Append(got[n], msg)]
    BY <1>3, <1>4 DEF Deliver
<1>9. got[n] = <<>> /\ Len(got[n]) = 0
    BY <1>2, <1>3 DEF DCInv, Callback
<1>10. /\ streams' = [streams EXCEPT ![n].join = FALSE]
       /\ UNCHANGED <<vmVars, mTextRoomID, mTextRoomDisplayName, main, local, posted, requests>>
    BY DEF SendJoin, JoinSent
<1>11. /\ streams'[n] \in Stream /\ ~streams'[n].join
       /\ \A m \in Ids : m # n => streams'[m] = streams[m]
       /\ streams' \in [Ids -> Stream \cup {NoStream}]
  <2>1. streams[n] \in Stream
      BY <1>1, <1>2, <1>3, StreamTypes
  <2> DEFINE s == [streams[n] EXCEPT !.join = FALSE]
  <2>2. s \in Stream /\ s.join = FALSE
      BY <2>1 DEF Stream
  <2>3. streams' = [streams EXCEPT ![n] = s]
      BY <1>10
  <2> HIDE DEF s
  <2>4. QED
      BY <1>1, <1>2, <2>2, <2>3 DEF DCTypeOK
<1> HIDE DEF msg, n, r
<1>12. Sound(msg, n, Len(got[n]) + 1, msg)
  <2>1. Len(got[n]) + 1 = 1
      BY <1>9
  <2>2. QED
      BY <1>3, <1>6, <1>7, <2>1 DEF Sound, r
<1>13. /\ got' \in [Ids -> Seq(Message)] /\ got'[n] # <<>>
       /\ \A m \in Ids : m # n => got'[m] = got[m]
       /\ (\A m \in Ids : Heard(m))'
  <2>1. msg = IF got[n] = <<>> THEN msg ELSE got[n][1]
      BY <1>9
  <2>2. UNCHANGED requests
      BY <1>10
  <2>3. QED
      BY <1>2, <1>7, <1>8, <1>12, <2>1, <2>2, OneMoreHeard
<1>14. \A m \in Ids : InMap(m)' <=> InMap(m)
    BY <1>2, <1>3, <1>11, NoStreamIsNone DEF InMap
<1>15. DCTypeOK'
  <2>1. local' \in {0} \cup {m \in Ids : streams'[m] # NoStream}
      BY <1>1, <1>10, <1>14 DEF DCTypeOK, InMap
  <2>2. QED
      BY <1>1, <1>10, <1>11, <1>13, <2>1 DEF DCTypeOK, vmVars
<1>16. LastAsked' /\ Joining'
    BY <1>1, <1>10 DEF DCInv, LastAsked, Joining
<1>17. Numbered'
    BY <1>10, <1>14 DEF DCInv, Numbered, vmVars
<1>18. (\A m \in Ids : Callback(m))'
  <2> SUFFICES ASSUME NEW m \in Ids PROVE Callback(m)'
      OBVIOUS
  <2>1. Callback(m)
      BY DEF DCInv
  <2>2. CASE m = n
      BY <1>3, <1>11, <1>13, <1>14, <2>2 DEF Callback
  <2>3. CASE m # n
      BY <1>11, <1>13, <1>14, <2>1, <2>3 DEF Callback, n
  <2>4. QED
      BY <2>2, <2>3
<1>19. QED
    BY <1>13, <1>15, <1>16, <1>17, <1>18 DEF DCInv

LEMMA StepDCInv == DCInv /\ [DCNext]_dcVars => DCInv'
<1> SUFFICES ASSUME DCInv, [DCNext]_dcVars PROVE DCInv'
    OBVIOUS
<1>1. CASE Login \/ Dropped
    BY <1>1, StepSession
<1>2. CASE Logout
    BY <1>2, StepGone DEF Logout
<1>3. CASE \E room \in Rooms, name \in Names : JoinDataChannelRoom(room, name)
    BY <1>3, StepJoinAsked
<1>4. CASE JoinTextRoom \/ SendMessage \/ TakeSignal \/ SendJoin
    BY <1>4, StepJoinMade, StepSendMessage, StepTakeSignal, StepSendJoin
<1>5. CASE \E n \in Ids :
             \/ onAttachTextRoomJoin(n)
             \/ \E type \in {"offer", "unparsable"} : onTextRoomEventEvent(n, type)
    BY <1>5, StepAttached, StepOffered
<1>6. CASE \E n \in Ids :
             \/ OnSuccess(n) \/ OnFailure(n) \/ OnIceCandidate(n)
             \/ \E channel \in {"open", "closed"} : ChannelChanges(n, channel)
             \/ OnDataChannel(n) \/ RemoteChannelChanges(n)
    BY <1>6, StepObserver
<1>7. CASE UNCHANGED dcVars
    BY <1>7, StepNothing
<1>8. QED
    BY <1>1, <1>2, <1>3, <1>4, <1>5, <1>6, <1>7 DEF DCNext

LEMMA AlwaysDCInv == DCSpec => []DCInv
BY InitDCInv, StepDCInv, PTL DEF DCSpec

\* Every state has the types of DCTypeOK: LocalStream_DataChannels is null or a stream
\* of the map, and every join is sent with a room that was asked for.
THEOREM TextTypeCorrect == DCSpec => []DCTypeOK
<1>1. DCInv => DCTypeOK
    BY DEF DCInv
<1>2. QED
    BY <1>1, AlwaysDCInv, PTL

\* Whatever the two threads do, the join is the first thing the server gets over a
\* channel, and it comes once.
THEOREM JoinComesFirst == DCSpec => []JoinFirst
<1>1. DCInv => JoinFirst
    BY DEF DCInv, Heard, Sound, JoinFirst
<1>2. QED
    BY <1>1, AlwaysDCInv, PTL

\* A join carries the room and the name typed for it, or, when the user asked again
\* before it was out, the room of that later request.
THEOREM JoinIsAsAsked == DCSpec => []JoinAsAsked
<1>1. DCInv => JoinAsAsked
    BY DEF DCInv, Heard, Sound, JoinAsAsked
<1>2. QED
    BY <1>1, AlwaysDCInv, PTL

\* What is said goes to the room that was joined over the same channel, unless the
\* user has asked to join again since.
THEOREM SaidWhereJoined == DCSpec => []SaidInJoinedRoom
<1>1. DCInv => SaidInJoinedRoom
    BY DEF DCInv, Heard, Sound, SaidInJoinedRoom
<1>2. QED
    BY <1>1, AlwaysDCInv, PTL
=============================================================================
