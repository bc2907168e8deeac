--------------------- MODULE JanusVideoRoomManagerProof ---------------------
(***************************************************************************)
(* Proofs about JanusVideoRoomManager, for any memory, any feeds, either   *)
(* build and any number of attach requests.                                *)
(*                                                                         *)
(* What holds the safety properties together is that an attach number is   *)
(* used up once: it is waiting in one callback, or it was written as the   *)
(* handle of one block, or it is gone.                                     *)
(***************************************************************************)
EXTENDS JanusVideoRoomManager, SequenceTheorems, FiniteSetTheorems, TLAPS

\* No attach number beyond the counter is in use anywhere.
Counted ==
    /\ \A c \in callbacks : c.tran <= attaches
    /\ \A b \in Blocks : peers[b].tran <= attaches /\ peers[b].handle <= attaches
    /\ \A h \in PluginHandles : Known(h) => h <= attaches

\* An attach is answered once, and its number was not used as a handle before.
AnsweredOnce ==
    /\ \A c, d \in callbacks : c.tran = d.tran => c = d
    /\ \A c \in callbacks : ~Known(c.tran) /\ \A b \in Blocks : peers[b].handle # c.tran

\* No two blocks, whether in use or free, hold the same handle.
BlocksDistinct ==
    \A a, b \in Blocks : peers[a].handle = peers[b].handle /\ peers[a].handle # 0 => a = b

\* RolesAgree, for a handle that is set.
RolesSound ==
    \A b \in Blocks :
        ~Freed(b) /\ peers[b].live /\ Answered(b) =>
            /\ peers[b].handle \in PluginHandles
            /\ Known(peers[b].handle)
            /\ srv[peers[b].handle].role = "publisher" <=> peers[b].sub = NoFeed

\* The server announces feeds on a handle only with and after "joined".
JoiningUntold ==
    \A h \in PluginHandles :
        Known(h) /\ srv[h].role = "publisher" /\ srv[h].phase = "joining" => srv[h].known = {}

VMInv ==
    /\ VMTypeOK /\ ListSound
    /\ Counted /\ AnsweredOnce /\ BlocksDistinct /\ RolesSound /\ JoiningUntold

-----------------------------------------------------------------------------
(* What the types say.                                                     *)

LEMMA BlockTypes ==
    ASSUME VMTypeOK, NEW b \in Blocks
    PROVE  /\ peers[b].tran \in 0..MaxAttach
           /\ peers[b].handle \in 0..MaxAttach
           /\ Freed(b) => peers[b] \in FreedBlock
           /\ ~Freed(b) => peers[b] \in Peer
<1>1. peers[b] \in Peer \cup FreedBlock
    BY DEF VMTypeOK
<1>2. QED
    BY <1>1, RoomAssumption DEF Peer, FreedBlock, Freed, PluginHandles

LEMMA BlankIsFreed == Blank \in FreedBlock
BY DEF Blank, FreedBlock

LEMMA UnknownIsNone == Unknown \notin Handle
<1>1. \A r \in Handle : r.role # "none"
    BY DEF Handle
<1>2. Unknown.role = "none"
    BY DEF Unknown
<1>3. QED
    BY <1>1, <1>2

LEMMA ListedBlocks ==
    ASSUME VMTypeOK
    PROVE  /\ Listed \subseteq Blocks
           /\ Len(mVideoRoomPeerList) \in Nat
           /\ DOMAIN mVideoRoomPeerList = 1..Len(mVideoRoomPeerList)
           /\ \A i \in 1..Len(mVideoRoomPeerList) :
                mVideoRoomPeerList[i] \in Blocks /\ mVideoRoomPeerList[i] \in Listed
BY DEF VMTypeOK, Listed

-----------------------------------------------------------------------------
(* The list and the memory.                                                *)

\* A step that leaves the kind of every handle alone.
SrvKept ==
    /\ srv' \in [PluginHandles -> Handle \cup {Unknown}]
    /\ \A h \in PluginHandles :
         /\ Known(h)' <=> Known(h)
         /\ Known(h) => srv'[h].role = srv[h].role

\* What new does for each entry of subs: bs are the blocks it takes.
Made(bs, subs) ==
    /\ bs \in Seq(Blocks) /\ Len(bs) = Len(subs)
    /\ \A i \in 1..Len(subs) : Freed(bs[i])
    /\ \A i, j \in 1..Len(subs) : bs[i] = bs[j] => i = j
    /\ peers' \in [Blocks -> Peer \cup FreedBlock]
    /\ \A i \in 1..Len(subs) :
         peers'[bs[i]] = [tran |-> attaches + i, handle |-> peers[bs[i]].handle,
                          sub |-> subs[i], live |-> session = "live"]
    /\ \A b \in Blocks : (\A i \in 1..Len(subs) : bs[i] # b) => peers'[b] = peers[b]
    /\ mVideoRoomPeerList' = mVideoRoomPeerList \o bs
    /\ callbacks' = IF session = "live"
                    THEN callbacks \cup
                         {[tran |-> attaches + i, block |-> bs[i]] : i \in 1..Len(subs)}
                    ELSE callbacks

LEMMA NewPeersMade ==
    ASSUME VMTypeOK, NEW subs \in Seq(Feeds \cup {NoFeed}), NewPeers(subs)
    PROVE  /\ attaches' = attaches + Len(subs) /\ attaches' \in 0..MaxAttach
           /\ Len(subs) \in Nat
           /\ \E bs : Made(bs, subs)
<1> USE RoomAssumption
<1>1. /\ DOMAIN subs = 1..Len(subs) /\ Len(subs) \in Nat
      /\ \A i \in 1..Len(subs) : subs[i] \in Feeds \cup {NoFeed}
    OBVIOUS
<1>2. /\ attaches' = attaches + Len(subs)
      /\ attaches + Len(subs) <= MaxAttach
    BY DEF NewPeers
<1>3. attaches \in 0..MaxAttach /\ attaches' \in 0..MaxAttach
    BY <1>1, <1>2 DEF VMTypeOK
<1>4. PICK bs \in [DOMAIN subs -> FreeBlocks] :
        /\ \A i, j \in DOMAIN subs : bs[i] = bs[j] => i = j
        /\ peers' = [b \in Blocks |->
              IF \E i \in DOMAIN subs : bs[i] = b
              THEN LET i == CHOOSE j \in DOMAIN subs : bs[j] = b
                   IN  [tran |-> attaches + i, handle |-> peers[b].handle, sub |-> subs[i],
                        live |-> session = "live"]
              ELSE peers[b]]
        /\ mVideoRoomPeerList' = mVideoRoomPeerList \o bs
        /\ callbacks' = IF session = "live"
                        THEN callbacks \cup
                             {[tran |-> attaches + i, block |-> bs[i]] : i \in DOMAIN subs}
                        ELSE callbacks
    BY Zenon DEF NewPeers
<1>5. \A i \in 1..Len(subs) : bs[i] \in Blocks /\ Freed(bs[i])
    BY <1>1, <1>4 DEF FreeBlocks
<1>6. bs \in Seq(Blocks) /\ Len(bs) = Len(subs)
    BY <1>1, <1>4, <1>5
<1>7. \A i \in 1..Len(subs) :
         peers'[bs[i]] = [tran |-> attaches + i, handle |-> peers[bs[i]].handle,
                          sub |-> subs[i], live |-> session = "live"]
  <2> TAKE i \in 1..Len(subs)
  <2>1. (CHOOSE j \in DOMAIN subs : bs[j] = bs[i]) = i
      BY <1>1, <1>4
  <2>2. QED
      BY <1>1, <1>4, <1>5, <2>1
<1>8. \A b \in Blocks : (\A i \in 1..Len(subs) : bs[i] # b) => peers'[b] = peers[b]
    BY <1>1, <1>4
<1>9. peers' \in [Blocks -> Peer \cup FreedBlock]
  <2>1. \A i \in 1..Len(subs) : peers'[bs[i]] \in Peer
    <3> TAKE i \in 1..Len(subs)
    <3>1. peers[bs[i]].handle \in PluginHandles \cup {0}
        BY <1>5, BlockTypes DEF PluginHandles
    <3>2. attaches + i \in PluginHandles
        BY <1>1, <1>2, <1>3 DEF PluginHandles
    <3>3. (session = "live") \in BOOLEAN /\ subs[i] \in Feeds \cup {NoFeed}
        BY <1>1
    <3>4. [tran |-> attaches + i, handle |-> peers[bs[i]].handle,
           sub |-> subs[i], live |-> session = "live"] \in Peer
        BY <3>1, <3>2, <3>3 DEF Peer
    <3>5. QED
        BY <1>7, <3>4, Zenon
  <2>2. \A b \in Blocks : peers'[b] \in Peer \cup FreedBlock
    <3>1. \A b \in Blocks : peers[b] \in Peer \cup FreedBlock
        BY DEF VMTypeOK
    <3>2. QED
        BY <1>8, <2>1, <3>1, Zenon
  <2>3. peers' = [b \in Blocks |-> peers'[b]]
      BY <1>4
  <2>4. QED
      BY <2>2, <2>3
<1>10. Made(bs, subs)
    BY <1>1, <1>4, <1>5, <1>6, <1>7, <1>8, <1>9 DEF Made
<1>11. QED
    BY <1>1, <1>2, <1>3, <1>10

LEMMA StepNewPeers ==
    ASSUME VMInv, NEW subs \in Seq(Feeds \cup {NoFeed}), NewPeers(subs),
           session' = session, SrvKept, JoiningUntold'
    PROVE  VMInv'
<1> USE RoomAssumption
<1> DEFINE n == Len(mVideoRoomPeerList)
           k == Len(subs)
<1>1. VMTypeOK
    BY DEF VMInv
<1>2. /\ attaches' = attaches + k /\ attaches' \in 0..MaxAttach /\ attaches \in 0..MaxAttach
      /\ k \in Nat
    BY <1>1, NewPeersMade DEF VMTypeOK
<1>3. PICK bs : Made(bs, subs)
    BY <1>1, NewPeersMade
<1>4. /\ bs \in Seq(Blocks) /\ Len(bs) = k
      /\ \A i \in 1..k : bs[i] \in Blocks /\ Freed(bs[i])
      /\ \A i, j \in 1..k : bs[i] = bs[j] => i = j
    BY <1>3, <1>2 DEF Made
<1> HIDE DEF k
<1>5. \A b \in Blocks :
        \/ peers'[b] = peers[b] /\ \A i \in 1..k : bs[i] # b
        \/ \E i \in 1..k : /\ b = bs[i] /\ Freed(b)
                           /\ peers'[b].tran = attaches + i
                           /\ peers'[b].handle = peers[b].handle
                           /\ peers'[b].live = (session = "live")
  <2> TAKE b \in Blocks
  <2>1. CASE \A i \in 1..k : bs[i] # b
      BY <1>3, <2>1 DEF Made, k
  <2>2. ASSUME NEW i \in 1..k, b = bs[i]
        PROVE  /\ Freed(b) /\ peers'[b].tran = attaches + i
               /\ peers'[b].handle = peers[b].handle
               /\ peers'[b].live = (session = "live")
    <3>1. peers'[b] = [tran |-> attaches + i, handle |-> peers[b].handle,
                       sub |-> subs[i], live |-> session = "live"]
        BY <1>3, <2>2 DEF Made, k
    <3>2. QED
        BY <1>4, <2>2, <3>1
  <2>3. QED
      BY <2>1, <2>2
<1>6. /\ callbacks \subseteq callbacks'
      /\ \A c \in callbacks' : c \in callbacks
            \/ \E i \in 1..k : c = [tran |-> attaches + i, block |-> bs[i]]
      /\ session = "live" => \A i \in 1..k : [tran |-> attaches + i, block |-> bs[i]] \in callbacks'
  <2>1. callbacks' = IF session = "live"
                     THEN callbacks \cup
                            {[tran |-> attaches + i, block |-> bs[i]] : i \in 1..k}
                     ELSE callbacks
      BY <1>3, Zenon DEF Made, k
  <2>2. QED
      BY <2>1
<1>7. \A i \in 1..k : attaches + i \in PluginHandles
    BY <1>2 DEF PluginHandles
<1>8. \A b \in Blocks : /\ peers'[b].handle = peers[b].handle
                        /\ ~Freed(b) => peers'[b] = peers[b]
    BY <1>5
<1>9. VMTypeOK'
  <2>1. mVideoRoomPeerList' \in Seq(Blocks)
      BY <1>1, <1>3, <1>4, ConcatProperties DEF VMTypeOK, Made
  <2>2. callbacks' \subseteq Callback
      BY <1>1, <1>4, <1>6, <1>7 DEF VMTypeOK, Callback
  <2>3. peers' \in [Blocks -> Peer \cup FreedBlock]
      BY <1>3 DEF Made
  <2>4. session' \in {"none", "connecting", "live"}
      BY <1>1 DEF VMTypeOK
  <2>5. QED
      BY <1>2, <2>1, <2>2, <2>3, <2>4 DEF VMTypeOK, SrvKept
<1>10. ListSound'
  <2>1. /\ n \in Nat /\ DOMAIN mVideoRoomPeerList = 1..n
        /\ \A i \in 1..n : mVideoRoomPeerList[i] \in Blocks /\ ~Freed(mVideoRoomPeerList[i])
        /\ \A i, j \in 1..n : mVideoRoomPeerList[i] = mVideoRoomPeerList[j] => i = j
    <3>1. \A b \in Listed : ~Freed(b)
        BY DEF VMInv, ListSound
    <3>2. n \in Nat /\ DOMAIN mVideoRoomPeerList = 1..n
          /\ \A i \in 1..n : mVideoRoomPeerList[i] \in Blocks /\ mVideoRoomPeerList[i] \in Listed
        BY <1>1, ListedBlocks
    <3>3. QED
        BY <3>1, <3>2 DEF VMInv, ListSound
  <2> DEFINE L == mVideoRoomPeerList'
  <2>2. /\ DOMAIN L = 1..(n + k)
        /\ \A i \in 1..n : L[i] = mVideoRoomPeerList[i]
        /\ \A i \in (n + 1)..(n + k) : L[i] = bs[i - n]
    <3>1. mVideoRoomPeerList \in Seq(Blocks) /\ L = mVideoRoomPeerList \o bs
        BY <1>1, <1>3 DEF VMTypeOK, Made
    <3>2. QED
        BY <1>2, <1>4, <2>1, <3>1
  <2> HIDE DEF n, L
  <2>3. \A i \in (n + 1)..(n + k) : i - n \in 1..k
      BY <1>2, <2>1
  <2>4. \A i \in 1..(n + k) : i \in 1..n \/ i \in (n + 1)..(n + k)
      BY <1>2, <2>1
  <2>5. \A i, j \in 1..(n + k) : L[i] = L[j] => i = j
    <3> SUFFICES ASSUME NEW i \in 1..(n + k), NEW j \in 1..(n + k), L[i] = L[j]
                 PROVE  i = j
        OBVIOUS
    <3>1. CASE i \in 1..n /\ j \in 1..n
        BY <2>1, <2>2, <3>1
    <3>2. CASE i \in (n + 1)..(n + k) /\ j \in (n + 1)..(n + k)
      <4>1. bs[i - n] = bs[j - n]
          BY <2>2, <3>2
      <4>2. i - n = j - n
          BY <1>4, <2>3, <3>2, <4>1
      <4>3. QED
          BY <1>2, <2>1, <4>2
    <3>3. CASE i \in 1..n /\ j \in (n + 1)..(n + k)
        BY <1>4, <2>1, <2>2, <2>3, <3>3
    <3>4. CASE i \in (n + 1)..(n + k) /\ j \in 1..n
        BY <1>4, <2>1, <2>2, <2>3, <3>4
    <3>5. QED
        BY <2>4, <3>1, <3>2, <3>3, <3>4
  <2>6. \A i \in 1..(n + k) : peers'[L[i]].tran # 0
    <3> TAKE i \in 1..(n + k)
    <3>1. CASE i \in 1..n
        BY <1>8, <2>1, <2>2, <3>1 DEF Freed
    <3>2. CASE i \in (n + 1)..(n + k)
      <4>1. PICK j \in 1..k : L[i] = bs[j]
          BY <2>2, <2>3, <3>2
      <4>2. peers'[bs[j]].tran \in PluginHandles
          BY <1>4, <1>5, <1>7
      <4>3. QED
          BY <4>1, <4>2 DEF PluginHandles
    <3>3. QED
        BY <2>4, <3>1, <3>2
  <2>7. QED
      BY <2>2, <2>5, <2>6 DEF ListSound, Listed, Freed, L
<1>11. Counted'
  <2>1. \A c \in callbacks' : c.tran <= attaches'
      BY <1>1, <1>2, <1>6 DEF VMInv, Counted, VMTypeOK, Callback, PluginHandles
  <2>2. \A b \in Blocks : peers'[b].tran <= attaches' /\ peers'[b].handle <= attaches'
      BY <1>1, <1>2, <1>5, BlockTypes DEF VMInv, Counted
  <2>3. \A h \in PluginHandles : Known(h)' => h <= attaches'
      BY <1>2 DEF VMInv, Counted, SrvKept, PluginHandles
  <2>4. QED
      BY <2>1, <2>2, <2>3 DEF Counted
<1>12. AnsweredOnce'
  <2>1. \A c \in callbacks : c.tran \in PluginHandles /\ c.tran <= attaches
      BY <1>1 DEF VMInv, Counted, VMTypeOK, Callback
  <2>2. \A c, d \in callbacks' : c.tran = d.tran => c = d
    <3> SUFFICES ASSUME NEW c \in callbacks', NEW d \in callbacks', c.tran = d.tran
                 PROVE  c = d
        OBVIOUS
    <3>1. CASE c \in callbacks /\ d \in callbacks
        BY <3>1 DEF VMInv, AnsweredOnce
    <3>2. CASE c \in callbacks /\ d \notin callbacks
        BY <1>2, <1>6, <2>1, <3>2 DEF PluginHandles
    <3>3. CASE c \notin callbacks /\ d \in callbacks
        BY <1>2, <1>6, <2>1, <3>3 DEF PluginHandles
    <3>4. CASE c \notin callbacks /\ d \notin callbacks
      <4>1. PICK i \in 1..k : c = [tran |-> attaches + i, block |-> bs[i]]
          BY <1>6, <3>4
      <4>2. PICK j \in 1..k : d = [tran |-> attaches + j, block |-> bs[j]]
          BY <1>6, <3>4
      <4>3. i = j
          BY <1>2, <4>1, <4>2
      <4>4. QED
          BY <4>1, <4>2, <4>3
    <3>5. QED
        BY <3>1, <3>2, <3>3, <3>4
  <2>3. \A c \in callbacks' : ~Known(c.tran)' /\ \A b \in Blocks : peers'[b].handle # c.tran
    <3> TAKE c \in callbacks'
    <3>1. CASE c \in callbacks
        BY <1>8, <2>1, <3>1 DEF VMInv, AnsweredOnce, SrvKept
    <3>2. CASE c \notin callbacks
      <4>1. c.tran \in PluginHandles /\ ~(c.tran <= attaches)
          BY <1>2, <1>6, <1>7, <3>2 DEF PluginHandles
      <4>2. QED
          BY <1>8, <4>1 DEF VMInv, Counted, SrvKept
    <3>3. QED
        BY <3>1, <3>2
  <2>4. QED
      BY <2>2, <2>3 DEF AnsweredOnce
<1>13. BlocksDistinct'
    BY <1>8 DEF VMInv, BlocksDistinct
<1>14. RolesSound'
  <2> SUFFICES ASSUME NEW b \in Blocks, ~Freed(b)', peers'[b].live, Answered(b)'
               PROVE  /\ peers'[b].handle \in PluginHandles
                      /\ srv'[peers'[b].handle] # Unknown
                      /\ srv'[peers'[b].handle].role = "publisher" <=> peers'[b].sub = NoFeed
      BY DEF RolesSound, Known, Freed, Answered
  <2>1. CASE peers'[b] = peers[b]
    <3>1. ~Freed(b) /\ peers[b].live /\ Answered(b)
        BY <1>6, <2>1 DEF Freed, Answered
    <3>2. QED
        BY <2>1, <3>1 DEF VMInv, RolesSound, SrvKept, Known
  <2>2. CASE \E i \in 1..k : /\ b = bs[i] /\ peers'[b].tran = attaches + i
                             /\ peers'[b].live = (session = "live")
      BY <1>6, <2>2 DEF Answered
  <2>3. QED
      BY <1>5, <2>1, <2>2
<1>15. QED
    BY <1>9, <1>10, <1>11, <1>12, <1>13, <1>14 DEF VMInv

-----------------------------------------------------------------------------
(* What the server knows.                                                  *)

LEMMA StepSrvOnly ==
    ASSUME VMInv, SrvKept, JoiningUntold',
           UNCHANGED <<session, peers, mVideoRoomPeerList, callbacks, attaches>>
    PROVE  VMInv'
<1>1. VMTypeOK' /\ ListSound' /\ BlocksDistinct'
    BY DEF VMInv, VMTypeOK, SrvKept, ListSound, Listed, Freed, BlocksDistinct
<1>2. Counted'
    BY DEF VMInv, Counted, SrvKept
<1>3. AnsweredOnce'
  <2>1. \A c \in callbacks : c.tran \in PluginHandles
      BY DEF VMInv, VMTypeOK, Callback
  <2>2. QED
      BY <2>1 DEF VMInv, AnsweredOnce, SrvKept
<1>4. RolesSound'
    BY DEF VMInv, RolesSound, SrvKept, Freed, Answered, Known
<1>5. QED
    BY <1>1, <1>2, <1>3, <1>4 DEF VMInv

\* Only a field of what is known of one handle changes.
LEMMA ChangeKeepsSrv ==
    ASSUME VMTypeOK, NEW h \in PluginHandles, Known(h),
           NEW r \in Handle, r.role = srv[h].role, srv' = [srv EXCEPT ![h] = r]
    PROVE  SrvKept
<1>1. srv \in [PluginHandles -> Handle \cup {Unknown}]
    BY DEF VMTypeOK
<1>2. r # Unknown
    BY UnknownIsNone
<1>3. QED
    BY <1>1, <1>2 DEF SrvKept, Known

LEMMA KnownHandle ==
    ASSUME VMTypeOK, NEW h \in PluginHandles, Known(h)
    PROVE  srv[h] \in Handle
BY DEF VMTypeOK, Known

\* The record of a handle after its phase has changed.
LEMMA PhaseChange ==
    ASSUME VMInv, NEW h \in PluginHandles, Known(h),
           NEW p \in {"joined", "offered", "answered", "offering", "started", srv[h].phase},
           srv' = [srv EXCEPT ![h].phase = p]
    PROVE  SrvKept /\ JoiningUntold'
<1>1. VMTypeOK
    BY DEF VMInv
<1>2. srv[h] \in Handle
    BY <1>1, KnownHandle
<1> DEFINE r == [srv[h] EXCEPT !.phase = p]
<1>3. /\ r \in Handle /\ r.role = srv[h].role /\ r.known = srv[h].known /\ r.phase = p
      /\ srv' = [srv EXCEPT ![h] = r]
    BY <1>2 DEF Handle
<1> HIDE DEF r
<1>4. SrvKept
    BY <1>1, <1>3, ChangeKeepsSrv
<1>5. JoiningUntold'
  <2>1. srv \in [PluginHandles -> Handle \cup {Unknown}]
      BY <1>1 DEF VMTypeOK
  <2>2. QED
      BY <1>3, <2>1 DEF VMInv, JoiningUntold, Known
<1>6. QED
    BY <1>4, <1>5

LEMMA StepSendSDP ==
    ASSUME VMInv, NEW h \in PluginHandles, SendSDP(h)
    PROVE  VMInv'
<1>1. CASE Reaches(h) /\ Known(h)
  <2> DEFINE p == IF srv[h].role = "publisher"
                  THEN IF srv[h].phase \in {"joined", "answered"} THEN "offered" ELSE srv[h].phase
                  ELSE IF srv[h].phase = "offering" THEN "started" ELSE srv[h].phase
  <2>1. p \in {"joined", "offered", "answered", "offering", "started", srv[h].phase}
      OBVIOUS
  <2>2. srv' = [srv EXCEPT ![h].phase = p]
    <3>1. srv \in [PluginHandles -> Handle \cup {Unknown}]
        BY DEF VMInv, VMTypeOK
    <3>2. QED
        BY <1>1, <3>1 DEF SendSDP
  <2> HIDE DEF p
  <2>3. SrvKept /\ JoiningUntold'
      BY <1>1, <2>1, <2>2, PhaseChange
  <2>4. QED
      BY <2>3, StepSrvOnly DEF SendSDP
<1>2. CASE ~(Reaches(h) /\ Known(h))
  <2>1. UNCHANGED srv
      BY <1>2 DEF SendSDP
  <2>2. SrvKept /\ JoiningUntold'
      BY <2>1 DEF VMInv, VMTypeOK, SrvKept, Known, JoiningUntold
  <2>3. QED
      BY <2>2, StepSrvOnly DEF SendSDP
<1>3. QED
    BY <1>1, <1>2

LEMMA StepEventSdp ==
    ASSUME VMInv, NEW h \in PluginHandles, NEW type, EventSdp(h, type)
    PROVE  VMInv'
<1>1. Known(h) /\ \E p \in {"offering", "answered"} : srv' = [srv EXCEPT ![h].phase = p]
    BY DEF EventSdp
<1>2. SrvKept /\ JoiningUntold'
    BY <1>1, PhaseChange
<1>3. QED
    BY <1>2, StepSrvOnly DEF EventSdp

-----------------------------------------------------------------------------
(* Answers to attach requests.                                             *)

LEMMA StepAttachAnswered ==
    ASSUME VMInv, NEW c \in callbacks, onAttachVideoRoomJoin(c)
    PROVE  VMInv'
<1> USE RoomAssumption
<1> DEFINE a == c.block
<1>1. VMTypeOK
    BY DEF VMInv
<1>2. /\ c.tran \in PluginHandles /\ a \in Blocks /\ c = [tran |-> c.tran, block |-> a]
      /\ \A d \in callbacks : d.tran \in PluginHandles
    BY <1>1 DEF VMTypeOK, Callback
<1>3. /\ callbacks' = callbacks \ {c}
      /\ peers' = [peers EXCEPT ![a].handle = c.tran]
      /\ UNCHANGED <<session, mVideoRoomPeerList, attaches>>
    BY DEF onAttachVideoRoomJoin
<1> HIDE DEF a
<1>4. /\ peers \in [Blocks -> Peer \cup FreedBlock]
      /\ srv \in [PluginHandles -> Handle \cup {Unknown}]
    BY <1>1 DEF VMTypeOK
<1>5. peers'[a] \in Peer \cup FreedBlock
  <2>1. peers'[a] = [peers[a] EXCEPT !.handle = c.tran]
      BY <1>2, <1>3, <1>4
  <2>2. CASE peers[a] \in Peer
      BY <1>2, <2>1, <2>2 DEF Peer
  <2>3. CASE peers[a] \in FreedBlock
      BY <1>2, <2>1, <2>3 DEF FreedBlock
  <2>4. QED
      BY <1>2, <1>4, <2>2, <2>3
<1>6. /\ peers'[a].handle = c.tran
      /\ peers'[a].tran = peers[a].tran
      /\ ~Freed(a) => peers'[a].live = peers[a].live /\ peers'[a].sub = peers[a].sub
      /\ \A b \in Blocks : b # a => peers'[b] = peers[b]
  <2>1. peers'[a] = [peers[a] EXCEPT !.handle = c.tran]
      BY <1>2, <1>3, <1>4
  <2>2. CASE peers[a] \in Peer
      BY <1>2, <1>3, <1>4, <2>1, <2>2 DEF Peer
  <2>3. CASE peers[a] \in FreedBlock
      BY <1>2, <1>3, <1>4, <2>1, <2>3 DEF FreedBlock, Freed
  <2>4. QED
      BY <1>2, <1>4, <2>2, <2>3
<1>7. \A b \in Blocks : Freed(b)' <=> Freed(b)
    BY <1>6 DEF Freed
<1>8. \/ UNCHANGED srv /\ (Freed(a) \/ ~peers[a].live)
      \/ /\ ~Freed(a) /\ peers[a].live
         /\ \E r \in Handle : /\ srv' = [srv EXCEPT ![c.tran] = r] /\ r.known = {}
                              /\ r.role = "publisher" <=> peers[a].sub = NoFeed
  <2>1. CASE ~Freed(a) /\ peers[a].live
    <3> DEFINE r == [role |-> IF peers[a].sub = NoFeed THEN "publisher" ELSE "subscriber",
                     known |-> {}, phase |-> "joining"]
    <3>1. srv' = [srv EXCEPT ![c.tran] = r]
        BY <2>1 DEF onAttachVideoRoomJoin, joinVideoRoom, a
    <3>2. r \in Handle /\ r.known = {} /\ (r.role = "publisher" <=> peers[a].sub = NoFeed)
        BY DEF Handle
    <3>3. QED
        BY <2>1, <3>1, <3>2
  <2>2. CASE Freed(a) \/ ~peers[a].live
      BY <2>2 DEF onAttachVideoRoomJoin, joinVideoRoom, a
  <2>3. QED
      BY <2>1, <2>2
<1>9. \A h \in PluginHandles : h # c.tran => srv'[h] = srv[h]
    BY <1>2, <1>4, <1>8
<1>10. srv' \in [PluginHandles -> Handle \cup {Unknown}]
    BY <1>2, <1>4, <1>8
<1>11. VMTypeOK'
  <2>1. peers' \in [Blocks -> Peer \cup FreedBlock]
      BY <1>2, <1>3, <1>4, <1>5
  <2>2. QED
      BY <1>1, <1>3, <1>10, <2>1 DEF VMTypeOK
<1>12. ListSound'
  <2>1. Listed \subseteq Blocks /\ Listed' = Listed
      BY <1>1, <1>3, ListedBlocks DEF Listed
  <2>2. QED
      BY <1>3, <1>7, <2>1 DEF VMInv, ListSound
<1>13. Counted'
  <2>1. \A d \in callbacks' : d.tran <= attaches'
      BY <1>3 DEF VMInv, Counted
  <2>2. \A b \in Blocks : peers'[b].tran <= attaches' /\ peers'[b].handle <= attaches'
      BY <1>3, <1>6 DEF VMInv, Counted
  <2>3. \A h \in PluginHandles : Known(h)' => h <= attaches'
      BY <1>3, <1>9 DEF VMInv, Counted, Known
  <2>4. QED
      BY <2>1, <2>2, <2>3 DEF Counted
<1>14. AnsweredOnce'
  <2>1. \A d \in callbacks' : d \in callbacks /\ d.tran # c.tran
      BY <1>3 DEF VMInv, AnsweredOnce
  <2>2. QED
      BY <1>2, <1>6, <1>9, <2>1 DEF VMInv, AnsweredOnce, Known
<1>15. BlocksDistinct'
    BY <1>6 DEF VMInv, AnsweredOnce, BlocksDistinct
<1>16. RolesSound'
  <2> SUFFICES ASSUME NEW b \in Blocks, ~Freed(b)', peers'[b].live, Answered(b)'
               PROVE  /\ peers'[b].handle \in PluginHandles
                      /\ srv'[peers'[b].handle] # Unknown
                      /\ srv'[peers'[b].handle].role = "publisher" <=> peers'[b].sub = NoFeed
      BY DEF RolesSound, Known, Freed, Answered
  <2>1. CASE b = a
    <3>1. ~Freed(a) /\ peers[a].live /\ peers'[a].sub = peers[a].sub
        BY <1>6, <1>7, <2>1
    <3>2. PICK r \in Handle : /\ srv' = [srv EXCEPT ![c.tran] = r]
                              /\ r.role = "publisher" <=> peers[a].sub = NoFeed
        BY <1>8, <3>1
    <3>3. srv'[c.tran] = r
        BY <1>2, <1>4, <3>2
    <3>4. QED
        BY <1>2, <1>6, <2>1, <3>1, <3>2, <3>3, UnknownIsNone
  <2>2. CASE b # a
    <3>1. peers'[b] = peers[b]
        BY <1>6, <2>2
    <3>2. ~Freed(b) /\ peers[b].live /\ Answered(b)
        BY <1>2, <1>3, <2>2, <3>1 DEF Freed, Answered
    <3>3. peers[b].handle # c.tran
        BY DEF VMInv, AnsweredOnce
    <3>4. QED
        BY <1>9, <3>1, <3>2, <3>3 DEF VMInv, RolesSound, Known
  <2>3. QED
      BY <2>1, <2>2
<1>17. JoiningUntold'
    BY <1>2, <1>4, <1>8 DEF VMInv, JoiningUntold, Known
<1>18. QED
    BY <1>11, <1>12, <1>13, <1>14, <1>15, <1>16, <1>17 DEF VMInv

-----------------------------------------------------------------------------
(* Events that make peers or take them off the list.                       *)

\* The record of a handle after it was told of feeds, or that one is gone.
LEMMA KnownChange ==
    ASSUME VMInv, NEW h \in PluginHandles, Known(h), NEW feeds \in SUBSET Feeds,
           NEW p \in {"joined", srv[h].phase},
           p = "joining" => feeds = {},
           srv' = [srv EXCEPT ![h] = [srv[h] EXCEPT !.known = feeds, !.phase = p]]
    PROVE  SrvKept /\ JoiningUntold'
<1>1. VMTypeOK
    BY DEF VMInv
<1>2. srv[h] \in Handle
    BY <1>1, KnownHandle
<1> DEFINE r == [srv[h] EXCEPT !.known = feeds, !.phase = p]
<1>3. r \in Handle /\ r.role = srv[h].role /\ r.known = feeds /\ r.phase = p
    BY <1>2 DEF Handle
<1> HIDE DEF r
<1>4. srv' = [srv EXCEPT ![h] = r]
    BY DEF r
<1>5. SrvKept
    BY <1>1, <1>3, <1>4, ChangeKeepsSrv
<1>6. srv \in [PluginHandles -> Handle \cup {Unknown}]
    BY <1>1 DEF VMTypeOK
<1>7. JoiningUntold'
    BY <1>3, <1>4, <1>6 DEF VMInv, JoiningUntold, Known
<1>8. QED
    BY <1>5, <1>7

LEMMA EventJoinSrv ==
    ASSUME VMInv, NEW h \in PluginHandles, NEW feeds \in SUBSET Feeds,
           onVideoRoomEventJoin(h, feeds)
    PROVE  /\ srv' = [srv EXCEPT ![h] = [srv[h] EXCEPT !.known = feeds, !.phase = "joined"]]
           /\ srv[h] \in Handle /\ srv[h].known = {}
<1>1. Known(h) /\ srv[h].role = "publisher" /\ srv[h].phase = "joining"
    BY DEF onVideoRoomEventJoin
<1>2. srv[h] \in Handle /\ srv[h].known = {}
    BY <1>1, KnownHandle DEF VMInv, JoiningUntold
<1>3. srv \in [PluginHandles -> Handle \cup {Unknown}]
    BY DEF VMInv, VMTypeOK
<1>4. srv' = [[srv EXCEPT ![h].known = srv[h].known \cup feeds] EXCEPT ![h].phase = "joined"]
    BY DEF onVideoRoomEventJoin, Tell
<1>5. srv[h].known \cup feeds = feeds
    BY <1>2
<1>6. QED
    BY <1>2, <1>3, <1>4, <1>5 DEF Handle

LEMMA EventPublisherSrv ==
    ASSUME VMInv, NEW h \in PluginHandles, NEW f \in Feeds,
           onVideoRoomEventPublisher(h, f)
    PROVE  /\ srv' = [srv EXCEPT ![h] = [srv[h] EXCEPT !.known = srv[h].known \cup {f},
                                                       !.phase = srv[h].phase]]
           /\ srv[h] \in Handle
<1>1. srv[h] \in Handle
    BY KnownHandle DEF VMInv, onVideoRoomEventPublisher
<1>2. srv \in [PluginHandles -> Handle \cup {Unknown}]
    BY DEF VMInv, VMTypeOK
<1>3. QED
    BY <1>1, <1>2 DEF onVideoRoomEventPublisher, Tell, Handle

LEMMA OrdersAreSeqs ==
    ASSUME NEW feeds \in SUBSET Feeds, NEW subs \in Orders(feeds)
    PROVE  /\ subs \in Seq(Feeds \cup {NoFeed}) /\ Len(subs) = Cardinality(feeds)
           /\ \A f \in Feeds : f \in feeds <=> \E i \in 1..Len(subs) : subs[i] = f
           /\ \A i, j \in 1..Len(subs) : subs[i] = subs[j] => i = j
<1>1. IsFiniteSet(feeds) /\ Cardinality(feeds) \in Nat
    BY RoomAssumption, FS_Subset, FS_CardinalityType
<1> DEFINE n == Cardinality(feeds)
<1>2. /\ subs \in [1..n -> feeds]
      /\ \A i, j \in 1..n : subs[i] = subs[j] => i = j
    BY DEF Orders
<1>3. IsFiniteSet(1..n) /\ Cardinality(1..n) = n
    BY <1>1, FS_Interval
<1>4. subs \in Injection(1..n, feeds)
    BY <1>2 DEF Injection, IsInjective
<1>5. subs \in Surjection(1..n, feeds)
    BY <1>1, <1>3, <1>4, FS_Injection
<1>6. \A f \in feeds : \E i \in 1..n : subs[i] = f
    BY <1>5 DEF Surjection
<1>7. subs \in Seq(Feeds \cup {NoFeed}) /\ Len(subs) = n
    BY <1>1, <1>2
<1>8. QED
    BY <1>2, <1>6, <1>7

LEMMA StepEventJoin ==
    ASSUME VMInv, NEW h \in PluginHandles, NEW feeds \in SUBSET Feeds,
           onVideoRoomEventJoin(h, feeds)
    PROVE  VMInv'
<1>1. PICK subs \in Orders(feeds) : NewPeers(subs)
    BY DEF onVideoRoomEventJoin
<1>2. SrvKept /\ JoiningUntold'
    BY EventJoinSrv, KnownChange DEF onVideoRoomEventJoin
<1>3. session' = session
    BY DEF onVideoRoomEventJoin
<1>4. QED
    BY <1>1, <1>2, <1>3, OrdersAreSeqs, StepNewPeers

LEMMA StepEventPublisher ==
    ASSUME VMInv, NEW h \in PluginHandles, NEW f \in Feeds,
           onVideoRoomEventPublisher(h, f)
    PROVE  VMInv'
<1>1. NewPeers(<<f>>) /\ session' = session /\ Known(h) /\ srv[h].phase # "joining"
    BY DEF onVideoRoomEventPublisher
<1>2. srv[h].known \cup {f} \in SUBSET Feeds
    BY EventPublisherSrv DEF Handle
<1>3. SrvKept /\ JoiningUntold'
    BY <1>1, <1>2, EventPublisherSrv, KnownChange
<1>4. <<f>> \in Seq(Feeds \cup {NoFeed})
    OBVIOUS
<1>5. QED
    BY <1>1, <1>3, <1>4, StepNewPeers

LEMMA StepJoin ==
    ASSUME VMInv, JoinVideoRoom
    PROVE  VMInv'
<1>1. SrvKept /\ JoiningUntold'
    BY DEF JoinVideoRoom, VMInv, VMTypeOK, SrvKept, Known, JoiningUntold
<1>2. <<NoFeed>> \in Seq(Feeds \cup {NoFeed})
    OBVIOUS
<1>3. QED
    BY <1>1, <1>2, StepNewPeers DEF JoinVideoRoom

\* The first element of a nonempty set of positions is in the set.
LEMMA LeastPosition ==
    ASSUME NEW S \in SUBSET Nat, S # {}
    PROVE  (CHOOSE i \in S : \A j \in S : i <= j) \in S
<1>1. S \subseteq Nat
    OBVIOUS
<1>2. \E i \in S : \A j \in S : ~(<<j, i>> \in OpToRel(<, Nat))
    BY <1>1, NatLessThanWellFounded, WFMin, Zenon
<1>3. OpToRel(<, Nat) = {ss \in Nat \X Nat : ss[1] < ss[2]}
    BY Zenon DEF OpToRel
<1>4. PICK i \in S : \A j \in S : ~(<<j, i>> \in OpToRel(<, Nat))
    BY <1>2
<1>5. \A j \in S : ~(j < i)
    BY <1>1, <1>3, <1>4
<1>6. \A j \in S : i <= j
    BY <1>1, <1>5
<1>7. QED
    BY <1>6

LEMMA SubscriberIndexFinds ==
    ASSUME VMTypeOK, NEW f
    PROVE  \/ /\ SubscriberIndex(f) = 0
              /\ \A i \in DOMAIN mVideoRoomPeerList : peers[mVideoRoomPeerList[i]].sub # f
           \/ /\ SubscriberIndex(f) \in DOMAIN mVideoRoomPeerList
              /\ SubscriberIndex(f) # 0
              /\ peers[mVideoRoomPeerList[SubscriberIndex(f)]].sub = f
<1> DEFINE is == {i \in DOMAIN mVideoRoomPeerList : peers[mVideoRoomPeerList[i]].sub = f}
<1>1. is \in SUBSET Nat /\ 0 \notin is
    BY ListedBlocks
<1>2. CASE is = {}
    BY <1>2 DEF SubscriberIndex
<1>3. CASE is # {}
  <2>1. SubscriberIndex(f) = CHOOSE i \in is : \A j \in is : i <= j
      BY <1>3 DEF SubscriberIndex
  <2>2. SubscriberIndex(f) \in is
      BY <1>1, <1>3, <2>1, LeastPosition
  <2>3. QED
      BY <1>1, <2>2
<1>4. QED
    BY <1>2, <1>3

\* Taking one entry off the list moves those behind it up by one.
LEMMA UnlistShifts ==
    ASSUME VMTypeOK, NEW i \in DOMAIN mVideoRoomPeerList
    PROVE  /\ Unlist(i) \in Seq(Blocks)
           /\ DOMAIN Unlist(i) = 1..(Len(mVideoRoomPeerList) - 1)
           /\ \A j \in 1..(Len(mVideoRoomPeerList) - 1) :
                Unlist(i)[j] = IF j < i THEN mVideoRoomPeerList[j] ELSE mVideoRoomPeerList[j + 1]
<1> DEFINE L == mVideoRoomPeerList
           n == Len(L)
           s == SubSeq(L, 1, i - 1)
           t == SubSeq(L, i + 1, n)
<1>1. L \in Seq(Blocks) /\ n \in Nat /\ i \in 1..n /\ \A j \in 1..n : L[j] \in Blocks
    BY ListedBlocks DEF VMTypeOK
<1>2. /\ s \in Seq(Blocks) /\ Len(s) = i - 1 /\ \A j \in 1..(i - 1) : s[j] = L[j]
  <2>1. \A j \in 1..(i - 1) : L[j] \in Blocks
      BY <1>1
  <2>2. /\ s \in Seq(Blocks)
        /\ Len(s) = IF 1 <= i - 1 THEN i - 1 - 1 + 1 ELSE 0
        /\ \A j \in 1..(i - 1 - 1 + 1) : s[j] = L[1 + j - 1]
      BY <1>1, <2>1, SubSeqProperties
  <2> HIDE DEF s, L
  <2>3. QED
      BY <1>1, <2>2
<1>3. /\ t \in Seq(Blocks) /\ Len(t) = n - i /\ \A j \in 1..(n - i) : t[j] = L[j + i]
  <2>1. \A j \in (i + 1)..n : L[j] \in Blocks
      BY <1>1
  <2>2. /\ t \in Seq(Blocks)
        /\ Len(t) = IF i + 1 <= n THEN n - (i + 1) + 1 ELSE 0
        /\ \A j \in 1..(n - (i + 1) + 1) : t[j] = L[(i + 1) + j - 1]
      BY <1>1, <2>1, SubSeqProperties
  <2> HIDE DEF t, L, n
  <2>3. QED
      BY <1>1, <2>2
<1>4. Unlist(i) = s \o t
    BY DEF Unlist
<1> HIDE DEF s, t, L, n
<1>5. /\ s \o t \in Seq(Blocks) /\ Len(s \o t) = n - 1
      /\ \A j \in 1..(n - 1) : (s \o t)[j] = IF j <= i - 1 THEN s[j] ELSE t[j - (i - 1)]
    BY <1>1, <1>2, <1>3, ConcatProperties
<1>6. DOMAIN (s \o t) = 1..(n - 1)
    BY <1>5
<1>7. \A j \in 1..(n - 1) : (s \o t)[j] = IF j < i THEN L[j] ELSE L[j + 1]
  <2> TAKE j \in 1..(n - 1)
  <2>1. CASE j < i
      BY <1>1, <1>2, <1>5, <2>1
  <2>2. CASE ~(j < i)
    <3>1. (s \o t)[j] = t[j - (i - 1)]
        BY <1>1, <1>5, <2>2
    <3>2. j - (i - 1) \in 1..(n - i) /\ (j - (i - 1)) + i = j + 1
        BY <1>1, <2>2
    <3>3. QED
        BY <1>3, <2>2, <3>1, <3>2
  <2>3. QED
      BY <2>1, <2>2
<1>8. QED
    BY <1>4, <1>5, <1>6, <1>7 DEF L, n

\* The list after entry i was taken off it.
LEMMA UnlistSound ==
    ASSUME VMInv, NEW i \in DOMAIN mVideoRoomPeerList,
           mVideoRoomPeerList' = Unlist(i), UNCHANGED peers
    PROVE  mVideoRoomPeerList' \in Seq(Blocks) /\ ListSound'
<1> DEFINE L == mVideoRoomPeerList
           n == Len(L)
<1>1. VMTypeOK
    BY DEF VMInv
<1>2. /\ n \in Nat /\ DOMAIN L = 1..n /\ i \in 1..n
      /\ \A j \in 1..n : L[j] \in Listed
    BY <1>1, ListedBlocks
<1>3. /\ L' \in Seq(Blocks) /\ DOMAIN L' = 1..(n - 1)
      /\ \A j \in 1..(n - 1) : L'[j] = IF j < i THEN L[j] ELSE L[j + 1]
    BY <1>1, UnlistShifts
<1>4. /\ \A j, m \in 1..n : L[j] = L[m] => j = m
      /\ \A b \in Listed : ~Freed(b)
    BY <1>2 DEF VMInv, ListSound
<1> HIDE DEF n
<1>5. \A j, m \in 1..(n - 1) : L'[j] = L'[m] => j = m
  <2> SUFFICES ASSUME NEW j \in 1..(n - 1), NEW m \in 1..(n - 1), L'[j] = L'[m]
               PROVE  j = m
      OBVIOUS
  <2> HIDE DEF L
  <2>1. j \in 1..n /\ m \in 1..n /\ j + 1 \in 1..n /\ m + 1 \in 1..n
      BY <1>2
  <2>2. CASE j < i /\ m < i
      BY <1>3, <1>4, <2>1, <2>2
  <2>3. CASE j < i /\ ~(m < i)
      BY <1>2, <1>3, <1>4, <2>1, <2>3
  <2>4. CASE ~(j < i) /\ m < i
      BY <1>2, <1>3, <1>4, <2>1, <2>4
  <2>5. CASE ~(j < i) /\ ~(m < i)
    <3>1. j + 1 = m + 1
        BY <1>3, <1>4, <2>1, <2>5
    <3>2. QED
        BY <1>2, <3>1
  <2>6. QED
      BY <2>2, <2>3, <2>4, <2>5
<1>6. \A j \in 1..(n - 1) : L'[j] \in Listed
  <2> HIDE DEF L
  <2> TAKE j \in 1..(n - 1)
  <2>1. j \in 1..n /\ j + 1 \in 1..n
      BY <1>2
  <2>2. QED
      BY <1>2, <1>3, <2>1
<1>7. \A b \in Listed' : b \in Listed
    BY <1>3, <1>6 DEF Listed
<1>8. QED
    BY <1>3, <1>4, <1>5, <1>7 DEF ListSound, Freed

LEMMA EventUnpublishSrv ==
    ASSUME VMInv, NEW h \in PluginHandles, NEW f \in Feeds,
           onVideoRoomEventUnpublish(h, f)
    PROVE  /\ srv' = [srv EXCEPT ![h] = [srv[h] EXCEPT !.known = srv[h].known \ {f},
                                                       !.phase = srv[h].phase]]
           /\ srv[h] \in Handle
<1>1. srv[h] \in Handle
    BY KnownHandle DEF VMInv, onVideoRoomEventUnpublish
<1>2. srv \in [PluginHandles -> Handle \cup {Unknown}]
    BY DEF VMInv, VMTypeOK
<1>3. QED
    BY <1>1, <1>2 DEF onVideoRoomEventUnpublish, Handle

LEMMA StepEventUnpublish ==
    ASSUME VMInv, NEW h \in PluginHandles, NEW f \in Feeds,
           onVideoRoomEventUnpublish(h, f)
    PROVE  VMInv'
<1>1. /\ Known(h) /\ srv[h].role = "publisher" /\ f \in srv[h].known
      /\ UNCHANGED <<session, callbacks, attaches>>
    BY DEF onVideoRoomEventUnpublish
<1>2. UNCHANGED peers /\ mVideoRoomPeerList' \in Seq(Blocks) /\ ListSound'
  <2>1. CASE SubscriberIndex(f) = 0
      BY <2>1 DEF onVideoRoomEventUnpublish, VMInv, VMTypeOK, ListSound, Listed, Freed
  <2>2. CASE SubscriberIndex(f) # 0
    <3>1. SubscriberIndex(f) \in DOMAIN mVideoRoomPeerList
        BY <2>2, SubscriberIndexFinds DEF VMInv
    <3>2. UNCHANGED peers /\ mVideoRoomPeerList' = Unlist(SubscriberIndex(f))
        BY <2>2 DEF onVideoRoomEventUnpublish, DropPeer
    <3>3. QED
        BY <3>1, <3>2, UnlistSound
  <2>3. QED
      BY <2>1, <2>2
<1>3. SrvKept /\ JoiningUntold'
  <2>1. srv[h].known \ {f} \in SUBSET Feeds
      BY EventUnpublishSrv DEF Handle
  <2>2. srv[h].phase # "joining"
      BY <1>1 DEF VMInv, JoiningUntold
  <2>3. QED
      BY <1>1, <2>1, <2>2, EventUnpublishSrv, KnownChange
<1>4. VMTypeOK' /\ BlocksDistinct'
    BY <1>1, <1>2, <1>3 DEF VMInv, VMTypeOK, SrvKept, BlocksDistinct
<1>5. Counted'
    BY <1>1, <1>2, <1>3 DEF VMInv, Counted, SrvKept
<1>6. AnsweredOnce'
  <2>1. \A c \in callbacks : c.tran \in PluginHandles
      BY DEF VMInv, VMTypeOK, Callback
  <2>2. QED
      BY <1>1, <1>2, <1>3, <2>1 DEF VMInv, AnsweredOnce, SrvKept
<1>7. RolesSound'
    BY <1>1, <1>2, <1>3 DEF VMInv, RolesSound, SrvKept, Freed, Answered, Known
<1>8. QED
    BY <1>2, <1>3, <1>4, <1>5, <1>6, <1>7 DEF VMInv

-----------------------------------------------------------------------------
(* Leaving, losing the session, logging out.                               *)

LEMMA StepLeave ==
    ASSUME VMInv, VMLeaveVideoRoom
    PROVE  VMInv'
<1>1. VMTypeOK
    BY DEF VMInv
<1>2. \A b \in Blocks :
        /\ peers'[b] \in Peer \cup FreedBlock
        /\ peers'[b].handle = peers[b].handle \/ peers'[b].handle = 0
        /\ peers'[b].tran = peers[b].tran \/ peers'[b].tran = 0
        /\ ~Freed(b)' => peers'[b] = peers[b]
  <2> TAKE b \in Blocks
  <2>1. CASE b \notin Listed
      BY <1>1, <2>1 DEF VMLeaveVideoRoom, DeleteListed, VMTypeOK
  <2>2. CASE b \in Listed /\ StoresDropped
    <3>1. peers'[b] = [tran |-> 0, handle |-> peers[b].handle]
        BY <2>2 DEF VMLeaveVideoRoom, DeleteListed
    <3>2. peers[b].handle \in PluginHandles \cup {0}
        BY <1>1, BlockTypes, RoomAssumption DEF PluginHandles
    <3>3. QED
        BY <3>1, <3>2 DEF FreedBlock, Freed
  <2>3. CASE b \in Listed /\ ~StoresDropped
      BY <2>3, BlankIsFreed DEF VMLeaveVideoRoom, DeleteListed, Blank, Freed
  <2>4. QED
      BY <2>1, <2>2, <2>3
<1>3. /\ UNCHANGED <<session, callbacks, attaches, srv>>
      /\ mVideoRoomPeerList' = <<>>
    BY DEF VMLeaveVideoRoom
<1>4. VMTypeOK'
  <2>1. peers' \in [Blocks -> Peer \cup FreedBlock]
      BY <1>2 DEF VMLeaveVideoRoom, DeleteListed
  <2>2. QED
      BY <1>1, <1>3, <2>1 DEF VMTypeOK
<1>5. ListSound'
    BY <1>3 DEF ListSound, Listed
<1>6. Counted'
  <2>1. attaches \in Nat
      BY <1>1, RoomAssumption DEF VMTypeOK
  <2>2. QED
      BY <1>2, <1>3, <2>1 DEF VMInv, Counted, Known
<1>7. AnsweredOnce'
  <2>1. \A c \in callbacks : c.tran # 0
      BY <1>1, RoomAssumption DEF VMTypeOK, Callback, PluginHandles
  <2>2. QED
      BY <1>2, <1>3, <2>1 DEF VMInv, AnsweredOnce, Known
<1>8. BlocksDistinct'
    BY <1>2 DEF VMInv, BlocksDistinct
<1>9. RolesSound'
    BY <1>2, <1>3 DEF VMInv, RolesSound, Freed, Answered, Known
<1>10. JoiningUntold'
    BY <1>3 DEF VMInv, JoiningUntold, Known
<1>11. QED
    BY <1>4, <1>5, <1>6, <1>7, <1>8, <1>9, <1>10 DEF VMInv

LEMMA StepSessionGone ==
    ASSUME VMInv, SessionGone, session' \in {"none", "connecting", "live"}
    PROVE  VMInv'
<1>1. VMTypeOK
    BY DEF VMInv
<1>2. \A b \in Blocks :
        /\ peers'[b] \in Peer \cup FreedBlock
        /\ peers'[b].handle = peers[b].handle \/ peers'[b].handle = 0
        /\ peers'[b].tran = peers[b].tran
        /\ ~Freed(b) => peers'[b].live = FALSE
  <2> TAKE b \in Blocks
  <2>1. CASE Freed(b)
      BY <2>1, BlankIsFreed DEF SessionGone, Blank, Freed
  <2>2. CASE ~Freed(b)
    <3>1. peers[b] \in Peer
        BY <1>1, <2>2, BlockTypes
    <3>2. peers'[b] = [peers[b] EXCEPT !.live = FALSE]
        BY <2>2 DEF SessionGone
    <3>3. QED
        BY <3>1, <3>2 DEF Peer
  <2>3. QED
      BY <2>1, <2>2
<1>3. /\ callbacks' = {}
      /\ srv' = [h \in PluginHandles |-> Unknown]
      /\ UNCHANGED <<mVideoRoomPeerList, attaches>>
    BY DEF SessionGone
<1>4. VMTypeOK'
  <2>1. peers' \in [Blocks -> Peer \cup FreedBlock]
      BY <1>2 DEF SessionGone
  <2>2. QED
      BY <1>1, <1>3, <2>1 DEF VMTypeOK
<1>5. ListSound'
  <2>1. Listed \subseteq Blocks /\ Listed' = Listed
      BY <1>1, <1>3, ListedBlocks DEF Listed
  <2>2. QED
      BY <1>2, <1>3, <2>1 DEF VMInv, ListSound, Freed
<1>6. Counted'
  <2>1. attaches \in Nat
      BY <1>1, RoomAssumption DEF VMTypeOK
  <2>2. QED
      BY <1>2, <1>3, <2>1 DEF VMInv, Counted, Known
<1>7. AnsweredOnce' /\ JoiningUntold'
    BY <1>3 DEF AnsweredOnce, JoiningUntold, Known
<1>8. BlocksDistinct'
    BY <1>2 DEF VMInv, BlocksDistinct
<1>9. RolesSound'
    BY <1>2 DEF RolesSound, Freed
<1>10. QED
    BY <1>4, <1>5, <1>6, <1>7, <1>8, <1>9 DEF VMInv

LEMMA EmptyIsSound ==
    /\ VMInit => VMInv
    /\ VMLogout => VMInv'
<1> USE RoomAssumption, BlankIsFreed
    DEF VMInv, VMTypeOK, ListSound, Listed, Counted, AnsweredOnce, BlocksDistinct,
        RolesSound, JoiningUntold, Freed, Known, Blank
<1>1. VMInit => VMInv
    BY DEF VMInit
<1>2. VMLogout => VMInv'
    BY DEF VMLogout
<1>3. QED
    BY <1>1, <1>2

LEMMA StepServer ==
    ASSUME VMInv, ServerStep
    PROVE  VMInv'
<1>1. CASE onCreateSessionId
  <2>1. SrvKept /\ JoiningUntold'
      BY <1>1 DEF onCreateSessionId, VMInv, VMTypeOK, SrvKept, Known, JoiningUntold
  <2>2. QED
      BY <1>1, <2>1 DEF onCreateSessionId, VMInv, VMTypeOK, ListSound, Listed, Counted,
         AnsweredOnce, BlocksDistinct, RolesSound, Freed, Known, Answered
<1>2. QED
    BY <1>1, StepAttachAnswered, StepEventJoin, StepEventPublisher, StepEventUnpublish,
       StepEventSdp, StepSendSDP
       DEF ServerStep

LEMMA StepVMInv == VMInv /\ [VMNext]_vmVars => VMInv'
<1> SUFFICES ASSUME VMInv, [VMNext]_vmVars PROVE VMInv'
    OBVIOUS
<1>1. CASE LosesSession
    BY <1>1, StepSessionGone DEF LosesSession, ConnectServer, onSocketDisConnected
<1>2. CASE UNCHANGED vmVars
    BY <1>2 DEF vmVars, VMInv, VMTypeOK, ListSound, Listed, Counted, AnsweredOnce,
       BlocksDistinct, RolesSound, JoiningUntold, Freed, Known, Answered
<1>3. QED
    BY <1>1, <1>2, StepJoin, StepLeave, EmptyIsSound, StepServer DEF VMNext

LEMMA AlwaysVMInv == VMSpec => []VMInv
BY EmptyIsSound, StepVMInv, PTL DEF VMSpec

-----------------------------------------------------------------------------

\* The state is of its type, whatever the order of calls, answers and events.
THEOREM RoomTypeCorrect == VMSpec => []VMTypeOK
<1>1. VMInv => VMTypeOK
    BY DEF VMInv
<1>2. QED
    BY <1>1, AlwaysVMInv, PTL

\* The list of JanusVideoRoomManager never holds a deleted peer nor one twice.
THEOREM ListStaysSound == VMSpec => []ListSound
<1>1. VMInv => ListSound
    BY DEF VMInv
<1>2. QED
    BY <1>1, AlwaysVMInv, PTL

\* No two peers have the same handle.
THEOREM HandlesStayDistinct == VMSpec => []HandlesDistinct
<1>1. VMInv => HandlesDistinct
    BY DEF VMInv, BlocksDistinct, HandlesDistinct
<1>2. QED
    BY <1>1, AlwaysVMInv, PTL

\* What SendSDP sends for an answered peer fits the join sent for its handle.
THEOREM RolesStayAgreed == VMSpec => []RolesAgree
<1>1. VMInv => RolesAgree
    BY DEF VMInv, RolesSound, RolesAgree
<1>2. QED
    BY <1>1, AlwaysVMInv, PTL

-----------------------------------------------------------------------------
(* Callbacks and the peers they are bound to.                              *)

FindsOrLeft ==
    \A c \in callbacks' :
        FindsItsPeer(c)' \/ (c \in callbacks /\ (~FindsItsPeer(c) \/ VMLeaveVideoRoom))

\* New callbacks are bound to new peers, and peers in use keep their numbers.
LEMMA NewPeersFind ==
    ASSUME VMTypeOK, NEW subs \in Seq(Feeds \cup {NoFeed}), NewPeers(subs)
    PROVE  FindsOrLeft
<1>1. PICK bs : Made(bs, subs)
    BY NewPeersMade
<1>2. Len(subs) \in Nat
    BY NewPeersMade
<1> SUFFICES ASSUME NEW c \in callbacks'
             PROVE  peers'[c.block].tran = c.tran
                    \/ (c \in callbacks /\ peers[c.block].tran # c.tran)
    BY DEF FindsOrLeft, FindsItsPeer
<1>3. CASE c \in callbacks
  <2>1. c.block \in Blocks /\ c.tran # 0
      BY <1>3, RoomAssumption DEF VMTypeOK, Callback, PluginHandles
  <2>2. CASE Freed(c.block)
      BY <1>3, <2>1, <2>2 DEF Freed
  <2>3. CASE ~Freed(c.block)
    <3>1. \A i \in 1..Len(subs) : bs[i] # c.block
        BY <1>1, <2>3 DEF Made
    <3>2. peers'[c.block] = peers[c.block]
        BY <1>1, <2>1, <3>1, Zenon DEF Made
    <3>3. QED
        BY <1>3, <3>2
  <2>4. QED
      BY <2>2, <2>3
<1>4. CASE c \notin callbacks
  <2>1. PICK i \in 1..Len(subs) : c = [tran |-> attaches + i, block |-> bs[i]]
    <3>1. callbacks' = IF session = "live"
                       THEN callbacks \cup
                              {[tran |-> attaches + i, block |-> bs[i]] : i \in 1..Len(subs)}
                       ELSE callbacks
        BY <1>1, Zenon DEF Made
    <3>2. QED
        BY <1>4, <3>1
  <2>2. peers'[bs[i]] = [tran |-> attaches + i, handle |-> peers[bs[i]].handle,
                         sub |-> subs[i], live |-> session = "live"]
      BY <1>1 DEF Made
  <2>3. QED
      BY <2>1, <2>2
<1>5. QED
    BY <1>3, <1>4

LEMMA StepFinds ==
    ASSUME VMInv, VMNext
    PROVE  FindsOrLeft
<1>1. VMTypeOK
    BY DEF VMInv
<1>2. ASSUME callbacks' \subseteq callbacks,
             \A b \in Blocks : ~Freed(b) => peers'[b].tran = peers[b].tran
      PROVE  FindsOrLeft
  <2>1. \A c \in callbacks : c.block \in Blocks /\ c.tran # 0
      BY <1>1, RoomAssumption DEF VMTypeOK, Callback, PluginHandles
  <2>2. QED
      BY <1>2, <2>1 DEF FindsOrLeft, FindsItsPeer, Freed
<1>3. CASE LosesSession \/ VMLogout
  <2>1. callbacks' = {}
      BY <1>3 DEF LosesSession, ConnectServer, onSocketDisConnected, SessionGone, VMLogout
  <2>2. QED
      BY <2>1 DEF FindsOrLeft
<1>4. CASE JoinVideoRoom
  <2>1. <<NoFeed>> \in Seq(Feeds \cup {NoFeed})
      OBVIOUS
  <2>2. QED
      BY <1>1, <1>4, <2>1, NewPeersFind DEF JoinVideoRoom
<1>5. CASE VMLeaveVideoRoom
    BY <1>5 DEF FindsOrLeft, VMLeaveVideoRoom
<1>6. ASSUME NEW c \in callbacks, onAttachVideoRoomJoin(c)
      PROVE  FindsOrLeft
  <2>1. c.block \in Blocks /\ peers \in [Blocks -> Peer \cup FreedBlock]
      BY <1>1 DEF VMTypeOK, Callback
  <2>2. /\ callbacks' = callbacks \ {c}
        /\ peers' = [peers EXCEPT ![c.block].handle = c.tran]
      BY <1>6 DEF onAttachVideoRoomJoin
  <2>3. \A b \in Blocks : ~Freed(b) => peers'[b].tran = peers[b].tran
    <3> SUFFICES ASSUME NEW b \in Blocks, ~Freed(b)
                 PROVE  peers'[b].tran = peers[b].tran
        OBVIOUS
    <3>1. peers[b] \in Peer
        BY <1>1, BlockTypes
    <3>2. QED
        BY <2>1, <2>2, <3>1 DEF Peer
  <2>4. QED
      BY <1>2, <2>2, <2>3
<1>7. ASSUME NEW h \in PluginHandles, NEW feeds \in SUBSET Feeds,
             onVideoRoomEventJoin(h, feeds)
      PROVE  FindsOrLeft
    BY <1>1, <1>7, OrdersAreSeqs, NewPeersFind DEF onVideoRoomEventJoin
<1>8. ASSUME NEW h \in PluginHandles, NEW f \in Feeds, onVideoRoomEventPublisher(h, f)
      PROVE  FindsOrLeft
  <2>1. <<f>> \in Seq(Feeds \cup {NoFeed})
      OBVIOUS
  <2>2. QED
      BY <1>1, <1>8, <2>1, NewPeersFind DEF onVideoRoomEventPublisher
<1>9. ASSUME NEW h \in PluginHandles, NEW f \in Feeds, onVideoRoomEventUnpublish(h, f)
      PROVE  FindsOrLeft
    BY <1>2, <1>9 DEF onVideoRoomEventUnpublish, DropPeer
<1>10. ASSUME NEW h \in PluginHandles, NEW type, EventSdp(h, type) \/ SendSDP(h)
       PROVE  FindsOrLeft
    BY <1>2, <1>10 DEF EventSdp, SendSDP
<1>11. CASE onCreateSessionId
    BY <1>2, <1>11 DEF onCreateSessionId
<1>12. QED
    BY <1>3, <1>4, <1>5, <1>6, <1>7, <1>8, <1>9, <1>10, <1>11 DEF VMNext, ServerStep

\* An answer to an attach runs on the very peer that asked, unless the user left the
\* room in between.
THEOREM AnswersFindTheirPeers == VMSpec => CallbackFindsItsPeer
<1>1. VMInv /\ [VMNext]_vmVars => [FindsOrLeft]_vmVars
    BY StepFinds
<1>2. VMSpec => [][FindsOrLeft]_vmVars
    BY <1>1, AlwaysVMInv, PTL DEF VMSpec
<1>3. QED
    BY <1>2 DEF CallbackFindsItsPeer, FindsOrLeft
=============================================================================
