-------------------------- MODULE SubscriptionProof --------------------------
(***************************************************************************)
(* JanusVideoRoomManager implements Roster, for any memory, feeds, number  *)
(* of attach requests and either build; what Roster promises then holds of *)
(* the manager's list.                                                     *)
(***************************************************************************)
EXTENDS Subscription, JanusVideoRoomManagerProof

LEMMA InitSub == SubInit => VMInv
BY EmptyIsSound DEF SubInit

LEMMA SubIsVM == [SubNext]_subVars => [VMNext]_vmVars
BY DEF SubNext, Lost, Left, Goes, VMNext, subVars, vmVars

LEMMA AlwaysSubInv == SubSpec => []VMInv
BY InitSub, SubIsVM, StepVMInv, PTL DEF SubSpec

-----------------------------------------------------------------------------
(* Counting.                                                               *)

LEMMA CountsAreFinite ==
    ASSUME VMTypeOK, NEW f
    PROVE  /\ IsFiniteSet(Subscribers(f)) /\ Cardinality(Subscribers(f)) \in Nat
           /\ IsFiniteSet(ToldOf(f)) /\ Cardinality(ToldOf(f)) \in Nat
<1>1. DOMAIN mVideoRoomPeerList = 1..Len(mVideoRoomPeerList) /\ Len(mVideoRoomPeerList) \in Nat
    BY ListedBlocks
<1>2. IsFiniteSet(1..Len(mVideoRoomPeerList)) /\ IsFiniteSet(1..MaxAttach)
    BY <1>1, RoomAssumption, FS_Interval
<1>3. Subscribers(f) \in SUBSET (1..Len(mVideoRoomPeerList)) /\ ToldOf(f) \in SUBSET (1..MaxAttach)
    BY <1>1 DEF Subscribers, ToldOf, PluginHandles
<1>4. IsFiniteSet(Subscribers(f)) /\ IsFiniteSet(ToldOf(f))
    BY <1>2, <1>3, FS_Subset
<1>5. QED
    BY <1>4, FS_CardinalityType

\* One position more for every entry of subs that is f.
LEMMA NewSubscribers ==
    ASSUME VMInv, NEW subs \in Seq(Feeds \cup {NoFeed}), NewPeers(subs), NEW f \in Feeds
    PROVE  LET n == Len(mVideoRoomPeerList)
           IN  Subscribers(f)' = Subscribers(f) \cup {n + i : i \in {j \in 1..Len(subs) : subs[j] = f}}
<1> DEFINE L == mVideoRoomPeerList
           n == Len(L)
           k == Len(subs)
<1>1. VMTypeOK
    BY DEF VMInv
<1>2. /\ n \in Nat /\ DOMAIN L = 1..n /\ L \in Seq(Blocks)
      /\ \A i \in 1..n : L[i] \in Blocks /\ ~Freed(L[i])
  <2>1. \A b \in Listed : ~Freed(b)
      BY DEF VMInv, ListSound
  <2>2. QED
      BY <1>1, <2>1, ListedBlocks DEF VMTypeOK
<1>3. k \in Nat /\ \E bs : Made(bs, subs)
    BY <1>1, NewPeersMade
<1>4. PICK bs : Made(bs, subs)
    BY <1>3
<1>5. /\ bs \in Seq(Blocks) /\ Len(bs) = k /\ L' = L \o bs
      /\ \A i \in 1..k : bs[i] \in Blocks /\ Freed(bs[i]) /\ peers'[bs[i]].sub = subs[i]
  <2>1. bs \in Seq(Blocks) /\ Len(bs) = k /\ L' = L \o bs /\ \A i \in 1..k : Freed(bs[i])
      BY <1>4 DEF Made
  <2>2. \A i \in 1..k : peers'[bs[i]] = [tran |-> attaches + i, handle |-> peers[bs[i]].handle,
                                         sub |-> subs[i], live |-> session = "live"]
      BY <1>4 DEF Made
  <2>3. \A i \in 1..k : bs[i] \in Blocks
      BY <1>3, <2>1
  <2>4. \A i \in 1..k : peers'[bs[i]].sub = subs[i]
    <3> TAKE i \in 1..k
    <3>1. peers'[bs[i]] = [tran |-> attaches + i, handle |-> peers[bs[i]].handle,
                           sub |-> subs[i], live |-> session = "live"]
        BY <2>2
    <3>2. QED
        BY <3>1
  <2>5. QED
      BY <2>1, <2>3, <2>4
<1>6. \A b \in Blocks : ~Freed(b) => peers'[b] = peers[b]
  <2> SUFFICES ASSUME NEW b \in Blocks, ~Freed(b) PROVE peers'[b] = peers[b]
      OBVIOUS
  <2>1. \A i \in 1..k : bs[i] # b
      BY <1>5
  <2>2. QED
      BY <1>4, <2>1, Zenon DEF Made
<1>7. /\ DOMAIN L' = 1..(n + k)
      /\ \A i \in 1..n : L'[i] = L[i]
      /\ \A i \in 1..k : L'[n + i] = bs[i]
  <2>1. L \in Seq(Blocks) /\ bs \in Seq(Blocks) /\ L' = L \o bs /\ Len(bs) = k
      BY <1>2, <1>5
  <2>2. /\ L \o bs \in Seq(Blocks) /\ Len(L \o bs) = n + k
        /\ \A i \in 1..(n + k) : (L \o bs)[i] = IF i <= n THEN L[i] ELSE bs[i - n]
    <3>1. /\ L \o bs \in Seq(Blocks) /\ Len(L \o bs) = Len(L) + Len(bs)
          /\ \A i \in 1..(Len(L) + Len(bs)) :
                (L \o bs)[i] = IF i <= Len(L) THEN L[i] ELSE bs[i - Len(L)]
        BY <2>1, ConcatProperties, Zenon
    <3>2. QED
        BY <2>1, <3>1, Zenon
  <2> HIDE DEF n, k, L
  <2>3. DOMAIN L' = 1..(n + k)
    <3>1. DOMAIN (L \o bs) = 1..Len(L \o bs)
        BY <2>2, LenProperties
    <3>2. QED
        BY <2>1, <2>2, <3>1
  <2>4. \A i \in 1..n : L'[i] = L[i]
      BY <1>2, <1>3, <2>1, <2>2
  <2>5. \A i \in 1..k : L'[n + i] = bs[i]
    <3> TAKE i \in 1..k
    <3>1. n + i \in 1..(n + k) /\ ~(n + i <= n) /\ (n + i) - n = i
        BY <1>2, <1>3
    <3>2. QED
        BY <2>1, <2>2, <3>1
  <2>6. QED
      BY <2>3, <2>4, <2>5
<1> HIDE DEF n, k
<1>8. \A i \in 1..n : i \in Subscribers(f)' <=> i \in Subscribers(f)
  <2> TAKE i \in 1..n
  <2>1. i \in 1..(n + k)
      BY <1>2, <1>3
  <2>2. peers'[L'[i]].sub = peers[L[i]].sub
      BY <1>2, <1>6, <1>7
  <2>3. QED
      BY <1>2, <1>7, <2>1, <2>2 DEF Subscribers
<1>9. \A i \in 1..k : n + i \in Subscribers(f)' <=> subs[i] = f
  <2> TAKE i \in 1..k
  <2>1. n + i \in 1..(n + k)
      BY <1>2, <1>3
  <2>2. QED
      BY <1>5, <1>7, <2>1 DEF Subscribers
<1>10. Subscribers(f)' \subseteq 1..(n + k) /\ Subscribers(f) \subseteq 1..n
    BY <1>2, <1>7 DEF Subscribers
<1> DEFINE New == {n + i : i \in {j \in 1..k : subs[j] = f}}
<1>11. \A x \in 1..(n + k) : x \in 1..n \/ \E i \in 1..k : x = n + i
  <2> TAKE x \in 1..(n + k)
  <2>1. CASE x <= n
      BY <1>2, <1>3, <2>1
  <2>2. CASE ~(x <= n)
    <3>1. x - n \in 1..k /\ x = n + (x - n)
        BY <1>2, <1>3, <2>2
    <3>2. QED
        BY <3>1
  <2>3. QED
      BY <2>1, <2>2
<1>12. ASSUME NEW x \in Subscribers(f)' PROVE x \in Subscribers(f) \cup New
    BY <1>8, <1>9, <1>10, <1>11
<1>13. ASSUME NEW x \in Subscribers(f) \cup New PROVE x \in Subscribers(f)'
  <2>1. CASE x \in Subscribers(f)
      BY <1>8, <1>10, <2>1
  <2>2. CASE x \in New
      BY <1>9, <2>2
  <2>3. QED
      BY <2>1, <2>2
<1>14. Subscribers(f)' = Subscribers(f) \cup New
    BY <1>12, <1>13
<1>15. QED
    BY <1>14 DEF n, k, L

\* The count of f goes up by one if f is in subs once, and stays if it is not.
LEMMA NewSubscribersCount ==
    ASSUME VMInv, NEW subs \in Seq(Feeds \cup {NoFeed}), NewPeers(subs), NEW f \in Feeds,
           \A i, j \in 1..Len(subs) : subs[i] = subs[j] => i = j
    PROVE  Cardinality(Subscribers(f)') =
             IF \E i \in 1..Len(subs) : subs[i] = f
             THEN Cardinality(Subscribers(f)) + 1 ELSE Cardinality(Subscribers(f))
<1> DEFINE n == Len(mVideoRoomPeerList)
           k == Len(subs)
<1>1. VMTypeOK /\ n \in Nat /\ k \in Nat /\ DOMAIN mVideoRoomPeerList = 1..n
    BY ListedBlocks, NewPeersMade DEF VMInv
<1>2. Subscribers(f)' = Subscribers(f) \cup {n + i : i \in {j \in 1..k : subs[j] = f}}
    BY NewSubscribers
<1> HIDE DEF k
<1>3. CASE \E i \in 1..k : subs[i] = f
  <2>1. PICK i \in 1..k : subs[i] = f
      BY <1>3
  <2>2. {j \in 1..k : subs[j] = f} = {i}
      BY <2>1 DEF k
  <2>3. Subscribers(f)' = Subscribers(f) \cup {n + i}
      BY <1>2, <2>2
  <2>4. n + i \notin Subscribers(f)
      BY <1>1 DEF Subscribers
  <2>5. IsFiniteSet(Subscribers(f))
      BY <1>1, CountsAreFinite
  <2>6. QED
      BY <1>3, <2>3, <2>4, <2>5, FS_AddElement DEF k
<1>4. CASE ~\E i \in 1..k : subs[i] = f
  <2>1. {j \in 1..k : subs[j] = f} = {}
      BY <1>4
  <2>2. Subscribers(f)' = Subscribers(f)
      BY <1>2, <2>1
  <2>3. QED
      BY <1>4, <2>2 DEF k
<1>5. QED
    BY <1>3, <1>4

\* Entry i leaves the list: whoever subscribed there is one fewer.
LEMMA UnlistCount ==
    ASSUME VMTypeOK, NEW i \in DOMAIN mVideoRoomPeerList,
           mVideoRoomPeerList' = Unlist(i), UNCHANGED peers, NEW f
    PROVE  Cardinality(Subscribers(f)') = Cardinality(Subscribers(f) \ {i})
<1> DEFINE L == mVideoRoomPeerList
           n == Len(L)
           S == Subscribers(f) \ {i}
           T == Subscribers(f)'
           shift == [j \in S |-> IF j < i THEN j ELSE j - 1]
<1>1. n \in Nat /\ DOMAIN L = 1..n /\ i \in 1..n
    BY ListedBlocks
<1>2. /\ DOMAIN L' = 1..(n - 1)
      /\ \A j \in 1..(n - 1) : L'[j] = IF j < i THEN L[j] ELSE L[j + 1]
    BY UnlistShifts
<1>3. S \subseteq 1..n /\ \A j \in 1..n : j \in S <=> j # i /\ peers[L[j]].sub = f
    BY <1>1 DEF Subscribers
<1>4. T \subseteq 1..(n - 1) /\ \A j \in 1..(n - 1) : j \in T <=> peers[L'[j]].sub = f
    BY <1>2 DEF Subscribers
<1> HIDE DEF S, T, n, L
<1>5. \A j \in S : shift[j] \in T
  <2> TAKE j \in S
  <2>1. j \in 1..n /\ j # i /\ peers[L[j]].sub = f
      BY <1>3
  <2>2. CASE j < i
    <3>1. j \in 1..(n - 1) /\ L'[j] = L[j] /\ shift[j] = j
        BY <1>1, <1>2, <2>1, <2>2
    <3>2. QED
        BY <1>4, <2>1, <3>1
  <2>3. CASE ~(j < i)
    <3>1. j - 1 \in 1..(n - 1) /\ ~(j - 1 < i) /\ (j - 1) + 1 = j /\ shift[j] = j - 1
        BY <1>1, <2>1, <2>3
    <3>2. L'[j - 1] = L[j]
        BY <1>2, <3>1
    <3>3. QED
        BY <1>4, <2>1, <3>1, <3>2
  <2>4. QED
      BY <2>2, <2>3
<1>6. \A j, m \in S : shift[j] = shift[m] => j = m
    BY <1>1, <1>3
<1>7. \A t \in T : \E j \in S : shift[j] = t
  <2> TAKE t \in T
  <2>1. t \in 1..(n - 1) /\ peers[L'[t]].sub = f
      BY <1>4
  <2>2. CASE t < i
    <3>1. t \in S /\ shift[t] = t
        BY <1>1, <1>2, <1>3, <2>1, <2>2
    <3>2. QED
        BY <3>1
  <2>3. CASE ~(t < i)
    <3>1. t + 1 \in 1..n /\ t + 1 # i /\ ~(t + 1 < i) /\ (t + 1) - 1 = t
        BY <1>1, <2>1, <2>3
    <3>2. t + 1 \in S
        BY <1>2, <1>3, <2>1, <2>3, <3>1
    <3>3. QED
        BY <3>1, <3>2
  <2>4. QED
      BY <2>2, <2>3
<1>8. shift \in [S -> T]
    BY <1>5
<1> HIDE DEF shift
<1>9. shift \in Bijection(S, T)
    BY <1>6, <1>7, <1>8 DEF Bijection, Injection, Surjection, IsInjective
<1>10. ExistsBijection(S, T)
    BY <1>9 DEF ExistsBijection
<1>11. IsFiniteSet(S)
    BY CountsAreFinite, FS_Difference DEF S
<1>12. QED
    BY <1>10, <1>11, FS_Bijection DEF S, T

\* What handle h was told of changes the count of one feed by one, or of none.
LEMMA ToldChanges ==
    ASSUME VMTypeOK, NEW h \in PluginHandles, NEW r \in Handle,
           srv' = [srv EXCEPT ![h] = r], NEW f
    PROVE  ToldOf(f)' = IF f \in r.known THEN ToldOf(f) \cup {h} ELSE ToldOf(f) \ {h}
<1>1. srv \in [PluginHandles -> Handle \cup {Unknown}]
    BY DEF VMTypeOK
<1>2. srv'[h] = r /\ r # Unknown /\ \A g \in PluginHandles : g # h => srv'[g] = srv[g]
    BY <1>1, UnknownIsNone
<1>3. QED
    BY <1>2 DEF ToldOf, Known

-----------------------------------------------------------------------------
(* Each step of the manager is one of Roster, or changes no count.         *)

ToldFn == [f \in Feeds |-> Cardinality(ToldOf(f))]

LEMMA JoinedAnnounces ==
    ASSUME VMInv, NEW h \in PluginHandles, NEW feeds \in SUBSET Feeds,
           onVideoRoomEventJoin(h, feeds)
    PROVE  RosterOf' = R!More(RosterOf, feeds) /\ ToldFn' = R!More(ToldFn, feeds)
<1>1. VMTypeOK
    BY DEF VMInv
<1>2. PICK subs \in Orders(feeds) : NewPeers(subs)
    BY DEF onVideoRoomEventJoin
<1>3. \A f \in Feeds : Cardinality(Subscribers(f)') =
          IF f \in feeds THEN Cardinality(Subscribers(f)) + 1 ELSE Cardinality(Subscribers(f))
    BY <1>2, OrdersAreSeqs, NewSubscribersCount
<1>4. \A f \in Feeds : Cardinality(ToldOf(f)') =
          IF f \in feeds THEN Cardinality(ToldOf(f)) + 1 ELSE Cardinality(ToldOf(f))
  <2> TAKE f \in Feeds
  <2> DEFINE r == [srv[h] EXCEPT !.known = feeds, !.phase = "joined"]
  <2>1. srv' = [srv EXCEPT ![h] = r] /\ r \in Handle /\ r.known = feeds /\ srv[h].known = {}
      BY EventJoinSrv DEF Handle
  <2> HIDE DEF r
  <2>2. h \notin ToldOf(f)
      BY <2>1 DEF ToldOf
  <2>3. ToldOf(f)' = IF f \in feeds THEN ToldOf(f) \cup {h} ELSE ToldOf(f)
    <3>1. ToldOf(f)' = IF f \in r.known THEN ToldOf(f) \cup {h} ELSE ToldOf(f) \ {h}
        BY <1>1, <2>1, ToldChanges
    <3>2. ToldOf(f) \ {h} = ToldOf(f)
        BY <2>2
    <3>3. QED
        BY <2>1, <3>1, <3>2
  <2>4. IsFiniteSet(ToldOf(f))
      BY <1>1, CountsAreFinite
  <2>5. Cardinality(ToldOf(f) \cup {h}) =
          IF h \in ToldOf(f) THEN Cardinality(ToldOf(f)) ELSE Cardinality(ToldOf(f)) + 1
      BY <2>4, FS_AddElement
  <2>6. QED
      BY <2>2, <2>3, <2>5
<1>5. QED
    BY <1>3, <1>4 DEF RosterOf, ToldFn, R!More

LEMMA PublisherAnnounces ==
    ASSUME VMInv, NEW h \in PluginHandles, NEW p \in Feeds,
           onVideoRoomEventPublisher(h, p)
    PROVE  RosterOf' = R!More(RosterOf, {p}) /\ ToldFn' = R!More(ToldFn, {p})
<1>1. VMTypeOK
    BY DEF VMInv
<1>2. <<p>> \in Seq(Feeds \cup {NoFeed}) /\ Len(<<p>>) = 1 /\ <<p>>[1] = p /\ NewPeers(<<p>>)
    BY DEF onVideoRoomEventPublisher
<1>3. \A f \in Feeds : Cardinality(Subscribers(f)') =
          IF f \in {p} THEN Cardinality(Subscribers(f)) + 1 ELSE Cardinality(Subscribers(f))
  <2> TAKE f \in Feeds
  <2>1. (\E i \in 1..Len(<<p>>) : <<p>>[i] = f) <=> f \in {p}
      BY <1>2
  <2>2. \A i, j \in 1..Len(<<p>>) : <<p>>[i] = <<p>>[j] => i = j
      BY <1>2
  <2>3. Cardinality(Subscribers(f)') = IF \E i \in 1..Len(<<p>>) : <<p>>[i] = f
             THEN Cardinality(Subscribers(f)) + 1 ELSE Cardinality(Subscribers(f))
      BY <1>2, <2>2, NewSubscribersCount
  <2>4. QED
      BY <2>1, <2>3
<1>4. \A f \in Feeds : Cardinality(ToldOf(f)') =
          IF f \in {p} THEN Cardinality(ToldOf(f)) + 1 ELSE Cardinality(ToldOf(f))
  <2> TAKE f \in Feeds
  <2> DEFINE r == [srv[h] EXCEPT !.known = srv[h].known \cup {p}, !.phase = srv[h].phase]
  <2>1. /\ srv' = [srv EXCEPT ![h] = r] /\ r \in Handle /\ r.known = srv[h].known \cup {p}
        /\ p \notin srv[h].known /\ Known(h)
      BY EventPublisherSrv DEF Handle, onVideoRoomEventPublisher
  <2> HIDE DEF r
  <2>2. ToldOf(f)' = IF f = p THEN ToldOf(f) \cup {h} ELSE ToldOf(f)
    <3>1. ToldOf(f)' = IF f \in r.known THEN ToldOf(f) \cup {h} ELSE ToldOf(f) \ {h}
        BY <1>1, <2>1, ToldChanges
    <3>2. CASE f = p
        BY <2>1, <3>1, <3>2
    <3>3. CASE f # p /\ f \in srv[h].known
      <4>1. h \in ToldOf(f)
          BY <2>1, <3>3 DEF ToldOf
      <4>2. QED
          BY <2>1, <3>1, <3>3, <4>1
    <3>4. CASE f # p /\ f \notin srv[h].known
      <4>1. h \notin ToldOf(f)
          BY <3>4 DEF ToldOf
      <4>2. QED
          BY <2>1, <3>1, <3>4, <4>1
    <3>5. QED
        BY <3>2, <3>3, <3>4
  <2>3. f = p => h \notin ToldOf(f)
      BY <2>1 DEF ToldOf
  <2>4. IsFiniteSet(ToldOf(f))
      BY <1>1, CountsAreFinite
  <2>5. Cardinality(ToldOf(f) \cup {h}) =
          IF h \in ToldOf(f) THEN Cardinality(ToldOf(f)) ELSE Cardinality(ToldOf(f)) + 1
      BY <2>4, FS_AddElement
  <2>6. QED
      BY <2>2, <2>3, <2>5
<1>5. QED
    BY <1>3, <1>4 DEF RosterOf, ToldFn, R!More

LEMMA UnpublishWithdraws ==
    ASSUME VMInv, NEW h \in PluginHandles, NEW p \in Feeds,
           onVideoRoomEventUnpublish(h, p)
    PROVE  /\ ToldFn[p] > 0
           /\ ToldFn' = [ToldFn EXCEPT ![p] = @ - 1]
           /\ RosterOf' = [RosterOf EXCEPT ![p] = IF @ > 0 THEN @ - 1 ELSE 0]
<1>1. VMTypeOK
    BY DEF VMInv
<1>2. \A f \in Feeds : Cardinality(ToldOf(f)') =
          IF f = p THEN Cardinality(ToldOf(f)) - 1 ELSE Cardinality(ToldOf(f))
  <2> TAKE f \in Feeds
  <2> DEFINE r == [srv[h] EXCEPT !.known = srv[h].known \ {p}, !.phase = srv[h].phase]
  <2>1. /\ srv' = [srv EXCEPT ![h] = r] /\ r \in Handle /\ r.known = srv[h].known \ {p}
        /\ p \in srv[h].known /\ Known(h)
      BY EventUnpublishSrv DEF Handle, onVideoRoomEventUnpublish
  <2> HIDE DEF r
  <2>2. ToldOf(f)' = IF f \in r.known THEN ToldOf(f) \cup {h} ELSE ToldOf(f) \ {h}
      BY <1>1, <2>1, ToldChanges
  <2>3. h \in ToldOf(f) <=> f \in srv[h].known
      BY <2>1 DEF ToldOf
  <2>4. CASE f = p
    <3>1. ToldOf(f)' = ToldOf(f) \ {h} /\ h \in ToldOf(f)
        BY <2>1, <2>2, <2>3, <2>4
    <3>2. IsFiniteSet(ToldOf(f))
        BY <1>1, CountsAreFinite
    <3>3. QED
        BY <2>4, <3>1, <3>2, FS_RemoveElement
  <2>5. CASE f # p
    <3>1. ToldOf(f)' = ToldOf(f)
        BY <2>1, <2>2, <2>3, <2>5
    <3>2. QED
        BY <2>5, <3>1
  <2>6. QED
      BY <2>4, <2>5
<1>3. Cardinality(ToldOf(p)) > 0
  <2>1. h \in ToldOf(p)
      BY DEF onVideoRoomEventUnpublish, ToldOf
  <2>2. IsFiniteSet(ToldOf(p)) /\ Cardinality(ToldOf(p)) \in Nat
      BY <1>1, CountsAreFinite
  <2>3. Cardinality(ToldOf(p)) # 0
      BY <2>1, <2>2, FS_EmptySet
  <2>4. QED
      BY <2>2, <2>3
<1>4. \A f \in Feeds : Cardinality(Subscribers(f)') =
          IF f = p /\ Cardinality(Subscribers(f)) > 0
          THEN Cardinality(Subscribers(f)) - 1 ELSE Cardinality(Subscribers(f))
  <2> TAKE f \in Feeds
  <2>1. IsFiniteSet(Subscribers(f)) /\ Cardinality(Subscribers(f)) \in Nat
      BY <1>1, CountsAreFinite
  <2>2. CASE SubscriberIndex(p) = 0
    <3>1. Subscribers(f)' = Subscribers(f)
        BY <2>2 DEF onVideoRoomEventUnpublish, Subscribers
    <3>2. f = p => Subscribers(f) = {}
        BY <1>1, <2>2, SubscriberIndexFinds DEF Subscribers
    <3>3. f = p => Cardinality(Subscribers(f)) = 0
        BY <3>2, FS_EmptySet
    <3>4. QED
        BY <2>1, <3>1, <3>3
  <2>3. CASE SubscriberIndex(p) # 0
    <3> DEFINE i == SubscriberIndex(p)
    <3>1. i \in DOMAIN mVideoRoomPeerList /\ peers[mVideoRoomPeerList[i]].sub = p
        BY <1>1, <2>3, SubscriberIndexFinds
    <3>2. mVideoRoomPeerList' = Unlist(i) /\ UNCHANGED peers
        BY <2>3 DEF onVideoRoomEventUnpublish, DropPeer
    <3> HIDE DEF i
    <3>3. Cardinality(Subscribers(f)') = Cardinality(Subscribers(f) \ {i})
        BY <1>1, <3>1, <3>2, UnlistCount
    <3>4. i \in Subscribers(f) <=> f = p
        BY <3>1 DEF Subscribers
    <3>5. Cardinality(Subscribers(f) \ {i}) =
            IF f = p THEN Cardinality(Subscribers(f)) - 1 ELSE Cardinality(Subscribers(f))
        BY <2>1, <3>4, FS_RemoveElement
    <3>6. f = p => Cardinality(Subscribers(f)) # 0
        BY <2>1, <3>4, FS_EmptySet
    <3>7. QED
        BY <2>1, <3>3, <3>5, <3>6
  <2>4. QED
      BY <2>2, <2>3
<1>5. Cardinality(Subscribers(p)) \in Nat
    BY <1>1, CountsAreFinite
<1>6. ToldFn' = [ToldFn EXCEPT ![p] = @ - 1] /\ ToldFn[p] > 0
    BY <1>2, <1>3 DEF ToldFn
<1>7. RosterOf' = [RosterOf EXCEPT ![p] = IF @ > 0 THEN @ - 1 ELSE 0]
  <2> DEFINE new == [f \in Feeds |-> Cardinality(Subscribers(f)')]
             old == [f \in Feeds |-> Cardinality(Subscribers(f))]
             c == IF old[p] > 0 THEN old[p] - 1 ELSE 0
  <2>1. \A f \in Feeds : new[f] = IF f = p THEN c ELSE old[f]
      BY <1>4, <1>5
  <2>2. RosterOf' = new /\ RosterOf = old
      BY DEF RosterOf
  <2> HIDE DEF c
  <2>3. new = [old EXCEPT ![p] = c]
      BY <2>1
  <2>4. QED
      BY <2>2, <2>3 DEF c
<1>8. QED
    BY <1>6, <1>7

\* Answers, descriptions and our own joins change no count.
LEMMA OthersKeepCounts ==
    ASSUME VMInv,
           \/ JoinVideoRoom \/ onCreateSessionId
           \/ \E c \in callbacks : onAttachVideoRoomJoin(c)
           \/ \E h \in PluginHandles :
                SendSDP(h) \/ \E type \in {"offer", "answer"} : EventSdp(h, type)
    PROVE  RosterOf' = RosterOf /\ ToldFn' = ToldFn
<1>1. VMTypeOK
    BY DEF VMInv
<1>2. ASSUME NEW h \in PluginHandles, Known(h), NEW p, srv' = [srv EXCEPT ![h].phase = p]
      PROVE  \A f : ToldOf(f)' = ToldOf(f)
  <2>1. srv[h] \in Handle /\ srv \in [PluginHandles -> Handle \cup {Unknown}]
      BY <1>1, <1>2, KnownHandle DEF VMTypeOK
  <2>2. /\ srv'[h] = [srv[h] EXCEPT !.phase = p]
        /\ \A g \in PluginHandles : g # h => srv'[g] = srv[g]
      BY <1>2, <2>1
  <2>3. srv'[h].known = srv[h].known /\ srv'[h].role = srv[h].role /\ srv[h].role # "none"
      BY <2>1, <2>2 DEF Handle
  <2>4. srv'[h] # Unknown
      BY <2>3 DEF Unknown
  <2>5. QED
      BY <1>2, <2>2, <2>3, <2>4 DEF ToldOf, Known
<1>3. CASE JoinVideoRoom
  <2>1. <<NoFeed>> \in Seq(Feeds \cup {NoFeed}) /\ Len(<<NoFeed>>) = 1 /\ <<NoFeed>>[1] = NoFeed
      OBVIOUS
  <2>2. \A f \in Feeds : Cardinality(Subscribers(f)') = Cardinality(Subscribers(f))
    <3> TAKE f \in Feeds
    <3>1. ~\E i \in 1..Len(<<NoFeed>>) : <<NoFeed>>[i] = f
        BY <2>1, RoomAssumption
    <3>2. \A i, j \in 1..Len(<<NoFeed>>) : <<NoFeed>>[i] = <<NoFeed>>[j] => i = j
        BY <2>1
    <3>3. QED
        BY <1>3, <2>1, <3>1, <3>2, NewSubscribersCount DEF JoinVideoRoom
  <2>3. \A f : ToldOf(f)' = ToldOf(f)
      BY <1>3 DEF JoinVideoRoom, ToldOf, Known
  <2>4. QED
      BY <2>2, <2>3 DEF RosterOf, ToldFn
<1>4. CASE onCreateSessionId
    BY <1>4 DEF onCreateSessionId, RosterOf, ToldFn, Subscribers, ToldOf, Known
<1>5. ASSUME NEW c \in callbacks, onAttachVideoRoomJoin(c)
      PROVE  RosterOf' = RosterOf /\ ToldFn' = ToldFn
  <2>1. /\ c.tran \in PluginHandles /\ c.block \in Blocks
        /\ peers \in [Blocks -> Peer \cup FreedBlock]
        /\ srv \in [PluginHandles -> Handle \cup {Unknown}]
      BY <1>1 DEF VMTypeOK, Callback
  <2>2. \A b \in Blocks : ~Freed(b) => peers'[b].sub = peers[b].sub
    <3> SUFFICES ASSUME NEW b \in Blocks, ~Freed(b) PROVE peers'[b].sub = peers[b].sub
        OBVIOUS
    <3>1. peers[b] \in Peer
        BY <1>1, BlockTypes
    <3>2. peers' = [peers EXCEPT ![c.block].handle = c.tran]
        BY <1>5 DEF onAttachVideoRoomJoin
    <3>3. QED
        BY <2>1, <3>1, <3>2 DEF Peer
  <2>3. \A f : Subscribers(f)' = Subscribers(f)
    <3>1. \A i \in DOMAIN mVideoRoomPeerList :
            mVideoRoomPeerList[i] \in Blocks /\ ~Freed(mVideoRoomPeerList[i])
        BY <1>1, ListedBlocks DEF VMInv, ListSound
    <3>2. UNCHANGED mVideoRoomPeerList
        BY <1>5 DEF onAttachVideoRoomJoin
    <3>3. QED
        BY <2>2, <3>1, <3>2 DEF Subscribers
  <2>4. ~Known(c.tran)
      BY DEF VMInv, AnsweredOnce
  <2>5. \A f : ToldOf(f)' = ToldOf(f)
    <3>1. CASE UNCHANGED srv
        BY <3>1 DEF ToldOf, Known
    <3>2. CASE ~UNCHANGED srv
      <4>1. PICK r : srv' = [srv EXCEPT ![c.tran] = r] /\ r.known = {}
          BY <1>5, <3>2 DEF onAttachVideoRoomJoin, joinVideoRoom
      <4>2. QED
          BY <2>1, <2>4, <4>1 DEF ToldOf, Known
    <3>3. QED
        BY <3>1, <3>2
  <2>6. QED
      BY <2>3, <2>5 DEF RosterOf, ToldFn
<1>6. ASSUME NEW h \in PluginHandles,
             SendSDP(h) \/ \E type \in {"offer", "answer"} : EventSdp(h, type)
      PROVE  RosterOf' = RosterOf /\ ToldFn' = ToldFn
  <2>1. UNCHANGED <<peers, mVideoRoomPeerList>>
      BY <1>6 DEF SendSDP, EventSdp
  <2>2. RosterOf' = RosterOf
      BY <2>1 DEF RosterOf, Subscribers
  <2>3. CASE UNCHANGED srv
      BY <2>2, <2>3 DEF ToldFn, ToldOf, Known
  <2>4. CASE ~UNCHANGED srv
    <3>1. Known(h) /\ \E p : srv' = [srv EXCEPT ![h].phase = p]
      <4>1. CASE SendSDP(h)
        <5> DEFINE p == IF srv[h].role = "publisher"
                        THEN IF srv[h].phase \in {"joined", "answered"} THEN "offered" ELSE srv[h].phase
                        ELSE IF srv[h].phase = "offering" THEN "started" ELSE srv[h].phase
        <5>1. Known(h) /\ srv' = [srv EXCEPT ![h].phase = p]
          <6>1. srv \in [PluginHandles -> Handle \cup {Unknown}]
              BY <1>1 DEF VMTypeOK
          <6>2. QED
              BY <2>4, <4>1, <6>1 DEF SendSDP
        <5>2. QED
            BY <5>1
      <4>2. CASE \E type \in {"offer", "answer"} : EventSdp(h, type)
          BY <4>2 DEF EventSdp
      <4>3. QED
          BY <1>6, <4>1, <4>2
    <3>2. \A f : ToldOf(f)' = ToldOf(f)
        BY <1>2, <3>1
    <3>3. QED
        BY <2>2, <3>2 DEF ToldFn
  <2>5. QED
      BY <2>3, <2>4
<1>7. QED
    BY <1>3, <1>4, <1>5, <1>6

LEMMA NobodySubscribes ==
    ASSUME mVideoRoomPeerList = <<>>
    PROVE  RosterOf = R!NoneAtAll
<1>1. \A f : Subscribers(f) = {}
    BY DEF Subscribers
<1>2. QED
    BY <1>1, FS_EmptySet DEF RosterOf, R!NoneAtAll

LEMMA NobodyTold ==
    ASSUME srv = [h \in PluginHandles |-> Unknown]
    PROVE  ToldFn = R!NoneAtAll
<1>1. \A f : ToldOf(f) = {}
    BY DEF ToldOf, Known
<1>2. QED
    BY <1>1, FS_EmptySet DEF ToldFn, R!NoneAtAll

\* A lost session: the subscriptions stay, the announcements go.
LEMMA LosesAnnouncements ==
    ASSUME VMInv, LosesSession
    PROVE  RosterOf' = RosterOf /\ ToldFn' = R!NoneAtAll
<1>1. SessionGone
    BY DEF LosesSession, ConnectServer, onSocketDisConnected
<1>2. \A b \in Blocks : ~Freed(b) => peers'[b].sub = peers[b].sub
  <2> SUFFICES ASSUME NEW b \in Blocks, ~Freed(b) PROVE peers'[b].sub = peers[b].sub
      OBVIOUS
  <2>1. peers[b] \in Peer
      BY BlockTypes DEF VMInv
  <2>2. peers'[b] = [peers[b] EXCEPT !.live = FALSE]
      BY <1>1 DEF SessionGone
  <2>3. QED
      BY <2>1, <2>2 DEF Peer
<1>3. \A i \in DOMAIN mVideoRoomPeerList :
        mVideoRoomPeerList[i] \in Blocks /\ ~Freed(mVideoRoomPeerList[i])
    BY ListedBlocks DEF VMInv, ListSound
<1>4. \A f : Subscribers(f)' = Subscribers(f)
    BY <1>1, <1>2, <1>3 DEF Subscribers, SessionGone
<1>5. \A f : ToldOf(f)' = {}
    BY <1>1 DEF SessionGone, ToldOf, Known
<1>6. QED
    BY <1>4, <1>5, FS_EmptySet DEF RosterOf, ToldFn, R!NoneAtAll

LEMMA StepRefines ==
    ASSUME VMInv, [SubNext]_subVars
    PROVE  [R!RosterNext]_(R!rosterVars)
<1> USE DEF ToldFn
<1>1. CASE Lost
  <2>1. R!Lose
      BY <1>1, LosesAnnouncements DEF Lost, R!Lose
  <2>2. QED
      BY <2>1 DEF R!RosterNext
<1>2. CASE VMLeaveVideoRoom /\ stale' = [f \in Feeds |-> 0]
  <2>1. mVideoRoomPeerList' = <<>> /\ UNCHANGED srv
      BY <1>2 DEF VMLeaveVideoRoom
  <2>2. (\A f : Subscribers(f)' = {}) /\ \A f : ToldOf(f)' = ToldOf(f)
      BY <2>1 DEF Subscribers, ToldOf, Known
  <2>3. R!Clear
      BY <1>2, <2>2, FS_EmptySet DEF R!Clear, R!NoneAtAll, RosterOf
  <2>4. QED
      BY <2>3 DEF R!RosterNext
<1>3. CASE VMLogout /\ stale' = [f \in Feeds |-> 0]
  <2>1. (\A f : Subscribers(f)' = {}) /\ \A f : ToldOf(f)' = {}
      BY <1>3 DEF VMLogout, Subscribers, ToldOf, Known
  <2>2. R!Restart
      BY <1>3, <2>1, FS_EmptySet DEF R!Restart, R!NoneAtAll, RosterOf
  <2>3. QED
      BY <2>2 DEF R!RosterNext
<1>4. CASE Goes
  <2>1. ASSUME NEW h \in PluginHandles, NEW feeds \in SUBSET Feeds,
               onVideoRoomEventJoin(h, feeds)
        PROVE  R!RosterNext
    <3>1. R!Announce(feeds)
        BY <1>4, <2>1, JoinedAnnounces DEF Goes, R!Announce
    <3>2. QED
        BY <3>1 DEF R!RosterNext
  <2>2. ASSUME NEW h \in PluginHandles, NEW f \in Feeds, onVideoRoomEventPublisher(h, f)
        PROVE  R!RosterNext
    <3>1. R!Announce({f})
        BY <1>4, <2>2, PublisherAnnounces DEF Goes, R!Announce
    <3>2. QED
        BY <3>1 DEF R!RosterNext
  <2>3. ASSUME NEW h \in PluginHandles, NEW f \in Feeds, onVideoRoomEventUnpublish(h, f)
        PROVE  R!RosterNext
    <3>1. R!Withdraw(f)
        BY <1>4, <2>3, UnpublishWithdraws DEF Goes, R!Withdraw
    <3>2. QED
        BY <3>1 DEF R!RosterNext
  <2>4. CASE \/ JoinVideoRoom \/ onCreateSessionId
             \/ \E c \in callbacks : onAttachVideoRoomJoin(c)
             \/ \E h \in PluginHandles :
                  SendSDP(h) \/ \E type \in {"offer", "answer"} : EventSdp(h, type)
    <3>1. UNCHANGED R!rosterVars
        BY <1>4, <2>4, OthersKeepCounts DEF Goes, R!rosterVars
    <3>2. QED
        BY <3>1
  <2>5. QED
      BY <1>4, <2>1, <2>2, <2>3, <2>4 DEF Goes, ServerStep
<1>5. CASE UNCHANGED subVars
    BY <1>5 DEF subVars, vmVars, R!rosterVars, RosterOf, Subscribers, ToldOf, Known
<1>6. QED
    BY <1>1, <1>2, <1>3, <1>4, <1>5 DEF SubNext, Left

LEMMA InitRefines == SubInit => R!RosterInit
<1> SUFFICES ASSUME SubInit PROVE R!RosterInit
    OBVIOUS
<1>1. RosterOf = R!NoneAtAll /\ ToldFn = R!NoneAtAll
    BY NobodySubscribes, NobodyTold DEF SubInit, VMInit
<1>2. QED
    BY <1>1 DEF SubInit, R!RosterInit, ToldFn, R!NoneAtAll

\* JanusVideoRoomManager implements Roster: each announcement adds one subscriber,
\* each "unpublished" takes one off the list, leaving takes all, and nothing else
\* changes how many there are.
THEOREM ManagerImplementsRoster == SubSpec => ImplementsRoster
<1>1. VMInv /\ [SubNext]_subVars => [R!RosterNext]_(R!rosterVars)
    BY StepRefines
<1>2. QED
    BY <1>1, InitRefines, AlwaysSubInv, PTL DEF SubSpec, ImplementsRoster, R!RosterSpec

-----------------------------------------------------------------------------
(* What Roster promises, and with it what the manager's list holds.        *)

CoveredInv == R!RosterTypeOK /\ R!Covered

LEMMA RosterCounts == VMTypeOK => RosterOf \in [Feeds -> Nat] /\ ToldFn \in [Feeds -> Nat]
BY CountsAreFinite DEF RosterOf, ToldFn

\* Every step of Roster keeps Covered, whatever keeps the counts.
LEMMA RosterKeepsCovered ==
    ASSUME CoveredInv, VMTypeOK, VMTypeOK', [R!RosterNext]_(R!rosterVars)
    PROVE  CoveredInv'
<1> DEFINE r == RosterOf
           t == ToldFn
<1>1. /\ r \in [Feeds -> Nat] /\ t \in [Feeds -> Nat] /\ stale \in [Feeds -> Nat]
      /\ \A f \in Feeds : r[f] <= t[f] + stale[f]
    BY RosterCounts DEF CoveredInv, R!RosterTypeOK, R!Covered, ToldFn
<1>2. r' \in [Feeds -> Nat] /\ t' \in [Feeds -> Nat]
  <2>1. \A f \in Feeds : Cardinality(Subscribers(f)') \in Nat /\ Cardinality(ToldOf(f)') \in Nat
    <3> TAKE f \in Feeds
    <3>1. (/\ IsFiniteSet(Subscribers(f)) /\ Cardinality(Subscribers(f)) \in Nat
           /\ IsFiniteSet(ToldOf(f)) /\ Cardinality(ToldOf(f)) \in Nat)'
        BY CountsAreFinite, PTL
    <3>2. QED
        BY <3>1
  <2>2. QED
      BY <2>1 DEF RosterOf, ToldFn
<1>3. /\ stale' \in [Feeds -> Nat]
      /\ \A f \in Feeds : r'[f] <= t'[f] + stale'[f]
  <2>1. ASSUME NEW feeds \in SUBSET Feeds, R!Announce(feeds)
        PROVE  stale' \in [Feeds -> Nat] /\ \A f \in Feeds : r'[f] <= t'[f] + stale'[f]
    <3>1. r' = R!More(r, feeds) /\ t' = R!More(t, feeds) /\ stale' = stale
        BY <2>1 DEF R!Announce, ToldFn
    <3> HIDE DEF r, t
    <3>2. QED
        BY <1>1, <3>1 DEF R!More
  <2>2. ASSUME NEW p \in Feeds, R!Withdraw(p)
        PROVE  stale' \in [Feeds -> Nat] /\ \A f \in Feeds : r'[f] <= t'[f] + stale'[f]
    <3>1. /\ t[p] > 0 /\ t' = [t EXCEPT ![p] = t[p] - 1] /\ stale' = stale
          /\ r' = [r EXCEPT ![p] = IF r[p] > 0 THEN r[p] - 1 ELSE 0]
        BY <2>2 DEF R!Withdraw, ToldFn
    <3> HIDE DEF r, t
    <3>2. QED
        BY <1>1, <3>1
  <2>3. CASE R!Clear
    <3>1. r' = R!NoneAtAll /\ stale' = R!NoneAtAll
        BY <2>3 DEF R!Clear
    <3> HIDE DEF r, t
    <3>2. QED
        BY <1>2, <3>1 DEF R!NoneAtAll
  <2>4. CASE R!Lose
    <3>1. t' = R!NoneAtAll /\ stale' = r /\ r' = r
        BY <2>4 DEF R!Lose, ToldFn
    <3> HIDE DEF r, t
    <3>2. QED
        BY <1>1, <3>1 DEF R!NoneAtAll
  <2>5. CASE R!Restart
    <3>1. r' = R!NoneAtAll /\ stale' = R!NoneAtAll
        BY <2>5 DEF R!Restart
    <3> HIDE DEF r, t
    <3>2. QED
        BY <1>2, <3>1 DEF R!NoneAtAll
  <2>6. CASE UNCHANGED R!rosterVars
    <3>1. r' = r /\ t' = t /\ stale' = stale
        BY <2>6 DEF R!rosterVars, ToldFn
    <3> HIDE DEF r, t
    <3>2. QED
        BY <1>1, <3>1
  <2>7. QED
      BY <2>1, <2>2, <2>3, <2>4, <2>5, <2>6 DEF R!RosterNext
<1>4. QED
    BY <1>2, <1>3 DEF CoveredInv, R!RosterTypeOK, R!Covered, ToldFn

LEMMA AlwaysCovered == SubSpec => []CoveredInv
<1>1. SubInit => CoveredInv
  <2>1. SubInit => R!RosterInit
      BY InitRefines
  <2>2. R!RosterInit => CoveredInv
      BY DEF R!RosterInit, R!NoneAtAll, CoveredInv, R!RosterTypeOK, R!Covered
  <2>3. QED
      BY <2>1, <2>2
<1>2. VMInv /\ VMInv' /\ CoveredInv /\ [SubNext]_subVars => CoveredInv'
    BY StepRefines, RosterKeepsCovered DEF VMInv
<1>3. QED
    BY <1>1, <1>2, AlwaysSubInv, PTL DEF SubSpec

\* Ghosts, live subscribers no announcement stands for, come from lost sessions
\* only: there are no more of them than stale subscribers taken off the list by
\* the "unpublished" of a live one.
THEOREM GhostsOnlyFromLostSessions == SubSpec => []GhostsFromLostSessions
<1>1. VMInv /\ CoveredInv => GhostsFromLostSessions
  <2> SUFFICES ASSUME VMInv, CoveredInv, NEW f \in Feeds
               PROVE  Cardinality(LiveSubscribers(f)) - Cardinality(ToldOf(f))
                        <= stale[f] - Cardinality(Subscribers(f) \ LiveSubscribers(f))
      BY DEF GhostsFromLostSessions
  <2> DEFINE S == Subscribers(f)
             L == LiveSubscribers(f)
  <2>1. IsFiniteSet(S) /\ Cardinality(S) \in Nat /\ Cardinality(ToldOf(f)) \in Nat
      BY CountsAreFinite DEF VMInv
  <2>2. Cardinality(S) <= Cardinality(ToldOf(f)) + stale[f] /\ stale[f] \in Nat
      BY DEF CoveredInv, R!RosterTypeOK, R!Covered, RosterOf
  <2>3. L \subseteq S
      BY DEF LiveSubscribers
  <2> HIDE DEF S, L
  <2>4. /\ IsFiniteSet(S \ L)
        /\ Cardinality(S \ L) = Cardinality(S) - Cardinality(S \cap L)
      BY <2>1, FS_Difference
  <2>5. S \cap L = L /\ IsFiniteSet(L)
      BY <2>1, <2>3, FS_Subset
  <2>6. Cardinality(L) \in Nat /\ Cardinality(S \ L) \in Nat
      BY <2>4, <2>5, FS_CardinalityType
  <2>7. Cardinality(L) - Cardinality(ToldOf(f)) <= stale[f] - Cardinality(S \ L)
      BY <2>1, <2>2, <2>4, <2>5, <2>6
  <2>8. QED
      BY <2>7 DEF S, L
<1>2. QED
    BY <1>1, AlwaysSubInv, AlwaysCovered, PTL
=============================================================================
