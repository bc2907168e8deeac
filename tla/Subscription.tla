---------------------------- MODULE Subscription ----------------------------
(***************************************************************************)
(* JanusVideoRoomManager against its promise about subscriptions: its list *)
(* of peers implements Roster.  Kept track of: the subscriptions a session *)
(* leaves behind when it is lost.                                          *)
(***************************************************************************)
EXTENDS JanusVideoRoomManager

VARIABLE stale      \* history: subscribers listed when the session was lost

subVars == <<vmVars, stale>>

\* Peers on the list that subscribe to f, and handles of ours that were told of f.
Subscribers(f) == {i \in DOMAIN mVideoRoomPeerList : peers[mVideoRoomPeerList[i]].sub = f}
ToldOf(f) == {h \in PluginHandles : Known(h) /\ f \in srv[h].known}

RosterOf == [f \in Feeds |-> Cardinality(Subscribers(f))]

SubInit == VMInit /\ stale = [f \in Feeds |-> 0]

Lost == LosesSession /\ stale' = RosterOf

Left == (VMLeaveVideoRoom \/ VMLogout) /\ stale' = [f \in Feeds |-> 0]

Goes == (JoinVideoRoom \/ ServerStep) /\ UNCHANGED stale

SubNext == Lost \/ Left \/ Goes

SubSpec == SubInit /\ [][SubNext]_subVars

R == INSTANCE Roster WITH
        roster <- RosterOf,
        told <- [f \in Feeds |-> Cardinality(ToldOf(f))]

\* The manager implements Roster: whatever the order of answers, events and user
\* actions, each announcement adds one subscriber, each "unpublished" takes one off
\* the list, leaving takes all, and nothing else changes how many there are.
ImplementsRoster == R!RosterSpec

\* Subscribers of f whose session is the live one.
LiveSubscribers(f) == {i \in Subscribers(f) : peers[mVideoRoomPeerList[i]].live}

\* A live subscriber that the server will not end by an "unpublished" any more, a
\* ghost whose window stays taken, exists only in return for a stale one that was
\* taken off the list in its place: stale peers come first on the list, so after a
\* reconnect they meet the "unpublished" of the live ones.
GhostsFromLostSessions ==
    \A f \in Feeds :
        Cardinality(LiveSubscribers(f)) - Cardinality(ToldOf(f))
            <= stale[f] - Cardinality(Subscribers(f) \ LiveSubscribers(f))
=============================================================================
