------------------------------- MODULE Roster -------------------------------
(***************************************************************************)
(* What JanusVideoRoomManager promises about subscriptions, without lists, *)
(* peers, handles or answers: how many subscriptions to each feed it keeps *)
(* and how many announcements of the feed the server has not taken back.   *)
(* Subscription.tla shows that the manager implements it.                  *)
(*                                                                         *)
(* The client does not know which announcement a subscription was for: an  *)
(* "unpublished" ends any one of them.  Those of a lost session, which no  *)
(* announcement stands for any more, are the stale ones.                   *)
(***************************************************************************)
EXTENDS Integers

CONSTANT Feeds

VARIABLES
    roster,     \* per feed: subscriptions
    told,       \* per feed: announcements not taken back
    stale       \* per feed: subscriptions there were when the session was lost

rosterVars == <<roster, told, stale>>

RosterTypeOK ==
    /\ roster \in [Feeds -> Nat]
    /\ told \in [Feeds -> Nat]
    /\ stale \in [Feeds -> Nat]

NoneAtAll == [f \in Feeds |-> 0]

RosterInit == roster = NoneAtAll /\ told = NoneAtAll /\ stale = NoneAtAll

\* f's count c goes up by one for each feed that is announced.
More(c, feeds) == [f \in Feeds |-> IF f \in feeds THEN c[f] + 1 ELSE c[f]]

\* Each announced feed is subscribed to once, every time it is announced.
Announce(feeds) ==
    /\ roster' = More(roster, feeds)
    /\ told' = More(told, feeds)
    /\ UNCHANGED stale

\* One subscription ends, if there is one.
Withdraw(f) ==
    /\ told[f] > 0
    /\ told' = [told EXCEPT ![f] = @ - 1]
    /\ roster' = [roster EXCEPT ![f] = IF @ > 0 THEN @ - 1 ELSE 0]
    /\ UNCHANGED stale

\* The user leaves: nothing is subscribed to, which the server does not know.
Clear ==
    /\ roster' = NoneAtAll /\ stale' = NoneAtAll
    /\ UNCHANGED told

\* The session is lost, and with it what the server announced, not the client's part.
Lose ==
    /\ told' = NoneAtAll /\ stale' = roster
    /\ UNCHANGED roster

\* Logout: both sides start anew.
Restart == roster' = NoneAtAll /\ told' = NoneAtAll /\ stale' = NoneAtAll

RosterNext ==
    \/ \E feeds \in SUBSET Feeds : Announce(feeds)
    \/ \E f \in Feeds : Withdraw(f)
    \/ Clear
    \/ Lose
    \/ Restart

RosterSpec == RosterInit /\ [][RosterNext]_rosterVars

\* Beyond what the server has announced in this session only subscriptions carried
\* over from a lost session remain: leaving the room gets rid of them, and without
\* a lost session each subscription stands for an announcement.
Covered == \A f \in Feeds : roster[f] <= told[f] + stale[f]
=============================================================================
