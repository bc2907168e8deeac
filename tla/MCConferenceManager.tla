------------------------ MODULE MCConferenceManager ------------------------
(* Three handles competing for two windows.                                *)
EXTENDS ConferenceManager, FiniteSets, TLC

CONSTANTS h1, h2, h3

MCHandles == {h1, h2, h3}
HandleSymmetry == Permutations(MCHandles)

\* Bound: signals are queued only while there is one stream.  Neither the windows
\* nor the map of streams depends on the queue.
OneTalks == posted # <<>> => Cardinality({h \in Handles : InMap(h)}) <= 1
=============================================================================
