---------------------------- MODULE HubProperties ----------------------------
(***************************************************************************)
(* What the hub owes its subscribers.                                      *)
(***************************************************************************)
EXTENDS Hub

\* Where the queue of s holds snapshots of device d.
Waiting(s, d) == {i \in DOMAIN queue[s] : queue[s][i].kind = "snapshot" /\ queue[s][i].from = d}

\* A friend's status never goes back: whatever replays, toggles and overflows
\* happen in between, a subscriber gets the snapshots of a device in the order
\* they were published, and none that is newer than the one remembered.
InOrder ==
    \A s \in Live, d \in Device :
        /\ seen[s][d] <= last[d].n
        /\ \A i \in Waiting(s, d) :
              /\ seen[s][d] <= queue[s][i].n /\ queue[s][i].n <= last[d].n
              /\ \A j \in Waiting(s, d) : i < j => queue[s][i].n <= queue[s][j].n

\* Nobody in the room is shown as offline by mistake: a subscriber that listens
\* and has lost nothing to a full queue has, or is about to have, the last
\* snapshot of every other device that published within REPLAY_MAX_AGE, however
\* late it came and however often it muted the feed (the comment on
\* REPLAY_MAX_AGE).
CaughtUp ==
    \A s \in Live, d \in Device :
        sub[s].listening /\ s \notin lost /\ d # sub[s].device
           /\ last[d] # Never /\ last[d].age <= ReplayMaxAge
        => seen[s][d] = last[d].n \/ \E i \in Waiting(s, d) : queue[s][i].n = last[d].n
=============================================================================
