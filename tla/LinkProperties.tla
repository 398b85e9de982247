--------------------------- MODULE LinkProperties ---------------------------
(***************************************************************************)
(* What the app and its friends rely on.                                   *)
(***************************************************************************)
EXTENDS Link

\* No connection is left open behind the transport's back, whoever drops it and
\* reconnects: two would show the phone twice to the hub.
OneLink == \A c \in Slot : link[c] # "gone" => c = conn

\* Once SetIncognito(true) has returned nothing bare leaves the phone, although
\* the heartbeat and a reconnect send at any time.
StaysHidden ==
    file /\ job["app"].at # "reset" =>
        \A t \in Thread : job[t].frame # Nothing => job[t].frame.hidden

\* The room never sees the phone go back to an older status.
NeverBack == [][shown'.n >= shown.n]_vars

\* When the app has nothing more to say and the network behaves, the room comes
\* to see the last status, as the last incognito switch wants it: whatever was
\* lost on the way is made up for by the reconnect or the heartbeat.
Settles == <>[](current # 0 => shown = [n |-> current, hidden |-> file])

\* A phone that has turned the feed off does not go on receiving it.
StaysMuted == <>[](~listening /\ conn # NoConn => ~heard[conn])

\* "resuming should send listen on", mobile_test.go: a phone that has turned the
\* feed on gets it.
Resumes == <>[](listening /\ conn # NoConn => heard[conn])
=============================================================================
