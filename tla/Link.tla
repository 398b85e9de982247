-------------------------------- MODULE Link --------------------------------
(***************************************************************************)
(* How a phone stays in its room: the session of the mobile client         *)
(* (client/mobile/mobile.go) over the websocket transport it shares with   *)
(* the desktop (client/internal/transport/ws.go).                          *)
(*                                                                         *)
(* Three goroutines send on the connection: the app's calls, which come    *)
(* one at a time (PresenceService.kt), the loop that reads and reconnects, *)
(* and the heartbeat; a pinger watches each connection.  All of them may   *)
(* drop the connection, and all use one they looked up a step before.  A   *)
(* statement under a mutex, or one that only touches what a goroutine      *)
(* owns, is one step with the one before it.                               *)
(***************************************************************************)
EXTENDS Integers

CONSTANTS Slot,        \* slots for the connections that somebody still knows of
          MaxWishes,   \* bound on the calls of the app
          MaxTroubles  \* bound on what goes wrong

ASSUME MaxWishesAssumption == MaxWishes \in Nat
ASSUME MaxTroublesAssumption == MaxTroubles \in Nat

VARIABLES conn,      \* WSTransport.conn: a slot, or NoConn
          link,      \* the connections: up, stale (nobody has noticed), or gone
          pinger,    \* their pingers: off, on, or about to drop
          heard,     \* the server's listen flag of each connection
          shown,     \* the last status of this device that the server has taken
          listening, \* Session.listening
          current,   \* Session.current: the number of the status
          gate,      \* Gate.last: the last status that was let through
          file,      \* whether privacy.json says incognito
          policy,    \* whether the session's privacy.Store says so
          job,       \* what each goroutine is at
          wishes, troubles

netVars == <<conn, link, pinger>>
statusVars == <<current, gate, file, policy>>
vars == <<netVars, heard, shown, listening, statusVars, job, wishes, troubles>>

NoConn == "none"
ASSUME SlotAssumption == NoConn \notin Slot

Thread == {"app", "loop", "beat"}
Status == [n : 0 .. MaxWishes, hidden : BOOLEAN]
Nothing == [n |-> 0, hidden |-> FALSE]

\* A goroutine: where it is, the connection it has looked up, the status or the
\* listen flag it is to send; a reconnect goes on to offer the status.
At(step) == [at |-> step, conn |-> NoConn, frame |-> Nothing, on |-> FALSE, restoring |-> FALSE]
Step == {"off", "idle", "check", "read", "dial", "restore", "listen", "flag", "offer", "reset", "send", "drop"}

TypeOK ==
    /\ conn \in Slot \cup {NoConn}
    /\ link \in [Slot -> {"up", "stale", "gone"}]
    /\ pinger \in [Slot -> {"off", "on", "drop"}]
    /\ heard \in [Slot -> BOOLEAN]
    /\ shown \in Status
    /\ listening \in BOOLEAN
    /\ current \in 0 .. MaxWishes
    /\ gate \in Status
    /\ file \in BOOLEAN /\ policy \in BOOLEAN
    /\ job \in [Thread -> [at : Step, conn : Slot \cup {NoConn}, frame : Status,
                           on : BOOLEAN, restoring : BOOLEAN]]
    /\ wishes \in 0 .. MaxWishes
    /\ troubles \in 0 .. MaxTroubles

\* Start: the app's goroutine makes the first connection.
Init ==
    /\ conn = NoConn
    /\ link = [c \in Slot |-> "gone"]
    /\ pinger = [c \in Slot |-> "off"]
    /\ heard = [c \in Slot |-> TRUE]
    /\ shown = Nothing
    /\ listening = TRUE
    /\ current = 0 /\ gate = Nothing
    /\ file \in BOOLEAN /\ policy = file
    /\ job = [t \in Thread |-> At(IF t = "app" THEN "dial" ELSE "off")]
    /\ wishes = 0 /\ troubles = 0

Wish == wishes < MaxWishes /\ wishes' = wishes + 1
Trouble == troubles < MaxTroubles /\ troubles' = troubles + 1
NoTrouble == UNCHANGED troubles

-----------------------------------------------------------------------------
\* What the goroutines have in common.

Go(t, j) == job' = [job EXCEPT ![t] = j]
Rest(t) == At(IF t = "loop" THEN "check" ELSE "idle")

\* t is done; if it was Start, the other two goroutines begin.
Done(t) == job' = [u \in Thread |-> IF u = t \/ job[u].at = "off" THEN Rest(u) ELSE job[u]]

\* publishMu is held by whoever has a status to send.
PublishFree == \A t \in Thread : job[t].frame = Nothing

\* Mutant: the connection is forgotten and not closed.
DropForgets(p) ==
    /\ conn' = NoConn
    /\ UNCHANGED link
    /\ pinger' = IF conn = NoConn THEN p ELSE [p EXCEPT ![conn] = IF @ = "on" THEN "off" ELSE @]
    /\ NoTrouble

\* drop: the connection that is current now is closed and its pinger cancelled,
\* which may have a ping under way and come to drop the connection too.
Drop(p) ==
    /\ conn' = NoConn
    /\ link' = [c \in Slot |-> IF c = conn THEN "gone" ELSE link[c]]
    /\ \/ NoTrouble
          /\ pinger' = [c \in Slot |-> IF c = conn /\ p[c] = "on" THEN "off" ELSE p[c]]
       \/ conn # NoConn /\ Trouble
          /\ p[conn] = "on" /\ pinger' = [p EXCEPT ![conn] = "drop"]

\* Mutant: statuses are sent without the lock.
OfferUnlocked(t, n, hidden, due) ==
    LET s == [n |-> n, hidden |-> hidden] IN
    IF n = 0 \/ (s = gate /\ ~due)
    THEN Done(t) /\ UNCHANGED gate
    ELSE /\ gate' = s
         /\ IF conn = NoConn THEN Done(t)
            ELSE Go(t, [At("send") EXCEPT !.conn = conn, !.frame = s])

\* offerLocked and Gate.Pass, up to the look-up of the connection in Send: what
\* has not changed is not sent, unless it is due.  The gate takes a status for
\* sent whether or not there is a connection.
Offer(t, n, hidden, due) ==
    LET s == [n |-> n, hidden |-> hidden] IN
    /\ PublishFree
    /\ IF n = 0 \/ (s = gate /\ ~due)
       THEN Done(t) /\ UNCHANGED gate
       ELSE /\ gate' = s
            /\ IF conn = NoConn THEN Done(t)
               ELSE Go(t, [At("send") EXCEPT !.conn = conn, !.frame = s])

\* write: taken by the server, or taken and skipped (MIN_MESSAGE_INTERVAL), or
\* lost in a connection nobody knows to be broken.
Send(t) ==
    /\ job[t].at = "send"
    /\ \/ link[job[t].conn] = "up" /\ shown' = job[t].frame /\ NoTrouble
       \/ link[job[t].conn] = "up" /\ UNCHANGED shown /\ Trouble
       \/ link[job[t].conn] = "stale" /\ UNCHANGED shown /\ NoTrouble
    /\ Done(t)
    /\ UNCHANGED <<netVars, heard, listening, statusVars, wishes>>

\* SendListen looks the connection up ...
LookUp(t) ==
    /\ job[t].at = "listen"
    /\ IF conn # NoConn THEN Go(t, [job[t] EXCEPT !.at = "flag", !.conn = conn])
       ELSE IF job[t].restoring THEN Go(t, At("offer")) ELSE Done(t)
    /\ UNCHANGED <<netVars, heard, shown, listening, statusVars, wishes, troubles>>

\* ... and writes the frame.
SendListen(t) ==
    /\ job[t].at = "flag"
    /\ link[job[t].conn] # "gone"
    /\ heard' = IF link[job[t].conn] = "up" THEN [heard EXCEPT ![job[t].conn] = job[t].on] ELSE heard
    /\ IF job[t].restoring THEN Go(t, At("offer")) ELSE Done(t)
    /\ UNCHANGED <<netVars, shown, listening, statusVars, wishes, troubles>>

\* The write fails, or the loop's read does.
Fails(t) ==
    /\ job[t].at \in {"send", "flag", "read"}
    /\ link[job[t].conn] \in (IF job[t].at = "read" THEN {"gone"} ELSE {"gone", "stale"})
    /\ Go(t, [job[t] EXCEPT !.at = "drop"])
    /\ UNCHANGED <<netVars, heard, shown, listening, statusVars, wishes, troubles>>

\* Whoever had an error drops the connection, which may be another one by now.
DropConn(t) ==
    /\ job[t].at = "drop"
    /\ Drop(pinger)
    /\ IF job[t].restoring THEN Go(t, At("offer")) ELSE Done(t)
    /\ UNCHANGED <<heard, shown, listening, statusVars, wishes>>

-----------------------------------------------------------------------------
\* Listen, connect and restore.

Check ==
    /\ job["loop"].at = "check"
    /\ Go("loop", IF conn = NoConn THEN At("dial") ELSE [At("read") EXCEPT !.conn = conn])
    /\ UNCHANGED <<netVars, heard, shown, listening, statusVars, wishes, troubles>>

\* A slot that nobody knows of any more.
Fresh(c) == link[c] = "gone" /\ pinger[c] = "off" /\ \A t \in Thread : job[t].conn # c

Dial(t) ==
    /\ job[t].at = "dial"
    /\ \E c \in {s \in Slot : Fresh(s)} :
          /\ conn' = c
          /\ link' = [link EXCEPT ![c] = "up"]
          /\ pinger' = [pinger EXCEPT ![c] = "on"]
          /\ heard' = [heard EXCEPT ![c] = TRUE]
    /\ Go(t, At("restore"))
    /\ UNCHANGED <<shown, listening, statusVars, wishes, troubles>>

\* Start goes on without a connection, reconnect tries again.
DialFails(t) ==
    /\ job[t].at = "dial"
    /\ Trouble
    /\ Done(t)
    /\ UNCHANGED <<netVars, heard, shown, listening, statusVars, wishes>>

\* Mutant: the listen flag is not restored.
RestoreNothing(t) ==
    /\ job[t].at = "restore"
    /\ Go(t, At("offer"))
    /\ UNCHANGED <<netVars, heard, shown, listening, statusVars, wishes, troubles>>

\* restore reads the flag ...
Restore(t) ==
    /\ job[t].at = "restore"
    /\ Go(t, IF listening THEN At("offer") ELSE [At("listen") EXCEPT !.restoring = TRUE])
    /\ UNCHANGED <<netVars, heard, shown, listening, statusVars, wishes, troubles>>

\* The store looks at the file once a second at most.
Policy == {policy, file}  \* what it may say

\* ... and offers the status, due or not.
RestoreStatus(t) ==
    /\ job[t].at = "offer"
    /\ policy' \in Policy
    /\ Offer(t, current, policy', TRUE)
    /\ UNCHANGED <<netVars, heard, shown, listening, current, file, wishes, troubles>>

-----------------------------------------------------------------------------
\* The heartbeat and the pingers.

\* Mutant: what was let through once is never sent again.
BeatUnchanged ==
    /\ job["beat"].at = "idle"
    /\ policy' \in Policy
    /\ Offer("beat", current, policy', FALSE)
    /\ UNCHANGED <<netVars, heard, shown, listening, current, file, wishes, troubles>>

Beat ==
    /\ job["beat"].at = "idle"
    /\ policy' \in Policy
    /\ Offer("beat", current, policy', TRUE)
    /\ UNCHANGED <<netVars, heard, shown, listening, current, file, wishes, troubles>>

PingFails(c) ==
    /\ pinger[c] = "on" /\ link[c] # "up"
    /\ pinger' = [pinger EXCEPT ![c] = "drop"]
    /\ UNCHANGED <<conn, link, heard, shown, listening, statusVars, job, wishes, troubles>>

PingDrops(c) ==
    /\ pinger[c] = "drop"
    /\ Drop([pinger EXCEPT ![c] = "off"])
    /\ UNCHANGED <<heard, shown, listening, statusVars, job, wishes>>

-----------------------------------------------------------------------------
\* The app's calls.

Idle == job["app"].at = "idle"

SetListening(on) ==
    /\ Idle /\ Wish
    /\ listening # on
    /\ listening' = on
    /\ Go("app", [At("listen") EXCEPT !.on = on])
    /\ UNCHANGED <<netVars, heard, shown, statusVars, troubles>>

\* Publish takes publishMu, makes the snapshot the current one and offers it.
Publish ==
    /\ Idle /\ Wish
    /\ current' = current + 1
    /\ policy' \in Policy
    /\ Offer("app", current', policy', FALSE)
    /\ UNCHANGED <<netVars, heard, shown, listening, file, troubles>>

\* SetIncognito writes the file, ...
SetIncognito(on) ==
    /\ Idle /\ Wish
    /\ file' = on
    /\ Go("app", At("reset"))
    /\ UNCHANGED <<netVars, heard, shown, listening, current, gate, policy, troubles>>

\* Mutant: ... and goes on with the store it has ...
KeepPolicy ==
    /\ job["app"].at = "reset"
    /\ policy' \in Policy
    /\ Offer("app", current, policy', FALSE)
    /\ UNCHANGED <<netVars, heard, shown, listening, current, file, wishes, troubles>>

\* ... takes a new store, and offers what is current.
ResetPolicy ==
    /\ job["app"].at = "reset"
    /\ policy' = file
    /\ Offer("app", current, file, FALSE)
    /\ UNCHANGED <<netVars, heard, shown, listening, current, file, wishes, troubles>>

\* NetworkAvailable: Kick.
Kick ==
    /\ Idle /\ Wish
    /\ Drop(pinger)
    /\ UNCHANGED <<heard, shown, listening, statusVars, job>>

-----------------------------------------------------------------------------
\* The network: a connection is closed, or breaks without a word.
Break(c) ==
    /\ link[c] = "up"
    /\ Trouble
    /\ \E state \in {"stale", "gone"} : link' = [link EXCEPT ![c] = state]
    /\ UNCHANGED <<conn, pinger, heard, shown, listening, statusVars, job, wishes>>

Proceed(t) ==
    \/ Send(t) \/ LookUp(t) \/ SendListen(t) \/ Fails(t) \/ DropConn(t)
    \/ Dial(t) \/ Restore(t) \/ RestoreStatus(t)

Next ==
    \/ \E t \in Thread : Proceed(t) \/ DialFails(t)
    \/ Check \/ Beat
    \/ \E c \in Slot : PingFails(c) \/ PingDrops(c) \/ Break(c)
    \/ \E on \in BOOLEAN : SetListening(on) \/ SetIncognito(on)
    \/ Publish \/ ResetPolicy \/ Kick

Spec == Init /\ [][Next]_vars

\* Every goroutine runs, the heartbeat comes again and again, and a goroutine
\* that waits for publishMu gets it (sync.Mutex lets nobody starve), hence the
\* strong fairness.
Fairness ==
    /\ \A t \in Thread : SF_vars(Proceed(t))
    /\ WF_vars(Check) /\ SF_vars(Beat) /\ SF_vars(ResetPolicy)
    /\ \A c \in Slot : WF_vars(PingFails(c)) /\ WF_vars(PingDrops(c))

FairSpec == Spec /\ Fairness
=============================================================================
